-------------------------- MODULE LifecycleProofs --------------------------
(***************************************************************************)
(* Theorems about Lifecycle, for every program and every set of owners,    *)
(* effects and cleanups.  The types and what is in force hold for all      *)
(* programs.  What disposal promises holds when cleanup functions call     *)
(* nothing of the library (Silent) and nobody enters a disposed owner or   *)
(* disposes a scope from inside it (Orderly).  The program Siblings of     *)
(* MCLifecycle, whose cleanup disposes a sibling, shows what can happen    *)
(* otherwise.                                                              *)
(***************************************************************************)
EXTENDS Lifecycle, SequenceTheorems, TLAPS

-----------------------------------------------------------------------------
(* The inductive invariant                                                 *)

OwnerKinds == {"root", "enter"}
EffectKinds == {"first", "run"}

\* A frame is about something of the right kind, and remembers an owner, or an effect.
Sound(f) ==
  /\ f.kind \in OwnerKinds \cup {"children", "disposers", "cleanups"} => f.of \in Owners
  /\ f.kind \in EffectKinds \cup {"clean", "wipe"} => f.of \in Effects
  /\ f.kind = "call" => f.of \in Cleanups
  /\ f.kind \in OwnerKinds => f.prev \in Owners \cup {None}
  /\ f.kind \in EffectKinds => f.prev \in Effects \cup {None}

\* w[i] is what was in force below frame i, as set by the frames of these kinds: each
\* of them remembers it, and v is in force now.
Linked(st, kinds, v) ==
  \E w \in [Nat -> Scopes \cup {None}] :
    /\ w[1] = None /\ w[Len(st) + 1] = v
    /\ \A i \in 1..Len(st) :
         IF st[i].kind \in kinds THEN st[i].prev = w[i] /\ w[i+1] = st[i].of
         ELSE w[i+1] = w[i]

Calls(st, o, t) ==
  /\ st \in Seq(Frame)
  /\ \A i \in 1..Len(st) : Sound(st[i])
  /\ Linked(st, OwnerKinds, o)
  /\ Linked(st, EffectKinds, t)

IInv == TypeOK /\ Calls(stack, owner, tracking)

-----------------------------------------------------------------------------
(* Stacks                                                                  *)

\* A call that remembers what is in force.
LEMMA LinkedPush ==
  ASSUME NEW st \in Seq(Frame), NEW kinds, NEW v \in Scopes \cup {None},
         Linked(st, kinds, v), NEW f \in Frame,
         f.kind \in kinds => f.prev = v /\ f.of \in Scopes
  PROVE  Linked(Append(st, f), kinds, IF f.kind \in kinds THEN f.of ELSE v)
  <1> DEFINE new == Append(st, f)
             u == IF f.kind \in kinds THEN f.of ELSE v
  <1>1. /\ Len(st) \in Nat /\ Len(new) = Len(st) + 1
        /\ \A i \in 1..Len(st) : new[i] = st[i]
        /\ new[Len(st) + 1] = f
    BY AppendProperties, LenProperties
  <1>2. PICK w \in [Nat -> Scopes \cup {None}] :
          /\ w[1] = None /\ w[Len(st) + 1] = v
          /\ \A i \in 1..Len(st) :
               IF st[i].kind \in kinds THEN st[i].prev = w[i] /\ w[i+1] = st[i].of
               ELSE w[i+1] = w[i]
    BY DEF Linked
  <1>3. u \in Scopes \cup {None}
    OBVIOUS
  <1>4. (f.kind \in kinds => f.prev = v /\ u = f.of) /\ (f.kind \notin kinds => u = v)
    OBVIOUS
  <1> HIDE DEF new, u
  <1> DEFINE x == [w EXCEPT ![Len(st) + 2] = u]
  <1>5. /\ x \in [Nat -> Scopes \cup {None}] /\ x[Len(st) + 2] = u
        /\ \A i \in 1..Len(st)+1 : x[i] = w[i]
    BY <1>1, <1>3
  <1> HIDE DEF x
  <1>6. ASSUME NEW i \in 1..Len(new)
        PROVE  IF new[i].kind \in kinds THEN new[i].prev = x[i] /\ x[i+1] = new[i].of
               ELSE x[i+1] = x[i]
    <2>1. CASE i \in 1..Len(st)
      <3>1. i \in 1..Len(st)+1 /\ i+1 \in 1..Len(st)+1
        BY <1>1, <2>1
      <3> QED BY <1>1, <1>2, <1>5, <2>1, <3>1
    <2>2. CASE i = Len(st) + 1
      <3>1. i \in 1..Len(st)+1 /\ i + 1 = Len(st) + 2
        BY <1>1, <2>2
      <3>2. new[i] = f /\ x[i] = v /\ x[i+1] = u
        BY <1>1, <1>2, <1>5, <2>2, <3>1
      <3> QED BY <1>4, <3>2
    <2> QED BY <1>1, <2>1, <2>2
  <1>7. x[1] = None /\ x[Len(new) + 1] = u
    <2>1. 1 \in 1..Len(st)+1 /\ Len(new) + 1 = Len(st) + 2
      BY <1>1
    <2> QED BY <1>2, <1>5, <2>1
  <1>8. Linked(new, kinds, u)
    BY <1>5, <1>6, <1>7 DEF Linked
  <1> QED BY <1>8 DEF new, u

\* A return that restores what the frame remembers.
LEMMA LinkedPop ==
  ASSUME NEW st \in Seq(Frame), NEW kinds, NEW v, Linked(st, kinds, v), st # <<>>
  PROVE  Linked(SubSeq(st, 1, Len(st) - 1), kinds,
                IF st[Len(st)].kind \in kinds THEN st[Len(st)].prev ELSE v)
  <1> DEFINE new == SubSeq(st, 1, Len(st) - 1)
             u == IF st[Len(st)].kind \in kinds THEN st[Len(st)].prev ELSE v
  <1>1. Len(st) \in Nat /\ Len(st) >= 1
    BY EmptySeq, LenProperties
  <1>2. \A i \in 1..Len(st)-1 : st[i] \in Frame
    BY ElementOfSeq, <1>1
  <1>3. Len(new) = Len(st) - 1 /\ \A i \in 1..Len(st)-1 : new[i] = st[i]
    <2> DEFINE n == Len(st) - 1
    <2>1. n \in Nat /\ n \in Int /\ 1 \in Int
      BY <1>1
    <2>2. \A i \in 1..n : st[i] \in Frame
      BY <1>2
    <2> HIDE DEF n
    <2>3. /\ Len(SubSeq(st, 1, n)) = IF 1 <= n THEN n - 1 + 1 ELSE 0
          /\ \A i \in 1..n-1+1 : SubSeq(st, 1, n)[i] = st[1+i-1]
      BY <2>1, <2>2, SubSeqProperties
    <2>4. Len(SubSeq(st, 1, n)) = n /\ \A i \in 1..n : SubSeq(st, 1, n)[i] = st[i]
      BY <2>1, <2>3
    <2> QED BY <2>4 DEF n
  <1>4. PICK w \in [Nat -> Scopes \cup {None}] :
          /\ w[1] = None /\ w[Len(st) + 1] = v
          /\ \A i \in 1..Len(st) :
               IF st[i].kind \in kinds THEN st[i].prev = w[i] /\ w[i+1] = st[i].of
               ELSE w[i+1] = w[i]
    BY DEF Linked
  <1>5. w[Len(st)] = u
    <2>1. Len(st) \in 1..Len(st)
      BY <1>1
    <2> QED BY <1>4, <2>1
  <1> HIDE DEF new, u
  <1>6. Len(new) + 1 = Len(st) /\ \A i \in 1..Len(new) : i \in 1..Len(st)
    BY <1>1, <1>3
  <1>7. w[Len(new) + 1] = u
    BY <1>5, <1>6
  <1>8. \A i \in 1..Len(new) :
          IF new[i].kind \in kinds THEN new[i].prev = w[i] /\ w[i+1] = new[i].of
          ELSE w[i+1] = w[i]
    BY <1>3, <1>4, <1>6
  <1>9. Linked(new, kinds, u)
    BY <1>4, <1>7, <1>8 DEF Linked
  <1> QED BY <1>9 DEF new, u

\* What the return of the innermost call, and one step of a loop, do to a stack.
LEMMA PopFacts ==
  ASSUME NEW st \in Seq(Frame), st # <<>>
  PROVE  /\ SubSeq(st, 1, Len(st) - 1) \in Seq(Frame)
         /\ Len(SubSeq(st, 1, Len(st) - 1)) = Len(st) - 1
         /\ \A i \in 1..Len(st)-1 : SubSeq(st, 1, Len(st) - 1)[i] = st[i]
  <1> DEFINE n == Len(st) - 1
  <1>1. n \in Nat /\ 1 \in Int /\ n \in Int
    BY EmptySeq, LenProperties
  <1>2. \A i \in 1..n : st[i] \in Frame
    BY ElementOfSeq, <1>1
  <1> HIDE DEF n
  <1>3. /\ SubSeq(st, 1, n) \in Seq(Frame)
        /\ Len(SubSeq(st, 1, n)) = IF 1 <= n THEN n - 1 + 1 ELSE 0
        /\ \A i \in 1..n-1+1 : SubSeq(st, 1, n)[i] = st[1+i-1]
    BY <1>1, <1>2, SubSeqProperties
  <1>4. /\ SubSeq(st, 1, n) \in Seq(Frame)
        /\ Len(SubSeq(st, 1, n)) = n
        /\ \A i \in 1..n : SubSeq(st, 1, n)[i] = st[i]
    BY <1>1, <1>3
  <1> QED BY <1>4 DEF n

LEMMA StepFacts ==
  ASSUME NEW st \in Seq(Frame), st # <<>>, st[Len(st)].at >= 1
  PROVE  /\ [st EXCEPT ![Len(st)].at = @ - 1] \in Seq(Frame)
         /\ Len([st EXCEPT ![Len(st)].at = @ - 1]) = Len(st)
         /\ \A i \in 1..Len(st) :
              /\ [st EXCEPT ![Len(st)].at = @ - 1][i].kind = st[i].kind
              /\ [st EXCEPT ![Len(st)].at = @ - 1][i].of = st[i].of
              /\ [st EXCEPT ![Len(st)].at = @ - 1][i].prev = st[i].prev
  <1> DEFINE f == [st[Len(st)] EXCEPT !.at = @ - 1]
             new == [st EXCEPT ![Len(st)] = f]
  <1>1. Len(st) \in 1..Len(st) /\ Len(st) \in Nat
    BY EmptySeq, LenProperties
  <1>2. /\ f \in Frame /\ f.kind = st[Len(st)].kind /\ f.of = st[Len(st)].of
        /\ f.prev = st[Len(st)].prev
    <2>1. st[Len(st)] \in Frame
      BY <1>1, ElementOfSeq
    <2>2. ASSUME NEW r \in Frame, NEW v \in Nat
          PROVE  /\ [r EXCEPT !.at = v] \in Frame
                 /\ [r EXCEPT !.at = v].kind = r.kind /\ [r EXCEPT !.at = v].of = r.of
                 /\ [r EXCEPT !.at = v].prev = r.prev
      BY Z3 DEF Frame
    <2>3. st[Len(st)].at - 1 \in Nat
      BY <2>1 DEF Frame
    <2> QED BY <2>1, <2>2, <2>3
  <1>3. [st EXCEPT ![Len(st)].at = @ - 1] = new
    OBVIOUS
  <1> HIDE DEF f
  <1>4. /\ new \in Seq(Frame) /\ Len(new) = Len(st)
        /\ new[Len(st)] = f
        /\ \A i \in 1..Len(st)-1 : new[i] = st[i]
    BY <1>1, <1>2, ExceptSeq
  <1>5. \A i \in 1..Len(st) : i \in 1..Len(st)-1 \/ i = Len(st)
    BY <1>1
  <1> HIDE DEF new
  <1>6. \A i \in 1..Len(st) :
          new[i].kind = st[i].kind /\ new[i].of = st[i].of /\ new[i].prev = st[i].prev
    BY <1>2, <1>4, <1>5
  <1> QED BY <1>3, <1>4, <1>6

\* A call of a sound frame.
LEMMA CallsPush ==
  ASSUME NEW st, NEW o \in Scopes \cup {None}, NEW t \in Scopes \cup {None}, Calls(st, o, t),
         NEW f \in Frame, Sound(f),
         f.kind \in OwnerKinds => f.prev = o, f.kind \in EffectKinds => f.prev = t
  PROVE  Calls(Append(st, f), IF f.kind \in OwnerKinds THEN f.of ELSE o,
                              IF f.kind \in EffectKinds THEN f.of ELSE t)
  <1>1. st \in Seq(Frame) /\ Len(st) \in Nat
    BY LenProperties DEF Calls
  <1>2. /\ Append(st, f) \in Seq(Frame)
        /\ Len(Append(st, f)) = Len(st) + 1
        /\ \A i \in 1..Len(st) : Append(st, f)[i] = st[i]
        /\ Append(st, f)[Len(st) + 1] = f
    BY <1>1, AppendProperties
  <1>3. ASSUME NEW i \in 1..Len(Append(st, f))  PROVE Sound(Append(st, f)[i])
    <2>1. CASE i \in 1..Len(st)
      BY <1>2, <2>1 DEF Calls
    <2>2. CASE i = Len(st) + 1
      BY <1>2, <2>2
    <2> QED BY <1>1, <1>2, <2>1, <2>2
  <1>4. f.kind \in OwnerKinds \cup EffectKinds => f.of \in Scopes
    BY DEF Sound, Scopes
  <1>5. /\ Linked(Append(st, f), OwnerKinds, IF f.kind \in OwnerKinds THEN f.of ELSE o)
        /\ Linked(Append(st, f), EffectKinds, IF f.kind \in EffectKinds THEN f.of ELSE t)
    BY <1>1, <1>4, LinkedPush DEF Calls
  <1> QED BY <1>2, <1>3, <1>5 DEF Calls

\* A return.
LEMMA CallsPop ==
  ASSUME NEW st, NEW o, NEW t, Calls(st, o, t), st # <<>>
  PROVE  Calls(SubSeq(st, 1, Len(st) - 1),
               IF st[Len(st)].kind \in OwnerKinds THEN st[Len(st)].prev ELSE o,
               IF st[Len(st)].kind \in EffectKinds THEN st[Len(st)].prev ELSE t)
  <1>1. st \in Seq(Frame) /\ Len(st) \in Nat
    BY LenProperties DEF Calls
  <1>2. \A i \in 1..Len(st)-1 : i \in 1..Len(st)
    BY <1>1
  <1> QED BY <1>1, <1>2, PopFacts, LinkedPop DEF Calls

\* One step of a loop.
LEMMA CallsStep ==
  ASSUME NEW st, NEW o, NEW t, Calls(st, o, t), st # <<>>, st[Len(st)].at >= 1
  PROVE  Calls([st EXCEPT ![Len(st)].at = @ - 1], o, t)
  <1> DEFINE new == [st EXCEPT ![Len(st)].at = @ - 1]
  <1>1. /\ new \in Seq(Frame) /\ Len(new) = Len(st)
        /\ \A i \in 1..Len(st) :
             new[i].kind = st[i].kind /\ new[i].of = st[i].of /\ new[i].prev = st[i].prev
    BY StepFacts DEF Calls
  <1> HIDE DEF new
  <1>2. \A i \in 1..Len(new) : Sound(new[i])
    BY <1>1 DEF Calls, Sound
  <1>3. ASSUME NEW kinds, NEW v, Linked(st, kinds, v)  PROVE Linked(new, kinds, v)
    BY <1>1, <1>3 DEF Linked
  <1>4. Calls(new, o, t)
    BY <1>1, <1>2, <1>3 DEF Calls
  <1> QED BY <1>4 DEF new
-----------------------------------------------------------------------------
(* The innermost call                                                      *)

\* What is known of the innermost frame, and what its return or next step leaves.
LEMMA TopFacts ==
  ASSUME IInv, stack # <<>>
  PROVE  /\ Top \in Frame /\ Sound(Top)
         /\ Calls(Popped, IF Top.kind \in OwnerKinds THEN Top.prev ELSE owner,
                          IF Top.kind \in EffectKinds THEN Top.prev ELSE tracking)
         /\ Top.at >= 1 => Calls(Stepped, owner, tracking)
  <1>1. stack \in Seq(Frame) /\ Len(stack) \in 1..Len(stack)
    BY EmptySeq, LenProperties DEF IInv, Calls
  <1>2. Top \in Frame /\ Sound(Top)
    BY <1>1, ElementOfSeq DEF IInv, Calls, Top
  <1>3. Calls(Popped, IF Top.kind \in OwnerKinds THEN Top.prev ELSE owner,
                      IF Top.kind \in EffectKinds THEN Top.prev ELSE tracking)
    BY CallsPop DEF IInv, Popped, Top
  <1>4. Top.at >= 1 => Calls(Stepped, owner, tracking)
    BY CallsStep DEF IInv, Stepped, Top
  <1> QED BY <1>2, <1>3, <1>4

\* The innermost scope is a scope.
LEMMA HomeFacts ==
  ASSUME IInv
  PROVE  Home \in Scopes \cup {None}
  <1> DEFINE K == {"root", "enter", "first", "run"}
  <1>1. CASE \E i \in DOMAIN stack : LastOf(K, i)
    <2> DEFINE k == CHOOSE i \in DOMAIN stack : LastOf(K, i)
    <2>1. k \in DOMAIN stack /\ LastOf(K, k)
      BY <1>1
    <2>2. DOMAIN stack = 1..Len(stack)
      BY LenProperties DEF IInv, TypeOK
    <2>3. Sound(stack[k]) /\ stack[k].kind \in K
      BY <2>1, <2>2 DEF IInv, Calls, LastOf
    <2>4. stack[k].of \in Scopes
      BY <2>3 DEF Sound, Scopes, OwnerKinds, EffectKinds
    <2> QED BY <1>1, <2>4 DEF Home, Innermost
  <1>2. CASE ~\E i \in DOMAIN stack : LastOf(K, i)
    BY <1>2 DEF Home, Innermost
  <1> QED BY <1>1, <1>2

\* A call by what is in force, of a root, of an effect or of anything else.
LEMMA CallFacts ==
  ASSUME TypeOK, NEW k \in {"root", "enter", "first", "run", "clean", "wipe",
                             "children", "disposers", "cleanups", "call"},
         NEW x \in Things, NEW n \in Nat, NEW u \in Scopes \cup {None},
         k \in OwnerKinds \cup {"children", "disposers", "cleanups"} => x \in Owners,
         k \in EffectKinds \cup {"clean", "wipe"} => x \in Effects,
         k = "call" => x \in Cleanups,
         k \in OwnerKinds => u \in Owners \cup {None},
         k \in EffectKinds => u \in Effects \cup {None}
  PROVE  /\ Call(k, x, n, u) \in Frame /\ Sound(Call(k, x, n, u))
         /\ Call(k, x, n, u).kind = k /\ Call(k, x, n, u).of = x
         /\ Call(k, x, n, u).prev = u
  BY DEF Call, Frame, UserKinds, Sound

\* A call that changes neither the owner nor the effect in force.
LEMMA PlainCall ==
  ASSUME TypeOK, NEW st, Calls(st, owner, tracking),
         NEW k \in {"clean", "wipe", "children", "disposers", "cleanups", "call"},
         NEW x \in Things, NEW n \in Nat,
         k \in {"children", "disposers", "cleanups"} => x \in Owners,
         k \in {"clean", "wipe"} => x \in Effects,
         k = "call" => x \in Cleanups
  PROVE  Calls(Append(st, Call(k, x, n, None)), owner, tracking)
  <1> DEFINE f == Call(k, x, n, None)
  <1>1. /\ f \in Frame /\ Sound(f) /\ f.kind = k
        /\ k \notin OwnerKinds /\ k \notin EffectKinds
    <2>1. k \notin OwnerKinds /\ k \notin EffectKinds
      BY DEF OwnerKinds, EffectKinds
    <2>2. None \in Scopes \cup {None}
      OBVIOUS
    <2> QED BY <2>1, <2>2, CallFacts
  <1>2. owner \in Scopes \cup {None} /\ tracking \in Scopes \cup {None}
    BY DEF TypeOK, Scopes
  <1> HIDE DEF f
  <1>3. Calls(Append(st, f), owner, tracking)
    BY <1>1, <1>2, CallsPush
  <1> QED BY <1>3 DEF f

\* The innermost frame is replaced by a loop, or returns without restoring anything.
LEMMA PlainTop ==
  ASSUME IInv, stack # <<>>, Top.kind \notin OwnerKinds, Top.kind \notin EffectKinds
  PROVE  Calls(Popped, owner, tracking)
  BY TopFacts

-----------------------------------------------------------------------------
(* The invariant is inductive                                              *)

LEMMA IInvInit == Init => IInv
  <1> SUFFICES ASSUME Init  PROVE IInv
    OBVIOUS
  <1>1. reruns \in 0..MaxReruns
    BY LifecycleAssumption DEF Init
  <1>2. /\ stack \in Seq(Frame) /\ microtasks \in Seq(Effects)
        /\ children \in [Owners -> Seq(Owners)] /\ disposers \in [Owners -> Seq(Effects)]
        /\ cleanups \in [Scopes -> Seq(Cleanups)]
    BY EmptySeq DEF Init
  <1>3. /\ life \in [Scopes -> {"absent", "creating", "live", "disposed"}]
        /\ parent \in [Scopes -> Owners \cup {None}]
        /\ home \in [Things -> Scopes \cup {None}] /\ ran \in [Cleanups -> 0..2]
    BY DEF Init
  <1>4. TypeOK
    BY <1>1, <1>2, <1>3 DEF Init, TypeOK
  <1>5. ASSUME NEW kinds  PROVE Linked(<<>>, kinds, None)
    <2>1. [n \in Nat |-> None] \in [Nat -> Scopes \cup {None}] /\ Len(<<>>) = 0
      BY EmptySeq
    <2>2. [n \in Nat |-> None][1] = None /\ [n \in Nat |-> None][Len(<<>>) + 1] = None
      BY <2>1
    <2>3. \A i \in 1..Len(<<>>) : FALSE
      BY <2>1
    <2> QED BY <2>1, <2>2, <2>3 DEF Linked
  <1>6. \A i \in 1..Len(<<>>) : FALSE
    BY EmptySeq
  <1>7. Calls(<<>>, None, None)
    BY <1>2, <1>5, <1>6 DEF Calls, Init
  <1> QED BY <1>4, <1>7 DEF IInv, Init

\* Roots and captured owners keep the invariant.
LEMMA OwnerStep ==
  ASSUME IInv, (\E o \in Owners : CreateRoot(o) \/ RunWithOwner(o)) \/ OwnerReturn
  PROVE  IInv'
  <1>0. /\ TypeOK /\ Calls(stack, owner, tracking)
        /\ owner \in Scopes \cup {None} /\ tracking \in Scopes \cup {None}
    BY DEF IInv, TypeOK, Scopes
  <1>1. ASSUME NEW o \in Owners, NEW k \in OwnerKinds,
               stack' = Append(stack, Call(k, o, 0, owner)), owner' = o, tracking' = tracking
        PROVE  Calls(stack', owner', tracking') /\ stack' \in Seq(Frame)
    <2> DEFINE f == Call(k, o, 0, owner)
    <2>1. /\ f \in Frame /\ Sound(f) /\ f.kind = k /\ f.of = o /\ f.prev = owner
          /\ k \notin EffectKinds
      <3>1. /\ o \in Things /\ 0 \in Nat /\ owner \in Scopes \cup {None}
            /\ o \in Owners /\ owner \in Owners \cup {None}
        BY <1>0 DEF Things, Scopes, TypeOK
      <3>2. /\ k \in {"root", "enter", "first", "run", "clean", "wipe",
                       "children", "disposers", "cleanups", "call"}
            /\ k \notin EffectKinds \cup {"clean", "wipe"} /\ k # "call"
            /\ k \notin EffectKinds
        BY DEF OwnerKinds, EffectKinds
      <3> QED BY <1>0, <3>1, <3>2, CallFacts
    <2> HIDE DEF f
    <2>2. Calls(Append(stack, f), o, tracking)
      BY <1>0, <2>1, CallsPush
    <2> QED BY <1>1, <2>2 DEF f, Calls
  <1>2. ASSUME NEW o \in Owners, CreateRoot(o)  PROVE IInv'
    <2>1. Calls(stack', owner', tracking') /\ stack' \in Seq(Frame)
      BY <1>1, <1>2 DEF CreateRoot, Push, OwnerKinds
    <2>2. children' \in [Owners -> Seq(Owners)]
      <3>1. ASSUME NEW p \in Owners
            PROVE  [children EXCEPT ![p] = Append(@, o)] \in [Owners -> Seq(Owners)]
        BY <1>0, AppendProperties DEF TypeOK
      <3> QED BY <1>0, <1>2, <3>1 DEF CreateRoot, TypeOK
    <2>3. /\ life' \in [Scopes -> {"absent", "creating", "live", "disposed"}]
          /\ parent' \in [Scopes -> Owners \cup {None}]
          /\ home' \in [Things -> Scopes \cup {None}]
      BY <1>0, <1>2, HomeFacts DEF CreateRoot, TypeOK
    <2>4. TypeOK'
      BY <1>0, <1>2, <2>1, <2>2, <2>3 DEF CreateRoot, TypeOK
    <2> QED BY <2>1, <2>4 DEF IInv
  <1>3. ASSUME NEW o \in Owners, RunWithOwner(o)  PROVE IInv'
    <2>1. Calls(stack', owner', tracking') /\ stack' \in Seq(Frame)
      BY <1>1, <1>3 DEF RunWithOwner, Push, OwnerKinds
    <2>2. TypeOK'
      BY <1>0, <1>3, <2>1 DEF RunWithOwner, TypeOK, tree, history
    <2> QED BY <2>1, <2>2 DEF IInv
  <1>4. CASE OwnerReturn
    <2>1. /\ stack # <<>> /\ Top.kind \in OwnerKinds /\ stack' = Popped /\ owner' = Top.prev
          /\ UNCHANGED <<program, life, tree, cleanups, tracking, microtasks, panicked, history>>
      BY <1>4 DEF OwnerReturn, Running, Previous, OwnerKinds
    <2>2. Calls(stack', owner', tracking') /\ owner' \in Owners \cup {None}
      <3>1. Top.kind \notin EffectKinds
        BY <2>1 DEF OwnerKinds, EffectKinds
      <3> QED BY <2>1, <3>1, TopFacts DEF Sound
    <2>3. TypeOK'
      BY <1>0, <2>1, <2>2 DEF TypeOK, tree, history, Calls
    <2> QED BY <2>2, <2>3 DEF IInv
  <1> QED BY <1>2, <1>3, <1>4

\* Creating an effect keeps the invariant.
LEMMA CreateStep ==
  ASSUME IInv, (\E e \in Effects : RenderEffect(e) \/ DeferEffect(e)) \/ FirstReturn
  PROVE  IInv'
  <1>0. /\ TypeOK /\ Calls(stack, owner, tracking)
        /\ owner \in Scopes \cup {None} /\ tracking \in Scopes \cup {None}
    BY DEF IInv, TypeOK, Scopes
  <1>1. ASSUME NEW e \in Effects, Register(e)  PROVE disposers' \in [Owners -> Seq(Effects)]
    <2>1. ASSUME NEW o \in Owners
          PROVE  [disposers EXCEPT ![o] = Append(@, e)] \in [Owners -> Seq(Effects)]
      BY <1>0, AppendProperties DEF TypeOK
    <2> QED BY <1>0, <1>1, <2>1 DEF Register, TypeOK
  <1>2. ASSUME NEW e \in Effects, RenderEffect(e)  PROVE IInv'
    <2> DEFINE f == Call("first", e, 0, tracking)
    <2>1. /\ f \in Frame /\ Sound(f) /\ f.kind = "first" /\ f.of = e /\ f.prev = tracking
          /\ "first" \notin OwnerKinds /\ "first" \in EffectKinds
      <3>1. /\ e \in Things /\ 0 \in Nat /\ tracking \in Scopes \cup {None}
            /\ tracking \in Effects \cup {None}
        BY <1>0 DEF Things, Scopes, TypeOK
      <3>2. "first" \notin OwnerKinds /\ "first" \in EffectKinds
        BY DEF OwnerKinds, EffectKinds
      <3>3. f.kind = "first" /\ f.of = e /\ f.prev = tracking
        BY DEF Call
      <3>4. f \in Frame
        BY <3>1 DEF Call, Frame, UserKinds
      <3>5. Sound(f)
        BY <3>1, <3>2, <3>3 DEF Sound
      <3> QED BY <3>2, <3>3, <3>4, <3>5
    <2>2. stack' = Append(stack, f) /\ tracking' = e /\ owner' = owner
      BY <1>2 DEF RenderEffect, Push
    <2> HIDE DEF f
    <2>3. Calls(stack', owner', tracking')
      BY <1>0, <2>1, <2>2, CallsPush
    <2>4. /\ life' \in [Scopes -> {"absent", "creating", "live", "disposed"}]
          /\ parent' \in [Scopes -> Owners \cup {None}]
          /\ home' \in [Things -> Scopes \cup {None}]
      BY <1>0, <1>2, HomeFacts DEF RenderEffect, TypeOK
    <2>5. TypeOK'
      BY <1>0, <1>2, <2>2, <2>3, <2>4 DEF RenderEffect, TypeOK, Calls
    <2> QED BY <2>3, <2>5 DEF IInv
  <1>3. ASSUME NEW e \in Effects, DeferEffect(e)  PROVE IInv'
    <2>1. /\ life' \in [Scopes -> {"absent", "creating", "live", "disposed"}]
          /\ parent' \in [Scopes -> Owners \cup {None}]
          /\ home' \in [Things -> Scopes \cup {None}]
          /\ disposers' \in [Owners -> Seq(Effects)]
      BY <1>0, <1>1, <1>3, HomeFacts DEF DeferEffect, TypeOK
    <2>2. microtasks' \in Seq(Effects)
      BY <1>0, <1>3, AppendProperties DEF DeferEffect, TypeOK
    <2>3. TypeOK'
      BY <1>0, <1>3, <2>1, <2>2 DEF DeferEffect, TypeOK
    <2>4. Calls(stack', owner', tracking')
      BY <1>0, <1>3 DEF DeferEffect
    <2> QED BY <2>3, <2>4 DEF IInv
  <1>4. CASE FirstReturn
    <2>1. /\ stack # <<>> /\ Top.kind = "first" /\ stack' = Popped /\ tracking' = Top.prev
          /\ life' = [life EXCEPT ![Top.of] = "live"] /\ Register(Top.of)
          /\ UNCHANGED <<program, parent, children, cleanups, owner, microtasks, panicked,
                         history>>
      BY <1>4 DEF FirstReturn, Running, Previous
    <2>2. Top.kind \notin OwnerKinds /\ Top.kind \in EffectKinds
      BY <2>1 DEF OwnerKinds, EffectKinds
    <2>3. /\ Calls(stack', owner', tracking') /\ tracking' \in Effects \cup {None}
          /\ Top.of \in Effects
      BY <2>1, <2>2, TopFacts DEF Sound
    <2>4. disposers' \in [Owners -> Seq(Effects)]
      BY <1>1, <2>1, <2>3
    <2>5. life' \in [Scopes -> {"absent", "creating", "live", "disposed"}]
      BY <1>0, <2>1 DEF TypeOK
    <2>6. TypeOK'
      BY <1>0, <2>1, <2>3, <2>4, <2>5 DEF TypeOK, history, Calls
    <2> QED BY <2>3, <2>6 DEF IInv
  <1> QED BY <1>2, <1>3, <1>4

\* Running an effect again keeps the invariant.
LEMMA RunStep ==
  ASSUME IInv, (\E e \in Effects : Rerun(e)) \/ Microtask \/ RunStart \/ RunReturn
  PROVE  IInv'
  <1>0. /\ TypeOK /\ Calls(stack, owner, tracking)
        /\ owner \in Scopes \cup {None} /\ tracking \in Scopes \cup {None}
    BY DEF IInv, TypeOK, Scopes
  <1>1. ASSUME NEW e \in Effects, RunEffect(e)
        PROVE  Calls(stack', owner, tracking) /\ stack' \in Seq(Frame)
    <2>1. Len(cleanups[e]) \in Nat /\ e \in Things
      BY <1>0, LenProperties DEF TypeOK, Things, Scopes
    <2>2. Calls(Append(stack, Call("clean", e, Len(cleanups[e]), None)), owner, tracking)
      BY <1>0, <2>1, PlainCall
    <2> QED BY <1>0, <1>1, <2>2 DEF RunEffect, Push, Calls
  <1>2. ASSUME NEW e \in Effects, Rerun(e)  PROVE IInv'
    <2>1. reruns' \in 0..MaxReruns
      BY <1>0, <1>2, LifecycleAssumption DEF Rerun, TypeOK
    <2>2. TypeOK' /\ Calls(stack', owner', tracking')
      BY <1>0, <1>1, <1>2, <2>1 DEF Rerun, TypeOK, tree
    <2> QED BY <2>2 DEF IInv
  <1>3. CASE Microtask
    <2>1. Head(microtasks) \in Effects /\ microtasks' \in Seq(Effects)
      BY <1>0, <1>3, HeadTailProperties DEF Microtask, TypeOK
    <2>2. TypeOK' /\ Calls(stack', owner', tracking')
      BY <1>0, <1>1, <1>3, <2>1 DEF Microtask, TypeOK, tree, history
    <2> QED BY <2>2 DEF IInv
  <1>4. CASE RunStart
    <2> DEFINE f == Call("run", Top.of, 0, tracking)
    <2>1. /\ stack # <<>> /\ Top.kind = "clean" /\ stack' = Append(Popped, f)
          /\ tracking' = Top.of /\ owner' = owner
          /\ cleanups' = [cleanups EXCEPT ![Top.of] = <<>>]
          /\ UNCHANGED <<program, life, tree, owner, microtasks, panicked, history>>
      BY <1>4 DEF RunStart, Running
    <2>2. Top.kind \notin OwnerKinds /\ Top.kind \notin EffectKinds
      BY <2>1 DEF OwnerKinds, EffectKinds
    <2>3. Calls(Popped, owner, tracking) /\ Top.of \in Effects
      BY <2>1, <2>2, TopFacts DEF Sound
    <2>4. /\ f \in Frame /\ Sound(f) /\ f.kind = "run" /\ f.of = Top.of /\ f.prev = tracking
          /\ "run" \notin OwnerKinds /\ "run" \in EffectKinds
      <3>1. ASSUME NEW e \in Effects
            PROVE  /\ Call("run", e, 0, tracking) \in Frame /\ Sound(Call("run", e, 0, tracking))
                   /\ Call("run", e, 0, tracking).kind = "run"
                   /\ Call("run", e, 0, tracking).of = e
                   /\ Call("run", e, 0, tracking).prev = tracking
        <4>1. e \in Things /\ tracking \in Effects \cup {None} /\ TypeOK
          BY <1>0 DEF Things, Scopes, TypeOK
        <4>2. "run" \notin OwnerKinds
          BY DEF OwnerKinds
        <4> QED BY <1>0, <4>1, <4>2, CallFacts
      <3> QED BY <2>3, <3>1 DEF OwnerKinds, EffectKinds
    <2> HIDE DEF f
    <2>5. Calls(stack', owner', tracking')
      BY <1>0, <2>1, <2>3, <2>4, CallsPush
    <2>6. cleanups' \in [Scopes -> Seq(Cleanups)]
      BY <1>0, <2>1, EmptySeq DEF TypeOK
    <2>7. TypeOK'
      BY <1>0, <2>1, <2>3, <2>5, <2>6 DEF TypeOK, tree, history, Calls
    <2> QED BY <2>5, <2>7 DEF IInv
  <1>5. CASE RunReturn
    <2>1. /\ stack # <<>> /\ Top.kind = "run" /\ stack' = Popped /\ tracking' = Top.prev
          /\ UNCHANGED <<program, life, tree, cleanups, owner, microtasks, panicked, history>>
      BY <1>5 DEF RunReturn, Running, Previous
    <2>2. Top.kind \notin OwnerKinds /\ Top.kind \in EffectKinds
      BY <2>1 DEF OwnerKinds, EffectKinds
    <2>3. Calls(stack', owner', tracking') /\ tracking' \in Effects \cup {None}
      BY <2>1, <2>2, TopFacts DEF Sound
    <2>4. TypeOK'
      BY <1>0, <2>1, <2>3 DEF TypeOK, tree, history, Calls
    <2> QED BY <2>3, <2>4 DEF IInv
  <1> QED BY <1>2, <1>3, <1>4, <1>5

\* Registering and calling cleanup functions keeps the invariant.
LEMMA CleanupStep ==
  ASSUME IInv, (\E c \in Cleanups : OnCleanup(c) \/ OnOwnerCleanup(c))
               \/ CallCleanup \/ CleanupReturn
  PROVE  IInv'
  <1>0. /\ TypeOK /\ Calls(stack, owner, tracking)
        /\ owner \in Scopes \cup {None} /\ tracking \in Scopes \cup {None}
    BY DEF IInv, TypeOK, Scopes
  <1>1. ASSUME NEW c \in Cleanups, NEW x \in Scopes \cup {None}, AddCleanup(c, x)
        PROVE  IInv'
    <2>1. cleanups' \in [Scopes -> Seq(Cleanups)]
      <3>1. ASSUME NEW y \in Scopes
            PROVE  [cleanups EXCEPT ![y] = Append(@, c)] \in [Scopes -> Seq(Cleanups)]
        BY <1>0, AppendProperties DEF TypeOK
      <3> QED BY <1>0, <1>1, <3>1 DEF AddCleanup, TypeOK
    <2>2. home' \in [Things -> Scopes \cup {None}]
      BY <1>0, <1>1, HomeFacts DEF AddCleanup, TypeOK
    <2>3. TypeOK' /\ Calls(stack', owner', tracking')
      BY <1>0, <1>1, <2>1, <2>2 DEF AddCleanup, TypeOK, tree
    <2> QED BY <2>3 DEF IInv
  <1>2. ASSUME NEW c \in Cleanups, OnCleanup(c) \/ OnOwnerCleanup(c)  PROVE IInv'
    BY <1>0, <1>1, <1>2 DEF OnCleanup, OnOwnerCleanup
  <1>3. CASE CallCleanup
    <2> DEFINE c == cleanups[Top.of][Top.at]
    <2>1. /\ stack # <<>> /\ Top.kind \in {"clean", "wipe", "cleanups"}
          /\ Top.at \in 1..Len(cleanups[Top.of])
          /\ stack' = Append(Stepped, Call("call", c, 0, None))
          /\ ran' = [ran EXCEPT ![c] = IF @ < 2 THEN @ + 1 ELSE @]
          /\ UNCHANGED <<program, life, tree, cleanups, owner, tracking, microtasks,
                         panicked, reruns, home>>
      BY <1>3 DEF CallCleanup, Running
    <2>2. Top.of \in Scopes /\ Calls(Stepped, owner, tracking)
      BY <2>1, TopFacts DEF Sound, Scopes
    <2>3. c \in Cleanups
      BY <1>0, <2>1, <2>2, ElementOfSeq DEF TypeOK
    <2> HIDE DEF c
    <2>4. Calls(stack', owner', tracking')
      <3>1. c \in Things /\ 0 \in Nat
        BY <2>3 DEF Things
      <3>2. Calls(Append(Stepped, Call("call", c, 0, None)), owner, tracking)
        BY <1>0, <2>2, <2>3, <3>1, PlainCall
      <3> QED BY <2>1, <3>2
    <2>5. ran' \in [Cleanups -> 0..2]
      BY <1>0, <2>1, <2>3 DEF TypeOK
    <2>6. TypeOK'
      BY <1>0, <2>1, <2>4, <2>5 DEF TypeOK, tree, Calls
    <2> QED BY <2>4, <2>6 DEF IInv
  <1>4. CASE CleanupReturn
    <2>1. Calls(stack', owner', tracking')
      <3>1. stack # <<>> /\ Top.kind \notin OwnerKinds /\ Top.kind \notin EffectKinds
        BY <1>4 DEF CleanupReturn, Running, OwnerKinds, EffectKinds
      <3> QED BY <1>4, <3>1, PlainTop DEF CleanupReturn
    <2>2. TypeOK'
      BY <1>0, <1>4, <2>1 DEF CleanupReturn, TypeOK, tree, history, Calls
    <2> QED BY <2>1, <2>2 DEF IInv
  <1> QED BY <1>2, <1>3, <1>4

-----------------------------------------------------------------------------
(* Disposal                                                                *)

\* Array::retain leaves an array of owners.
LEMMA WithoutFacts ==
  ASSUME NEW array \in Seq(Owners), NEW o
  PROVE  Without(array, o) \in Seq(Owners)
  <1>1. CASE \E i \in DOMAIN array : array[i] = o
    <2> DEFINE at == CHOOSE i \in DOMAIN array : array[i] = o
    <2>1. Len(array) \in Nat /\ DOMAIN array = 1..Len(array)
      BY LenProperties
    <2>2. at \in 1..Len(array)
      BY <1>1, <2>1
    <2>3. Without(array, o) = SubSeq(array, 1, at - 1) \o SubSeq(array, at + 1, Len(array))
      BY <1>1 DEF Without
    <2> HIDE DEF at
    <2>4. ASSUME NEW m \in Int, NEW n \in Int, m >= 1, n <= Len(array)
          PROVE  SubSeq(array, m, n) \in Seq(Owners)
      <3>1. \A i \in m..n : array[i] \in Owners
        BY <2>1, <2>4, ElementOfSeq
      <3> QED BY <3>1, SubSeqProperties
    <2>5. SubSeq(array, 1, at - 1) \in Seq(Owners)
      BY <2>1, <2>2, <2>4
    <2>6. SubSeq(array, at + 1, Len(array)) \in Seq(Owners)
      BY <2>1, <2>2, <2>4
    <2> QED BY <2>3, <2>5, <2>6, ConcatProperties
  <1>2. CASE ~\E i \in DOMAIN array : array[i] = o
    BY <1>2 DEF Without
  <1> QED BY <1>1, <1>2

\* Disposing an effect keeps the invariant.
LEMMA DisposeEffectStep ==
  ASSUME IInv, (\E e \in Effects : DisposeEffect(e)) \/ CallDisposer \/ WipeReturn
  PROVE  IInv'
  <1>0. /\ TypeOK /\ Calls(stack, owner, tracking)
        /\ owner \in Scopes \cup {None} /\ tracking \in Scopes \cup {None}
    BY DEF IInv, TypeOK, Scopes
  <1>1. ASSUME NEW st, Calls(st, owner, tracking), NEW e \in Effects,
               stack' = Append(st, Call("wipe", e, Len(cleanups[e]), None)),
               life' = [life EXCEPT ![e] = "disposed"],
               UNCHANGED <<program, tree, cleanups, owner, tracking, microtasks, panicked,
                           history>>
        PROVE  IInv'
    <2>1. Len(cleanups[e]) \in Nat /\ e \in Things
      BY <1>0, LenProperties DEF TypeOK, Things, Scopes
    <2>2. Calls(Append(st, Call("wipe", e, Len(cleanups[e]), None)), owner, tracking)
      BY <1>0, <1>1, <2>1, PlainCall
    <2>3. Calls(stack', owner', tracking')
      BY <1>1, <2>2
    <2>4. life' \in [Scopes -> {"absent", "creating", "live", "disposed"}]
      BY <1>0, <1>1 DEF TypeOK
    <2>5. TypeOK'
      BY <1>0, <1>1, <2>3, <2>4 DEF TypeOK, tree, history, Calls
    <2> QED BY <2>3, <2>5 DEF IInv
  <1>2. ASSUME NEW e \in Effects, DisposeEffect(e)  PROVE IInv'
    BY <1>0, <1>1, <1>2 DEF DisposeEffect, Push
  <1>3. CASE CallDisposer
    <2> DEFINE e == disposers[Top.of][Top.at]
    <2>1. /\ stack # <<>> /\ Top.kind = "disposers" /\ Top.at \in 1..Len(disposers[Top.of])
          /\ life' = [life EXCEPT ![e] = "disposed"]
          /\ stack' = Append(Stepped, Call("wipe", e, Len(cleanups[e]), None))
          /\ UNCHANGED <<program, tree, cleanups, owner, tracking, microtasks, panicked,
                         history>>
      BY <1>3 DEF CallDisposer, Running
    <2>2. Top.of \in Owners /\ Calls(Stepped, owner, tracking)
      BY <2>1, TopFacts DEF Sound
    <2>3. e \in Effects
      BY <1>0, <2>1, <2>2, ElementOfSeq DEF TypeOK
    <2> HIDE DEF e
    <2> QED BY <1>1, <2>1, <2>2, <2>3
  <1>4. CASE WipeReturn
    <2>1. /\ stack # <<>> /\ Top.kind = "wipe" /\ stack' = Popped
          /\ cleanups' = [cleanups EXCEPT ![Top.of] = <<>>]
          /\ UNCHANGED <<program, life, tree, owner, tracking, microtasks, panicked, history>>
      BY <1>4 DEF WipeReturn, Running, Wiped
    <2>2. Calls(stack', owner', tracking')
      <3>1. Top.kind \notin OwnerKinds /\ Top.kind \notin EffectKinds
        BY <2>1 DEF OwnerKinds, EffectKinds
      <3> QED BY <2>1, <3>1, PlainTop
    <2>3. cleanups' \in [Scopes -> Seq(Cleanups)]
      BY <1>0, <2>1, EmptySeq DEF TypeOK
    <2>4. TypeOK'
      BY <1>0, <2>1, <2>2, <2>3 DEF TypeOK, tree, history, Calls
    <2> QED BY <2>2, <2>4 DEF IInv
  <1> QED BY <1>2, <1>3, <1>4

\* Disposing an owner keeps the invariant.
LEMMA DisposeOwnerStep ==
  ASSUME IInv, (\E o \in Owners : DisposeOwner(o)) \/ DisposeChild \/ NextLoop
               \/ DisposeReturn \/ OutOfRange
  PROVE  IInv'
  <1>0. /\ TypeOK /\ Calls(stack, owner, tracking)
        /\ owner \in Scopes \cup {None} /\ tracking \in Scopes \cup {None}
    BY DEF IInv, TypeOK, Scopes
  <1>1. ASSUME NEW st, Calls(st, owner, tracking), NEW o \in Owners
        PROVE  Calls(Append(st, FirstLoop(o)), owner, tracking)
    <2>1. Len(children[o]) \in Nat /\ o \in Things
      BY <1>0, LenProperties DEF TypeOK, Things, Scopes
    <2> QED BY <1>0, <1>1, <2>1, PlainCall DEF FirstLoop
  <1>2. ASSUME NEW o \in Owners, life' = [life EXCEPT ![o] = "disposed"]
        PROVE  life' \in [Scopes -> {"absent", "creating", "live", "disposed"}]
    BY <1>0, <1>2 DEF TypeOK
  <1>3. ASSUME Calls(stack', owner', tracking'),
               life' \in [Scopes -> {"absent", "creating", "live", "disposed"}],
               UNCHANGED <<program, tree, cleanups, owner, tracking, microtasks, panicked,
                           history>>
        PROVE  IInv'
    <2>1. TypeOK'
      BY <1>0, <1>3 DEF TypeOK, tree, history, Calls
    <2> QED BY <1>3, <2>1 DEF IInv
  <1>4. ASSUME NEW o \in Owners, DisposeOwner(o)  PROVE IInv'
    <2>1. Calls(stack', owner', tracking')
      BY <1>0, <1>1, <1>4 DEF DisposeOwner, Push
    <2> QED BY <1>2, <1>3, <1>4, <2>1 DEF DisposeOwner
  <1>5. CASE DisposeChild
    <2> DEFINE child == children[Top.of][Top.at]
    <2>1. /\ stack # <<>> /\ Top.kind = "children" /\ Top.at \in 1..Len(children[Top.of])
          /\ \/ /\ life' = [life EXCEPT ![child] = "disposed"]
                /\ stack' = Append(Stepped, FirstLoop(child))
             \/ life' = life /\ stack' = Stepped
          /\ UNCHANGED <<program, tree, cleanups, owner, tracking, microtasks, panicked,
                         history>>
      BY <1>5 DEF DisposeChild, Running
    <2>2. Top.of \in Owners /\ Calls(Stepped, owner, tracking)
      BY <2>1, TopFacts DEF Sound
    <2>3. child \in Owners
      BY <1>0, <2>1, <2>2, ElementOfSeq DEF TypeOK
    <2> HIDE DEF child
    <2>4. Calls(Append(Stepped, FirstLoop(child)), owner, tracking)
      BY <1>1, <2>2, <2>3
    <2>5. Calls(stack', owner', tracking')
      BY <2>1, <2>2, <2>4
    <2>6. life' \in [Scopes -> {"absent", "creating", "live", "disposed"}]
      BY <1>0, <1>2, <2>1, <2>3 DEF TypeOK
    <2> QED BY <1>3, <2>1, <2>5, <2>6
  <1>6. CASE NextLoop
    <2>1. /\ stack # <<>> /\ Top.kind \in {"children", "disposers"}
          /\ \/ stack' = Append(Popped, Call("disposers", Top.of, Len(disposers[Top.of]), None))
             \/ stack' = Append(Popped, Call("cleanups", Top.of, Len(cleanups[Top.of]), None))
          /\ UNCHANGED <<program, life, tree, cleanups, owner, tracking, microtasks, panicked,
                         history>>
      BY <1>6 DEF NextLoop, Running
    <2>2. Top.of \in Owners
      BY <2>1, TopFacts DEF Sound
    <2>3. Calls(Popped, owner, tracking)
      <3>1. Top.kind \notin OwnerKinds /\ Top.kind \notin EffectKinds
        BY <2>1 DEF OwnerKinds, EffectKinds
      <3> QED BY <2>1, <3>1, PlainTop
    <2>4. ASSUME NEW o \in Owners
          PROVE  /\ Calls(Append(Popped, Call("disposers", o, Len(disposers[o]), None)),
                          owner, tracking)
                 /\ Calls(Append(Popped, Call("cleanups", o, Len(cleanups[o]), None)),
                          owner, tracking)
      <3>1. Len(disposers[o]) \in Nat /\ Len(cleanups[o]) \in Nat /\ o \in Things
        BY <1>0, LenProperties DEF TypeOK, Things, Scopes
      <3> QED BY <1>0, <2>3, <3>1, PlainCall
    <2>5. Calls(stack', owner', tracking')
      BY <2>1, <2>2, <2>4
    <2>6. life' \in [Scopes -> {"absent", "creating", "live", "disposed"}]
      BY <1>0, <2>1 DEF TypeOK
    <2> QED BY <1>3, <2>1, <2>5, <2>6
  <1>7. CASE DisposeReturn
    <2> DEFINE p == parent[Top.of]
               cleared == [children EXCEPT ![Top.of] = <<>>]
    <2>1. /\ stack # <<>> /\ Top.kind = "cleanups" /\ stack' = Popped
          /\ children' = IF p = None THEN cleared ELSE [cleared EXCEPT ![p] = Without(@, Top.of)]
          /\ disposers' = [disposers EXCEPT ![Top.of] = <<>>]
          /\ cleanups' = [cleanups EXCEPT ![Top.of] = <<>>]
          /\ UNCHANGED <<program, life, parent, owner, tracking, microtasks, panicked, history>>
      BY <1>7 DEF DisposeReturn, Running
    <2>2. Top.of \in Owners
      BY <2>1, TopFacts DEF Sound
    <2>3. Calls(stack', owner', tracking')
      <3>1. Top.kind \notin OwnerKinds /\ Top.kind \notin EffectKinds
        BY <2>1 DEF OwnerKinds, EffectKinds
      <3> QED BY <2>1, <3>1, PlainTop
    <2>4. children' \in [Owners -> Seq(Owners)]
      <3>1. cleared \in [Owners -> Seq(Owners)] /\ p \in Owners \cup {None}
        BY <1>0, <2>2, EmptySeq DEF TypeOK, Scopes
      <3> HIDE DEF cleared, p
      <3>2. ASSUME p \in Owners
            PROVE  [cleared EXCEPT ![p] = Without(@, Top.of)] \in [Owners -> Seq(Owners)]
        <4>1. Without(cleared[p], Top.of) \in Seq(Owners)
          BY <3>1, <3>2, WithoutFacts
        <4> QED BY <3>1, <4>1
      <3> QED BY <2>1, <3>1, <3>2
    <2>5. disposers' \in [Owners -> Seq(Effects)] /\ cleanups' \in [Scopes -> Seq(Cleanups)]
      BY <1>0, <2>1, EmptySeq DEF TypeOK
    <2>6. TypeOK'
      BY <1>0, <2>1, <2>3, <2>4, <2>5 DEF TypeOK, history, Calls
    <2> QED BY <2>3, <2>6 DEF IInv
  <1>8. CASE OutOfRange
    <2>1. /\ panicked' = TRUE
          /\ UNCHANGED <<program, life, tree, cleanups, owner, tracking, microtasks, stack,
                         history>>
      BY <1>8 DEF OutOfRange
    <2>2. TypeOK' /\ Calls(stack', owner', tracking')
      BY <1>0, <2>1 DEF TypeOK, tree, history
    <2> QED BY <2>2 DEF IInv
  <1> QED BY <1>4, <1>5, <1>6, <1>7, <1>8

LEMMA IInvStep == IInv /\ [Next]_vars => IInv'
  <1> SUFFICES ASSUME IInv, [Next]_vars  PROVE IInv'
    OBVIOUS
  <1>1. CASE (\E o \in Owners : CreateRoot(o) \/ RunWithOwner(o)) \/ OwnerReturn
    BY <1>1, OwnerStep
  <1>2. CASE (\E e \in Effects : RenderEffect(e) \/ DeferEffect(e)) \/ FirstReturn
    BY <1>2, CreateStep
  <1>3. CASE (\E e \in Effects : Rerun(e)) \/ Microtask \/ RunStart \/ RunReturn
    BY <1>3, RunStep
  <1>4. CASE \/ \E c \in Cleanups : OnCleanup(c) \/ OnOwnerCleanup(c)
             \/ CallCleanup \/ CleanupReturn
    BY <1>4, CleanupStep
  <1>5. CASE (\E e \in Effects : DisposeEffect(e)) \/ CallDisposer \/ WipeReturn
    BY <1>5, DisposeEffectStep
  <1>6. CASE \/ \E o \in Owners : DisposeOwner(o)
             \/ DisposeChild \/ NextLoop \/ DisposeReturn \/ OutOfRange
    BY <1>6, DisposeOwnerStep
  <1>7. CASE UNCHANGED vars
    BY <1>7 DEF vars, tree, history, IInv, TypeOK
  <1> QED BY <1>1, <1>2, <1>3, <1>4, <1>5, <1>6, <1>7, Zenon DEF Next, UserStep, EngineStep

-----------------------------------------------------------------------------
(* Theorems                                                                *)

\* Every frame of the call stack is about a scope of its own kind, and the owner and the
\* effect in force are those of the innermost frames that set them: the values the
\* frames remember chain down to none at the bottom.
THEOREM Invariance == Spec => []IInv
  BY IInvInit, IInvStep, PTL DEF Spec

\* Only scopes that exist are ever registered, current or queued, and no array, frame
\* or history leaves its type, whatever user code does, disposal from inside included.
THEOREM TypeCorrect == Spec => []TypeOK
  <1>1. IInv => TypeOK
    BY DEF IInv
  <1> QED BY <1>1, Invariance, PTL

\* run_with_owner and run_with_cleanup_tracking restore what was in force: when control
\* is back with the event loop there is no owner and no effect.
THEOREM ContextRestored == Spec => []Restored
  <1>1. IInv => Restored
    <2> SUFFICES ASSUME IInv, stack = <<>>  PROVE owner = None /\ tracking = None
      BY DEF Restored
    <2>1. Len(stack) + 1 = 1
      BY EmptySeq
    <2>2. ASSUME NEW kinds, NEW v, Linked(stack, kinds, v)  PROVE v = None
      BY <2>1, <2>2 DEF Linked
    <2> QED BY <2>2 DEF IInv, Calls
  <1> QED BY <1>1, Invariance, PTL

-----------------------------------------------------------------------------
(* What the cleanup functions may do                                       *)

\* The cleanup functions of a program call nothing of the library.
Silent(p) ==
  \A c \in Cleanups :
    p.creates[c] = {} /\ p.disposes[c] = {} /\ p.reruns[c] = {} /\ p.enters[c] = {}

Levels == 1..Len(stack)
CodeKinds == {"root", "enter", "first", "run"}
LoopKinds == {"children", "disposers", "cleanups"}
SweepKinds == {"clean", "wipe", "cleanups"}
EngineKinds == {"children", "disposers", "cleanups", "clean", "wipe"}

\* The loops of one disposal, or of the cleanups before a rerun, are on top of all other
\* code, and a cleanup function on top of these.
Shape ==
  /\ \A i, j \in Levels : i < j /\ stack[i].kind \in EngineKinds =>
       stack[j].kind \in EngineKinds \cup {"call"}
  /\ \A i \in Levels : stack[i].kind = "call" => i = Len(stack)
  /\ \A i, j \in Levels : i < j /\ stack[i].kind \in SweepKinds => stack[j].kind = "call"
  /\ \A i, j \in Levels : i < j /\ stack[i].kind = "disposers" => stack[j].kind \in {"wipe", "call"}
  /\ \A i, j \in Levels : i < j /\ stack[j].kind = "clean" => stack[i].kind \in CodeKinds

\* An effect is being created exactly while its creating call is on the stack, once.
Creating ==
  /\ \A i \in Levels : stack[i].kind = "first" => life[stack[i].of] = "creating"
  /\ \A i, j \in Levels :
       stack[i].kind = "first" /\ stack[j].kind = "first" /\ stack[i].of = stack[j].of => i = j
  /\ \A e \in Effects : life[e] = "creating" =>
       \E i \in Levels : stack[i].kind = "first" /\ stack[i].of = e

\* Only effects that were created are registered.
Registered ==
  \A o \in Owners : \A k \in 1..Len(disposers[o]) :
    life[disposers[o][k]] \in {"live", "disposed"}

\* An effect whose cleanups are called before it runs is active.
CleanActive == \A i \in Levels : stack[i].kind = "clean" => Active(stack[i].of)

QInv == Shape /\ Creating /\ Registered /\ CleanActive

-----------------------------------------------------------------------------
(* How a step changes the stack                                            *)

Pushed(f) ==
  /\ Len(stack') = Len(stack) + 1
  /\ \A i \in Levels : stack'[i] = stack[i]
  /\ stack'[Len(stack) + 1] = f
PoppedOff ==
  /\ Len(stack) >= 1 /\ Len(stack') = Len(stack) - 1
  /\ \A i \in 1..Len(stack)-1 : stack'[i] = stack[i]
Swapped(f) ==
  /\ Len(stack) >= 1 /\ Len(stack') = Len(stack)
  /\ \A i \in 1..Len(stack)-1 : stack'[i] = stack[i]
  /\ stack'[Len(stack)] = f
\* The innermost loop makes a step.
TopStepped ==
  /\ Len(stack) >= 1
  /\ \A i \in 1..Len(stack)-1 : stack'[i] = stack[i]
  /\ stack'[Len(stack)].kind = Top.kind /\ stack'[Len(stack)].of = Top.of
  /\ stack'[Len(stack)].at = Top.at - 1 /\ stack'[Len(stack)].prev = Top.prev
SteppedDown == TopStepped /\ Len(stack') = Len(stack)
SteppedInto(f) ==
  TopStepped /\ Len(stack') = Len(stack) + 1 /\ stack'[Len(stack) + 1] = f

LEMMA CallFields ==
  \A k, x, m, u : /\ Call(k, x, m, u).kind = k /\ Call(k, x, m, u).of = x
                  /\ Call(k, x, m, u).at = m /\ Call(k, x, m, u).prev = u
  BY DEF Call

LEMMA LevelFacts ==
  ASSUME TypeOK
  PROVE  /\ Len(stack) \in Nat /\ DOMAIN stack = Levels /\ (stack = <<>> <=> Len(stack) = 0)
         /\ \A i \in Levels : stack[i] \in Frame /\ stack[i].at \in Nat
         /\ \A o \in Owners : Len(children[o]) \in Nat /\ Len(disposers[o]) \in Nat
         /\ \A x \in Scopes : Len(cleanups[x]) \in Nat
  <1>1. /\ stack \in Seq(Frame)
        /\ \A o \in Owners : children[o] \in Seq(Owners) /\ disposers[o] \in Seq(Effects)
        /\ \A x \in Scopes : cleanups[x] \in Seq(Cleanups)
    BY DEF TypeOK
  <1>2. \A i \in Levels : stack[i] \in Frame
    BY <1>1, ElementOfSeq DEF Levels
  <1>2a. \A f \in Frame : f.at \in Nat
    BY DEF Frame
  <1>3. Len(stack) \in Nat /\ DOMAIN stack = Levels /\ (stack = <<>> <=> Len(stack) = 0)
    BY <1>1, LenProperties, EmptySeq DEF Levels
  <1> QED BY <1>1, <1>2, <1>2a, <1>3, LenProperties

LEMMA PushFacts ==
  ASSUME TypeOK, NEW f \in Frame, stack' = Append(stack, f)
  PROVE  Pushed(f)
  BY AppendProperties DEF TypeOK, Pushed, Levels

LEMMA PopOffFacts ==
  ASSUME TypeOK, stack # <<>>, stack' = Popped
  PROVE  PoppedOff
  BY PopFacts, LevelFacts DEF TypeOK, PoppedOff, Popped

LEMMA SwapFacts ==
  ASSUME TypeOK, stack # <<>>, NEW f \in Frame, stack' = Append(Popped, f)
  PROVE  Swapped(f)
  <1>1. /\ Popped \in Seq(Frame) /\ Len(Popped) = Len(stack) - 1
        /\ \A i \in 1..Len(stack)-1 : Popped[i] = stack[i]
    BY PopFacts DEF TypeOK, Popped
  <1>2. /\ Len(Append(Popped, f)) = Len(Popped) + 1
        /\ \A i \in 1..Len(Popped) : Append(Popped, f)[i] = Popped[i]
        /\ Append(Popped, f)[Len(Popped) + 1] = f
    BY <1>1, AppendProperties
  <1> QED BY <1>1, <1>2, LevelFacts DEF Swapped

LEMMA StepDownFacts ==
  ASSUME TypeOK, stack # <<>>, Top.at >= 1
  PROVE  /\ stack' = Stepped => SteppedDown
         /\ \A f \in Frame : stack' = Append(Stepped, f) => SteppedInto(f)
  <1> DEFINE n == Len(stack)
             g == [Top EXCEPT !.at = @ - 1]
  <1>1. n \in Nat /\ n >= 1 /\ n \in 1..n /\ Top \in Frame /\ stack \in Seq(Frame)
    <2>1. Len(stack) \in Nat /\ Len(stack) >= 1
      BY LevelFacts
    <2> QED BY <2>1, ElementOfSeq DEF TypeOK, Top
  <1>2. /\ g \in Frame /\ g.kind = Top.kind /\ g.of = Top.of /\ g.at = Top.at - 1
        /\ g.prev = Top.prev
    <2>1. ASSUME NEW r \in Frame, NEW v \in Nat
          PROVE  /\ [r EXCEPT !.at = v] \in Frame
                 /\ [r EXCEPT !.at = v].kind = r.kind /\ [r EXCEPT !.at = v].of = r.of
                 /\ [r EXCEPT !.at = v].at = v /\ [r EXCEPT !.at = v].prev = r.prev
      BY Z3 DEF Frame
    <2>2. Top.at - 1 \in Nat
      BY <1>1 DEF Frame
    <2> QED BY <1>1, <2>1, <2>2
  <1>3. Stepped = [stack EXCEPT ![n] = g]
    BY DEF Stepped, Top
  <1> HIDE DEF g
  <1>4. /\ Stepped \in Seq(Frame) /\ Len(Stepped) = n /\ Stepped[n] = g
        /\ \A i \in 1..n-1 : Stepped[i] = stack[i]
    BY <1>1, <1>2, <1>3, ExceptSeq
  <1>5. ASSUME stack' = Stepped PROVE SteppedDown
    BY <1>1, <1>2, <1>4, <1>5 DEF SteppedDown, TopStepped
  <1>6. ASSUME NEW f \in Frame, stack' = Append(Stepped, f) PROVE SteppedInto(f)
    <2>1. /\ Len(stack') = n + 1 /\ stack'[n + 1] = f
          /\ \A i \in 1..n : stack'[i] = Stepped[i]
      BY <1>4, <1>6, AppendProperties
    <2>2. stack'[n] = g /\ \A i \in 1..n-1 : stack'[i] = stack[i]
      BY <1>1, <1>4, <2>1
    <2> QED BY <1>1, <1>2, <2>1, <2>2 DEF SteppedInto, TopStepped
  <1> QED BY <1>5, <1>6

\* The innermost frame of these kinds is the innermost of all if it is one of them.
LEMMA InnermostTop ==
  ASSUME TypeOK, stack # <<>>, NEW K, Top.kind \in K
  PROVE  Innermost(K) = Top.of
  <1> DEFINE n == Len(stack)
  <1>1. n \in Nat /\ n \in Levels /\ DOMAIN stack = Levels
    BY LevelFacts DEF Levels
  <1>2. LastOf(K, n)
    BY <1>1 DEF LastOf, Top
  <1>3. ASSUME NEW i \in Levels, LastOf(K, i), i # n  PROVE FALSE
    <2>0. i \in 1..n /\ i # n /\ n \in Nat
      BY <1>1, <1>3 DEF Levels
    <2>1. n \in i+1..n
      <3> HIDE DEF n
      <3> QED BY <2>0
    <2> QED BY <1>3, <2>1 DEF LastOf, Top
  <1>4. (CHOOSE i \in DOMAIN stack : LastOf(K, i)) = n
    BY <1>1, <1>2, <1>3
  <1> QED BY <1>1, <1>2, <1>4 DEF Innermost, Top

AllCode == \A i \in Levels : stack[i].kind \in CodeKinds

\* Below the code of a function there is no disposal.
LEMMA CodeBelow ==
  ASSUME TypeOK, Shape, stack = <<>> \/ Top.kind \in CodeKinds
  PROVE  AllCode
  <1>1. CASE stack = <<>>
    BY <1>1, LevelFacts DEF AllCode, Levels
  <1>2. CASE Top.kind \in CodeKinds
    <2> SUFFICES ASSUME NEW i \in Levels, stack[i].kind \notin CodeKinds
                 PROVE  FALSE
      BY DEF AllCode
    <2>1. Len(stack) \in Levels /\ i <= Len(stack)
      BY LevelFacts DEF Levels
    <2>2. stack[i].kind \in EngineKinds \cup {"call"}
      BY LevelFacts DEF Frame, UserKinds, CodeKinds, EngineKinds
    <2>3. i # Len(stack)
      BY <1>2 DEF Top
    <2>4. stack[i].kind \in EngineKinds
      BY <2>2, <2>3 DEF Shape
    <2>5. Top.kind \in EngineKinds \cup {"call"}
      BY <2>1, <2>3, <2>4, LevelFacts DEF Shape, Top
    <2> QED BY <1>2, <2>5 DEF CodeKinds, EngineKinds
  <1> QED BY <1>1, <1>2

\* Silent cleanup functions leave all steps of user code to functions outside of
\* disposals.
LEMMA UserStepFacts ==
  ASSUME IInv, Shape, Silent(program), UserStep
  PROVE  AllCode
  <1>0. TypeOK
    BY DEF IInv
  <1>1. PICK x : InUserCode /\ (\/ x \in program.creates[Author] \/ x \in program.disposes[Author]
                                \/ x \in program.reruns[Author] \/ x \in program.enters[Author])
    BY DEF UserStep, CreateRoot, RunWithOwner, DisposeOwner, RenderEffect, DeferEffect, Rerun,
           DisposeEffect, OnCleanup, OnOwnerCleanup, MayCreate, MayDispose, MayRerun, MayEnter
  <1>2. CASE stack # <<>> /\ Top.kind = "call"
    <2>1. Author = Top.of
      BY <1>0, <1>2, InnermostTop DEF Author, UserKinds
    <2>2. Top.of \in Cleanups
      BY <1>2, TopFacts DEF Sound
    <2> QED BY <1>1, <2>1, <2>2 DEF Silent
  <1>3. CASE ~(stack # <<>> /\ Top.kind = "call")
    <2>1. stack = <<>> \/ Top.kind \in CodeKinds
      BY <1>1, <1>3 DEF InUserCode, Running, UserKinds, CodeKinds
    <2> QED BY <1>0, <2>1, CodeBelow
  <1> QED BY <1>2, <1>3

-----------------------------------------------------------------------------
(* What the steps do to the stack                                          *)

LEMMA LoopFrames ==
  ASSUME TypeOK, NEW o \in Owners
  PROVE  /\ FirstLoop(o) = Call("children", o, Len(children[o]), None)
         /\ FirstLoop(o) \in Frame
         /\ Call("disposers", o, Len(disposers[o]), None) \in Frame
         /\ Call("cleanups", o, Len(cleanups[o]), None) \in Frame
  <1>1. /\ Len(children[o]) \in Nat /\ Len(disposers[o]) \in Nat /\ Len(cleanups[o]) \in Nat
        /\ o \in Things /\ None \in Scopes \cup {None}
    BY LevelFacts DEF Scopes, Things
  <1>2. ASSUME NEW m \in Nat, NEW k \in {"children", "disposers", "cleanups"}
        PROVE  Call(k, o, m, None) \in Frame
    <2>1. /\ k \notin OwnerKinds /\ k \notin EffectKinds /\ k \notin EffectKinds \cup {"clean", "wipe"}
          /\ k # "call"
      BY DEF OwnerKinds, EffectKinds
    <2>2. k \in {"root", "enter", "first", "run", "clean", "wipe", "children", "disposers",
                  "cleanups", "call"}
      OBVIOUS
    <2> QED BY <1>1, <2>1, <2>2, CallFacts
  <1> QED BY <1>1, <1>2 DEF FirstLoop

LEMMA SweepFrames ==
  ASSUME TypeOK, NEW e \in Effects
  PROVE  /\ Call("wipe", e, Len(cleanups[e]), None) \in Frame
         /\ Call("clean", e, Len(cleanups[e]), None) \in Frame
         /\ Call("first", e, 0, tracking) \in Frame
         /\ Call("run", e, 0, tracking) \in Frame
  <1>1. /\ Len(cleanups[e]) \in Nat /\ 0 \in Nat
        /\ e \in Things /\ None \in Scopes \cup {None} /\ tracking \in Scopes \cup {None}
        /\ tracking \in Effects \cup {None}
    BY LevelFacts DEF Scopes, Things, TypeOK
  <1>2. ASSUME NEW m \in Nat, NEW k \in {"wipe", "clean", "first", "run"}, NEW u \in {tracking, None}
        PROVE  Call(k, e, m, u) \in Frame
    <2>1. /\ k \notin OwnerKinds /\ k \notin OwnerKinds \cup {"children", "disposers", "cleanups"}
          /\ k # "call"
      BY DEF OwnerKinds
    <2>2. k \in {"root", "enter", "first", "run", "clean", "wipe", "children", "disposers",
                  "cleanups", "call"}
      OBVIOUS
    <2>3. u \in Effects \cup {None} /\ u \in Scopes \cup {None}
      BY <1>1
    <2> QED BY <1>1, <2>1, <2>2, <2>3, CallFacts
  <1> QED BY <1>1, <1>2

LEMMA UserMoves ==
  ASSUME IInv
  PROVE  /\ \A o \in Owners :
              /\ CreateRoot(o) => Pushed(Call("root", o, 0, owner))
              /\ RunWithOwner(o) => Pushed(Call("enter", o, 0, owner))
              /\ DisposeOwner(o) => Pushed(FirstLoop(o))
         /\ \A e \in Effects :
              /\ RenderEffect(e) => Pushed(Call("first", e, 0, tracking))
              /\ Rerun(e) \/ Microtask =>
                   \/ stack' = stack
                   \/ \E x \in Effects : Active(x) /\ Pushed(Call("clean", x, Len(cleanups[x]), None))
              /\ DisposeEffect(e) => Pushed(Call("wipe", e, Len(cleanups[e]), None))
  <1>0. TypeOK /\ LifecycleAssumption
    BY LifecycleAssumption DEF IInv
  <1>1. ASSUME NEW o \in Owners
        PROVE  /\ CreateRoot(o) => Pushed(Call("root", o, 0, owner))
               /\ RunWithOwner(o) => Pushed(Call("enter", o, 0, owner))
               /\ DisposeOwner(o) => Pushed(FirstLoop(o))
    <2>1. Call("root", o, 0, owner) \in Frame /\ Call("enter", o, 0, owner) \in Frame
      <3>1. /\ o \in Things /\ owner \in Owners \cup {None} /\ owner \in Scopes \cup {None}
            /\ 0 \in Nat
        BY <1>0 DEF Things, Scopes, TypeOK
      <3> QED BY <1>0, <3>1, CallFacts DEF OwnerKinds, EffectKinds
    <2>2. FirstLoop(o) \in Frame
      BY <1>0, LoopFrames
    <2>3. CreateRoot(o) => Pushed(Call("root", o, 0, owner))
      BY <1>0, <2>1, PushFacts DEF CreateRoot, Push
    <2>4. RunWithOwner(o) => Pushed(Call("enter", o, 0, owner))
      BY <1>0, <2>1, PushFacts DEF RunWithOwner, Push
    <2>5. DisposeOwner(o) => Pushed(FirstLoop(o))
      BY <1>0, <2>2, PushFacts DEF DisposeOwner, Push
    <2> QED BY <2>3, <2>4, <2>5
  <1>2. ASSUME NEW e \in Effects
        PROVE  /\ RenderEffect(e) => Pushed(Call("first", e, 0, tracking))
               /\ RunEffect(e) =>
                    stack' = stack \/ (Active(e) /\ Pushed(Call("clean", e, Len(cleanups[e]), None)))
               /\ DisposeEffect(e) => Pushed(Call("wipe", e, Len(cleanups[e]), None))
    <2>1. RenderEffect(e) => Pushed(Call("first", e, 0, tracking))
      BY <1>0, SweepFrames, PushFacts DEF RenderEffect, Push
    <2>2. RunEffect(e) => stack' = stack \/ (Active(e) /\ Pushed(Call("clean", e, Len(cleanups[e]), None)))
      BY <1>0, SweepFrames, PushFacts DEF RunEffect, Push
    <2>3. DisposeEffect(e) => Pushed(Call("wipe", e, Len(cleanups[e]), None))
      BY <1>0, SweepFrames, PushFacts DEF DisposeEffect, Push
    <2> QED BY <2>1, <2>2, <2>3
  <1>3. Microtask => Head(microtasks) \in Effects
    BY <1>0, HeadTailProperties DEF Microtask, TypeOK
  <1>4. ASSUME NEW e \in Effects, Rerun(e) \/ Microtask
        PROVE  \E x \in Effects : RunEffect(x)
    BY <1>3, <1>4 DEF Rerun, Microtask
  <1> QED BY <1>1, <1>2, <1>4

LEMMA EngineMoves ==
  ASSUME IInv
  PROVE  /\ OwnerReturn \/ FirstReturn \/ RunReturn \/ CleanupReturn \/ WipeReturn \/ DisposeReturn
              => PoppedOff
         /\ RunStart => Swapped(Call("run", Top.of, 0, tracking))
         /\ NextLoop =>
              \/ /\ Top.kind = "children"
                 /\ Swapped(Call("disposers", Top.of, Len(disposers[Top.of]), None))
              \/ /\ Top.kind = "disposers"
                 /\ Swapped(Call("cleanups", Top.of, Len(cleanups[Top.of]), None))
         /\ CallCleanup => SteppedInto(Call("call", cleanups[Top.of][Top.at], 0, None))
         /\ CallDisposer => LET e == disposers[Top.of][Top.at]
                            IN SteppedInto(Call("wipe", e, Len(cleanups[e]), None))
         /\ DisposeChild => LET child == children[Top.of][Top.at] IN
              IF life[child] = "live" THEN SteppedInto(FirstLoop(child)) ELSE SteppedDown
  <1>0. TypeOK
    BY DEF IInv
  <1>1. stack # <<>> => Top \in Frame /\ Sound(Top) /\ Len(stack) \in Levels
    BY <1>0, TopFacts, LevelFacts DEF Levels
  <1>2. OwnerReturn \/ FirstReturn \/ RunReturn \/ CleanupReturn \/ WipeReturn \/ DisposeReturn
          => PoppedOff
    BY <1>0, PopOffFacts
       DEF OwnerReturn, FirstReturn, RunReturn, CleanupReturn, WipeReturn, DisposeReturn, Running
  <1>3. ASSUME RunStart PROVE Swapped(Call("run", Top.of, 0, tracking))
    <2>1. stack # <<>> /\ Top.of \in Effects
      BY <1>1, <1>3 DEF RunStart, Running, Sound
    <2> QED BY <1>0, <1>3, <2>1, SweepFrames, SwapFacts DEF RunStart
  <1>4. ASSUME NextLoop
        PROVE  \/ /\ Top.kind = "children"
                  /\ Swapped(Call("disposers", Top.of, Len(disposers[Top.of]), None))
               \/ /\ Top.kind = "disposers"
                  /\ Swapped(Call("cleanups", Top.of, Len(cleanups[Top.of]), None))
    <2>1. stack # <<>> /\ Top.of \in Owners /\ Top.kind \in {"children", "disposers"}
      BY <1>1, <1>4 DEF NextLoop, Running, Sound
    <2>2. CASE Top.kind = "children"
      <3>1. stack' = Append(Popped, Call("disposers", Top.of, Len(disposers[Top.of]), None))
        BY <1>4, <2>2 DEF NextLoop
      <3> QED BY <1>0, <2>1, <2>2, <3>1, LoopFrames, SwapFacts
    <2>3. CASE Top.kind = "disposers"
      <3>1. stack' = Append(Popped, Call("cleanups", Top.of, Len(cleanups[Top.of]), None))
        BY <1>4, <2>3 DEF NextLoop
      <3> QED BY <1>0, <2>1, <2>3, <3>1, LoopFrames, SwapFacts
    <2> QED BY <2>1, <2>2, <2>3
  <1>5. ASSUME CallCleanup PROVE SteppedInto(Call("call", cleanups[Top.of][Top.at], 0, None))
    <2> DEFINE c == cleanups[Top.of][Top.at]
    <2>1. stack # <<>> /\ Top.of \in Scopes
      BY <1>1, <1>5 DEF CallCleanup, Running, Sound, Scopes
    <2>2. c \in Cleanups /\ Top.at >= 1
      <3>1. cleanups[Top.of] \in Seq(Cleanups) /\ Top.at \in 1..Len(cleanups[Top.of])
        BY <1>0, <1>5, <2>1 DEF CallCleanup, TypeOK
      <3> QED BY <3>1, ElementOfSeq
    <2>3. stack' = Append(Stepped, Call("call", c, 0, None))
      BY <1>5 DEF CallCleanup
    <2>4. Call("call", c, 0, None) \in Frame
      <3> HIDE DEF c
      <3>1. c \in Things /\ 0 \in Nat /\ None \in Scopes \cup {None}
        BY <2>2 DEF Things
      <3> QED BY <1>0, <2>2, <3>1, CallFacts DEF OwnerKinds, EffectKinds
    <2> QED BY <1>0, <2>1, <2>2, <2>3, <2>4, StepDownFacts
  <1>6. ASSUME CallDisposer
        PROVE  LET e == disposers[Top.of][Top.at]
               IN SteppedInto(Call("wipe", e, Len(cleanups[e]), None))
    <2> DEFINE e == disposers[Top.of][Top.at]
    <2>1. stack # <<>> /\ Top.of \in Owners
      BY <1>1, <1>6 DEF CallDisposer, Running, Sound
    <2>2. e \in Effects /\ Top.at >= 1
      <3>1. disposers[Top.of] \in Seq(Effects) /\ Top.at \in 1..Len(disposers[Top.of])
        BY <1>0, <1>6, <2>1 DEF CallDisposer, TypeOK
      <3> QED BY <3>1, ElementOfSeq
    <2>3. stack' = Append(Stepped, Call("wipe", e, Len(cleanups[e]), None))
      BY <1>6 DEF CallDisposer
    <2> HIDE DEF e
    <2>4. Call("wipe", e, Len(cleanups[e]), None) \in Frame
      BY <1>0, <2>2, SweepFrames
    <2>5. SteppedInto(Call("wipe", e, Len(cleanups[e]), None))
      BY <1>0, <2>1, <2>2, <2>3, <2>4, StepDownFacts
    <2> QED BY <2>5 DEF e
  <1>7. ASSUME DisposeChild
        PROVE  LET child == children[Top.of][Top.at] IN
               IF life[child] = "live" THEN SteppedInto(FirstLoop(child)) ELSE SteppedDown
    <2> DEFINE child == children[Top.of][Top.at]
    <2>1. stack # <<>> /\ Top.of \in Owners
      BY <1>1, <1>7 DEF DisposeChild, Running, Sound
    <2>2. child \in Owners /\ Top.at >= 1
      <3>1. children[Top.of] \in Seq(Owners) /\ Top.at \in 1..Len(children[Top.of])
        BY <1>0, <1>7, <2>1 DEF DisposeChild, TypeOK
      <3> QED BY <3>1, ElementOfSeq
    <2>3. IF life[child] = "live" THEN stack' = Append(Stepped, FirstLoop(child))
          ELSE stack' = Stepped
      BY <1>7 DEF DisposeChild
    <2> HIDE DEF child
    <2>4. FirstLoop(child) \in Frame
      BY <1>0, <2>2, LoopFrames
    <2>5. IF life[child] = "live" THEN SteppedInto(FirstLoop(child)) ELSE SteppedDown
      BY <1>0, <2>1, <2>2, <2>3, <2>4, StepDownFacts
    <2> QED BY <2>5 DEF child
  <1> QED BY <1>2, <1>3, <1>4, <1>5, <1>6, <1>7

-----------------------------------------------------------------------------
(* The shape of the stack                                                  *)

\* A call by code, a return, one loop or call after another, and a call by a loop.
LEMMA ShapePushed ==
  ASSUME TypeOK, Shape, AllCode, NEW f \in Frame, Pushed(f)
  PROVE  Shape'
  <1>1. Len(stack) \in Nat /\ Len(stack') = Len(stack) + 1
    BY LevelFacts DEF Pushed
  <1>2. \A i \in Levels' : i # Len(stack') => i \in Levels /\ stack'[i].kind \in CodeKinds
    <2>1. \A i \in Levels' : i # Len(stack') => i \in Levels
      BY <1>1 DEF Levels
    <2> QED BY <2>1 DEF AllCode, Pushed
  <1>3. \A i, j \in Levels' : i < j => i # Len(stack')
    BY <1>1 DEF Levels
  <1>4. \A k \in CodeKinds : /\ k \notin EngineKinds /\ k # "call" /\ k \notin SweepKinds
                             /\ k # "disposers"
    BY DEF CodeKinds, EngineKinds, SweepKinds
  <1> QED BY <1>2, <1>3, <1>4 DEF Shape

LEMMA ShapePoppedOff ==
  ASSUME TypeOK, Shape, PoppedOff
  PROVE  Shape'
  <1>1. /\ \A i \in Levels' : i \in Levels /\ i < Len(stack) /\ stack'[i] = stack[i]
        /\ \A i, j \in Levels' : i < j => i # Len(stack')
    <2>1. Len(stack) \in Nat /\ Len(stack') = Len(stack) - 1
      BY LevelFacts DEF PoppedOff
    <2>2. \A i \in Levels' : i \in Levels /\ i < Len(stack) /\ i \in 1..Len(stack)-1
      BY <2>1 DEF Levels
    <2>3. \A i, j \in Levels' : i < j => i # Len(stack')
      BY <2>1 DEF Levels
    <2> QED BY <2>2, <2>3 DEF PoppedOff
  <1>2. \A i \in Levels' : stack'[i].kind # "call"
    <2>1. Len(stack) \in Nat
      BY LevelFacts
    <2> QED BY <1>1, <2>1 DEF Shape, Levels
  <1> QED BY <1>1, <1>2 DEF Shape

LEMMA ShapeSwapped ==
  ASSUME TypeOK, Shape, NEW f \in Frame, Swapped(f),
         \/ Top.kind = "clean" /\ f.kind = "run"
         \/ Top.kind = "children" /\ f.kind = "disposers"
         \/ Top.kind = "disposers" /\ f.kind = "cleanups"
  PROVE  Shape'
  <1> DEFINE n == Len(stack)
  <1>1. /\ n \in Levels /\ Levels' = Levels /\ Len(stack') = n
        /\ \A i \in Levels : i # n => i < n /\ stack'[i] = stack[i]
        /\ \A i, j \in Levels : i < j => i # n
        /\ stack'[n] = f /\ stack[n] = Top
    <2>1. n \in Nat /\ n >= 1 /\ Len(stack') = n
      BY LevelFacts DEF Swapped
    <2>2. \A i \in Levels : i # n => i < n /\ i \in 1..n-1
      BY <2>1 DEF Levels
    <2>3. \A i, j \in Levels : i < j => i # n
      BY <2>1 DEF Levels
    <2>4. n \in Levels /\ Levels' = Levels
      BY <2>1 DEF Levels
    <2> QED BY <2>1, <2>2, <2>3, <2>4 DEF Swapped, Top
  <1> HIDE DEF n
  <1>2. \A i, j \in Levels : /\ i < j /\ stack[i].kind \in EngineKinds => j # n \/ Top.kind # "clean"
                             /\ i < j => stack[i].kind # "call"
    <2>1. \A i, j \in Levels : i < j => stack[i].kind # "call"
      BY <1>1 DEF Shape, n
    <2>2. ASSUME NEW i \in Levels, NEW j \in Levels, i < j, stack[i].kind \in EngineKinds, j = n
          PROVE  Top.kind # "clean"
      BY <1>1, <2>2 DEF Shape, EngineKinds, CodeKinds
    <2> QED BY <2>1, <2>2
  <1>3. \A i, j \in Levels : i < j /\ stack[i].kind \in SweepKinds => j # n
    BY <1>1 DEF Shape, SweepKinds
  <1>4. \A i, j \in Levels : i < j /\ stack[i].kind = "disposers" => j # n
    BY <1>1 DEF Shape
  <1>5. /\ f.kind # "call" /\ f.kind # "clean" /\ (Top.kind # "clean" => f.kind \in EngineKinds)
    BY DEF EngineKinds
  <1> QED BY <1>1, <1>2, <1>3, <1>4, <1>5 DEF Shape

LEMMA ShapeStepped ==
  ASSUME TypeOK, Shape, SteppedDown
  PROVE  Shape'
  <1>1. Levels' = Levels /\ Len(stack') = Len(stack)
    BY DEF SteppedDown, Levels
  <1>2. \A i \in Levels : stack'[i].kind = stack[i].kind
    <2>0. Len(stack) \in Nat
      BY LevelFacts
    <2>1. \A i \in Levels : i = Len(stack) \/ i \in 1..Len(stack)-1
      BY <2>0 DEF Levels
    <2> QED BY <2>1 DEF SteppedDown, TopStepped, Top
  <1> QED BY <1>1, <1>2 DEF Shape

LEMMA ShapeInto ==
  ASSUME TypeOK, Shape, NEW f \in Frame, SteppedInto(f),
         \/ Top.kind = "children" /\ f.kind = "children"
         \/ Top.kind = "disposers" /\ f.kind = "wipe"
         \/ Top.kind \in {"clean", "wipe", "cleanups"} /\ f.kind = "call"
  PROVE  Shape'
  <1> DEFINE n == Len(stack)
  <1>1. /\ n \in Levels /\ n \in Nat /\ Levels' = Levels \cup {n + 1} /\ Len(stack') = n + 1
        /\ \A i \in Levels : stack'[i].kind = stack[i].kind
        /\ \A i, j \in Levels : i < j => i # n
        /\ \A i \in Levels : i # n + 1 /\ i <= n /\ i \in Nat /\ (i # n => i < n)
        /\ stack'[n + 1] = f /\ stack[n] = Top
    <2>1. n \in Nat /\ n >= 1 /\ Len(stack') = n + 1
      BY LevelFacts DEF SteppedInto, TopStepped
    <2>2. \A i \in Levels : i = n \/ i \in 1..n-1
      BY <2>1 DEF Levels
    <2>3. \A i, j \in Levels : i < j => i # n
      BY <2>1 DEF Levels
    <2>4. n \in Levels /\ Levels' = Levels \cup {n + 1}
      BY <2>1 DEF Levels
    <2>5. \A i \in Levels : i # n + 1 /\ i <= n /\ i \in Nat /\ (i # n => i < n)
      BY <2>1 DEF Levels
    <2>6. \A i \in Levels : stack'[i].kind = stack[i].kind
      BY <2>2 DEF SteppedInto, TopStepped, Top
    <2> QED BY <2>1, <2>3, <2>4, <2>5, <2>6 DEF SteppedInto, Top
  <1> HIDE DEF n
  <1>2. \A i \in Levels : stack[i].kind # "call" /\ (stack[i].kind \in SweepKinds => i = n)
                          /\ (stack[i].kind = "disposers" => i = n \/ Top.kind = "wipe")
    <2>1. Top.kind # "call" /\ Top.kind \in EngineKinds
      BY DEF EngineKinds
    <2>2. \A i \in Levels : stack[i].kind # "call"
      BY <1>1, <2>1 DEF Shape, n
    <2>3. \A i \in Levels : stack[i].kind \in SweepKinds => i = n
      BY <1>1, <2>1 DEF Shape
    <2>4. \A i \in Levels : stack[i].kind = "disposers" => i = n \/ Top.kind = "wipe"
      BY <1>1, <2>1 DEF Shape
    <2> QED BY <2>2, <2>3, <2>4
  <1>3. Top.kind \in EngineKinds /\ f.kind \in EngineKinds \cup {"call"} /\ f.kind # "clean"
    BY DEF EngineKinds
  <1>4. \A i, j \in Levels' : i < j => i \in Levels
    BY <1>1
  <1>5. \A i, j \in Levels' : i < j /\ stack'[i].kind \in EngineKinds =>
          stack'[j].kind \in EngineKinds \cup {"call"}
    BY <1>1, <1>2, <1>3, <1>4 DEF Shape
  <1>6. \A i \in Levels' : stack'[i].kind = "call" => i = Len(stack')
    BY <1>1, <1>2
  <1>7. \A i, j \in Levels' : i < j /\ stack'[i].kind \in SweepKinds => stack'[j].kind = "call"
    <2> SUFFICES ASSUME NEW i \in Levels, NEW j \in Levels', i < j, stack[i].kind \in SweepKinds
                 PROVE  stack'[j].kind = "call"
      BY <1>1, <1>4
    <2>1. i = n /\ Top.kind \in SweepKinds
      BY <1>1, <1>2
    <2>2. j = n + 1
      BY <1>1, <2>1
    <2> QED BY <1>1, <2>1, <2>2 DEF SweepKinds
  <1>8. \A i, j \in Levels' : i < j /\ stack'[i].kind = "disposers" =>
          stack'[j].kind \in {"wipe", "call"}
    <2> SUFFICES ASSUME NEW i \in Levels, NEW j \in Levels', i < j, stack[i].kind = "disposers"
                 PROVE  stack'[j].kind \in {"wipe", "call"}
      BY <1>1, <1>4
    <2>1. CASE j = n + 1
      BY <1>1, <1>2, <2>1
    <2>2. CASE j # n + 1
      BY <1>1, <2>2 DEF Shape
    <2> QED BY <2>1, <2>2
  <1>9. \A i, j \in Levels' : i < j /\ stack'[j].kind = "clean" => stack'[i].kind \in CodeKinds
    BY <1>1, <1>3, <1>4 DEF Shape
  <1> QED BY <1>5, <1>6, <1>7, <1>8, <1>9 DEF Shape

-----------------------------------------------------------------------------
(* What the steps leave alone                                              *)

\* The frames of these kinds are where they were, but for how far their loops are.
SameFrames(K) ==
  /\ \A i \in Levels' : stack'[i].kind \in K =>
       /\ i \in Levels /\ stack'[i].kind = stack[i].kind
       /\ stack'[i].of = stack[i].of /\ stack'[i].prev = stack[i].prev
  /\ \A i \in Levels : stack[i].kind \in K =>
       /\ i \in Levels' /\ stack'[i].kind = stack[i].kind
       /\ stack'[i].of = stack[i].of /\ stack'[i].prev = stack[i].prev

LEMMA FramesKept ==
  ASSUME TypeOK, NEW K,
         \/ stack' = stack
         \/ PoppedOff /\ Top.kind \notin K
         \/ SteppedDown
         \/ \E f : /\ f.kind \notin K
                   /\ Pushed(f) \/ (Swapped(f) /\ Top.kind \notin K) \/ SteppedInto(f)
  PROVE  SameFrames(K)
  <1>0. Len(stack) \in Nat
    BY LevelFacts
  <1>1. CASE stack' = stack
    BY <1>1 DEF SameFrames, Levels
  <1>2. CASE PoppedOff /\ Top.kind \notin K
    <2>1. \A i \in Levels' : i \in Levels /\ i \in 1..Len(stack)-1
      BY <1>0, <1>2 DEF PoppedOff, Levels
    <2>2. \A i \in Levels : i = Len(stack) \/ (i \in Levels' /\ i \in 1..Len(stack)-1)
      BY <1>0, <1>2 DEF PoppedOff, Levels
    <2> QED BY <1>2, <2>1, <2>2 DEF SameFrames, PoppedOff, Top
  <1>3. ASSUME TopStepped
        PROVE  \A i \in Levels : /\ stack'[i].kind = stack[i].kind /\ stack'[i].of = stack[i].of
                                 /\ stack'[i].prev = stack[i].prev
    <2>1. \A i \in Levels : i = Len(stack) \/ i \in 1..Len(stack)-1
      BY <1>0 DEF Levels
    <2> QED BY <1>3, <2>1 DEF TopStepped, Top
  <1>4. CASE SteppedDown
    <2>1. Levels' = Levels
      BY <1>4 DEF SteppedDown, Levels
    <2> QED BY <1>3, <1>4, <2>1 DEF SameFrames, SteppedDown
  <1>5. ASSUME NEW f, f.kind \notin K, Pushed(f) \/ (Swapped(f) /\ Top.kind \notin K) \/ SteppedInto(f)
        PROVE  SameFrames(K)
    <2>1. CASE Pushed(f)
      <3>1. /\ \A i \in Levels' : i \in Levels \/ i = Len(stack) + 1
            /\ \A i \in Levels : i \in Levels'
        BY <1>0, <2>1 DEF Pushed, Levels
      <3> QED BY <1>5, <2>1, <3>1 DEF SameFrames, Pushed
    <2>2. CASE Swapped(f) /\ Top.kind \notin K
      <3>1. /\ Levels' = Levels
            /\ \A i \in Levels : i = Len(stack) \/ i \in 1..Len(stack)-1
        BY <1>0, <2>2 DEF Swapped, Levels
      <3> QED BY <1>5, <2>2, <3>1 DEF SameFrames, Swapped, Top
    <2>3. CASE SteppedInto(f)
      <3>1. /\ \A i \in Levels' : i \in Levels \/ i = Len(stack) + 1
            /\ \A i \in Levels : i \in Levels'
        BY <1>0, <2>3 DEF SteppedInto, Levels
      <3> QED BY <1>3, <1>5, <2>3, <3>1 DEF SameFrames, SteppedInto
    <2> QED BY <1>5, <2>1, <2>2, <2>3
  <1> QED BY <1>1, <1>2, <1>4, <1>5

LEMMA LifeSet ==
  ASSUME TypeOK, NEW x \in Scopes, NEW v, life' = [life EXCEPT ![x] = v]
  PROVE  life'[x] = v /\ \A y \in Scopes : y # x => life'[y] = life[y]
  BY DEF TypeOK

\* What happens to scopes in all steps but the beginning and the end of a creating call.
Calm == \A x \in Scopes : \/ life'[x] = life[x]
                          \/ life[x] = "absent" /\ life'[x] = "live"
                          \/ life[x] \in {"live", "disposed"} /\ life'[x] = "disposed"

LEMMA CalmStep ==
  ASSUME IInv, Registered, [Next]_vars, ~\E e \in Effects : RenderEffect(e), ~FirstReturn
  PROVE  Calm
  <1>0. TypeOK
    BY DEF IInv
  <1>1. ASSUME NEW x \in Scopes, NEW v, life' = [life EXCEPT ![x] = v],
               \/ life[x] = "absent" /\ v = "live"
               \/ life[x] \in {"live", "disposed"} /\ v = "disposed"
        PROVE  Calm
    BY <1>0, <1>1, LifeSet DEF Calm
  <1>2. ASSUME life' = life PROVE Calm
    BY <1>2 DEF Calm
  <1>3. CASE UNCHANGED vars
    BY <1>2, <1>3 DEF vars
  <1>4. ASSUME NEW o \in Owners, CreateRoot(o) \/ RunWithOwner(o) \/ DisposeOwner(o)
        PROVE  Calm
    <2>1. o \in Scopes
      BY DEF Scopes
    <2>2. CASE CreateRoot(o)
      BY <1>1, <2>1, <2>2 DEF CreateRoot
    <2>3. CASE RunWithOwner(o)
      BY <1>2, <2>3 DEF RunWithOwner
    <2>4. CASE DisposeOwner(o)
      BY <1>1, <2>1, <2>4 DEF DisposeOwner
    <2> QED BY <1>4, <2>2, <2>3, <2>4
  <1>5. ASSUME NEW e \in Effects, DeferEffect(e) \/ Rerun(e) \/ DisposeEffect(e)
        PROVE  Calm
    <2>1. e \in Scopes
      BY DEF Scopes
    <2>2. CASE DeferEffect(e)
      BY <1>1, <2>1, <2>2 DEF DeferEffect
    <2>3. CASE Rerun(e)
      BY <1>2, <2>3 DEF Rerun
    <2>4. CASE DisposeEffect(e)
      BY <1>1, <2>1, <2>4 DEF DisposeEffect
    <2> QED BY <1>5, <2>2, <2>3, <2>4
  <1>6. CASE DisposeChild
    <2> DEFINE child == children[Top.of][Top.at]
    <2>1. child \in Scopes
      <3>1. stack # <<>> /\ Top.of \in Owners
        BY <1>6, TopFacts DEF DisposeChild, Running, Sound
      <3>2. children[Top.of] \in Seq(Owners) /\ Top.at \in 1..Len(children[Top.of])
        BY <1>0, <1>6, <3>1 DEF DisposeChild, TypeOK
      <3> QED BY <3>2, ElementOfSeq DEF Scopes
    <2>2. \/ life[child] = "live" /\ life' = [life EXCEPT ![child] = "disposed"]
          \/ life' = life
      BY <1>6 DEF DisposeChild
    <2> HIDE DEF child
    <2> QED BY <1>1, <1>2, <2>1, <2>2
  <1>7. CASE CallDisposer
    <2> DEFINE e == disposers[Top.of][Top.at]
    <2>1. e \in Scopes /\ life[e] \in {"live", "disposed"}
      <3>1. stack # <<>> /\ Top.of \in Owners
        BY <1>7, TopFacts DEF CallDisposer, Running, Sound
      <3>2. disposers[Top.of] \in Seq(Effects) /\ Top.at \in 1..Len(disposers[Top.of])
        BY <1>0, <1>7, <3>1 DEF CallDisposer, TypeOK
      <3>3. e \in Effects
        BY <3>2, ElementOfSeq
      <3> QED BY <3>1, <3>2, <3>3 DEF Registered, Scopes
    <2>2. life' = [life EXCEPT ![e] = "disposed"]
      BY <1>7 DEF CallDisposer
    <2> HIDE DEF e
    <2> QED BY <1>1, <2>1, <2>2
  <1>8. CASE \/ \E c \in Cleanups : OnCleanup(c) \/ OnOwnerCleanup(c)
             \/ OwnerReturn \/ RunStart \/ RunReturn \/ Microtask
             \/ CallCleanup \/ CleanupReturn \/ WipeReturn
             \/ NextLoop \/ DisposeReturn \/ OutOfRange
    BY <1>2, <1>8 DEF OnCleanup, OnOwnerCleanup, AddCleanup, OwnerReturn, RunStart, RunReturn,
         Microtask, CallCleanup, CleanupReturn, WipeReturn, NextLoop, DisposeReturn, OutOfRange
  <1> QED BY <1>3, <1>4, <1>5, <1>6, <1>7, <1>8 DEF Next, UserStep, EngineStep

\* How the stack moves in all steps.
MovedAs(f) ==
  \/ /\ AllCode /\ Pushed(f) /\ f.kind \in {"root", "enter", "children", "wipe"}
  \/ /\ AllCode /\ Pushed(f) /\ f.kind = "clean" /\ Active(f.of) /\ life' = life
  \/ /\ Swapped(f) /\ life' = life
     /\ \/ Top.kind = "clean" /\ f.kind = "run" /\ f.of = Top.of
        \/ Top.kind = "children" /\ f.kind = "disposers" /\ f.of = Top.of
        \/ Top.kind = "disposers" /\ f.kind = "cleanups" /\ f.of = Top.of
  \/ /\ SteppedInto(f)
     /\ \/ Top.kind = "children" /\ f.kind = "children"
        \/ Top.kind = "disposers" /\ f.kind = "wipe"
        \/ Top.kind \in SweepKinds /\ f.kind = "call" /\ life' = life

Moved ==
  \/ stack' = stack /\ (life' = life \/ AllCode)
  \/ PoppedOff /\ Top.kind # "first" /\ life' = life
  \/ SteppedDown /\ Top.kind = "children"
  \/ \E f \in Frame : MovedAs(f)

LEMMA MovedStep ==
  ASSUME IInv, QInv, Silent(program), [Next]_vars,
         ~\E e \in Effects : RenderEffect(e), ~FirstReturn
  PROVE  Moved
  <1>0. TypeOK
    BY DEF IInv
  <1>a. UserStep => AllCode
    BY UserStepFacts DEF QInv
  <1>b. stack # <<>> => Top \in Frame /\ Sound(Top)
    BY TopFacts
  <1>1. CASE UNCHANGED vars
    BY <1>1 DEF vars, Moved
  <1>2. ASSUME NEW o \in Owners, CreateRoot(o) \/ RunWithOwner(o) \/ DisposeOwner(o)
        PROVE  Moved
    <2>1. \E f \in Frame : Pushed(f) /\ f.kind \in {"root", "enter", "children"}
      <3>1. /\ Call("root", o, 0, owner) \in Frame /\ Call("enter", o, 0, owner) \in Frame
        <4>1. /\ o \in Things /\ owner \in Owners \cup {None} /\ owner \in Scopes \cup {None}
              /\ 0 \in Nat
          BY <1>0 DEF Things, Scopes, TypeOK
        <4> QED BY <1>0, <4>1, CallFacts DEF OwnerKinds, EffectKinds
      <3>2. FirstLoop(o) \in Frame /\ FirstLoop(o).kind = "children"
        BY <1>0, LoopFrames, CallFields
      <3> QED BY <1>2, <3>1, <3>2, UserMoves, CallFields
    <2>2. UserStep
      BY <1>2 DEF UserStep
    <2> QED BY <1>a, <2>1, <2>2 DEF Moved, MovedAs
  <1>3. ASSUME NEW e \in Effects, Rerun(e) \/ Microtask
        PROVE  Moved
    <2>1. AllCode
      <3>1. stack = <<>> => AllCode
        BY <1>0, LevelFacts DEF AllCode, Levels
      <3>2. Rerun(e) => UserStep
        BY DEF UserStep
      <3> QED BY <1>3, <1>a, <3>1, <3>2 DEF Microtask
    <2>2. life' = life
      BY <1>3 DEF Rerun, Microtask
    <2>3. \/ stack' = stack
          \/ \E x \in Effects : Active(x) /\ Pushed(Call("clean", x, Len(cleanups[x]), None))
      BY <1>3, UserMoves
    <2>4. ASSUME NEW x \in Effects, Active(x), Pushed(Call("clean", x, Len(cleanups[x]), None))
          PROVE  Moved
      BY <1>0, <2>1, <2>2, <2>4, SweepFrames, CallFields DEF Moved, MovedAs
    <2> QED BY <2>2, <2>3, <2>4 DEF Moved
  <1>4. ASSUME NEW e \in Effects, DisposeEffect(e) PROVE Moved
    <2>1. UserStep
      BY <1>4 DEF UserStep
    <2> QED BY <1>0, <1>4, <1>a, <2>1, UserMoves, SweepFrames, CallFields DEF Moved, MovedAs
  <1>5. ASSUME NEW e \in Effects, DeferEffect(e) PROVE Moved
    <2>1. UserStep
      BY <1>5 DEF UserStep
    <2> QED BY <1>5, <1>a, <2>1 DEF Moved, DeferEffect
  <1>6. CASE \E c \in Cleanups : OnCleanup(c) \/ OnOwnerCleanup(c)
    BY <1>6 DEF Moved, OnCleanup, OnOwnerCleanup, AddCleanup
  <1>7. CASE OwnerReturn \/ RunReturn \/ CleanupReturn \/ WipeReturn \/ DisposeReturn
    <2>1. PoppedOff
      BY <1>7, EngineMoves
    <2> QED BY <1>7, <2>1
        DEF Moved, OwnerReturn, RunReturn, CleanupReturn, WipeReturn, DisposeReturn, Running
  <1>8. CASE RunStart
    <2>1. Top.kind = "clean" /\ Top.of \in Effects /\ life' = life
      BY <1>8, <1>b DEF RunStart, Running, Sound
    <2> QED BY <1>0, <1>8, <2>1, EngineMoves, SweepFrames, CallFields DEF Moved, MovedAs
  <1>9. CASE NextLoop
    <2>1. Top.of \in Owners /\ life' = life
      BY <1>9, <1>b DEF NextLoop, Running, Sound
    <2> QED BY <1>0, <1>9, <2>1, EngineMoves, LoopFrames, CallFields DEF Moved, MovedAs
  <1>10. CASE CallCleanup
    <2> DEFINE c == cleanups[Top.of][Top.at]
    <2>1. Top.kind \in SweepKinds /\ stack # <<>> /\ Top.of \in Scopes /\ life' = life
      BY <1>10, <1>b DEF CallCleanup, Running, Sound, SweepKinds, Scopes
    <2>2. c \in Cleanups
      <3>1. cleanups[Top.of] \in Seq(Cleanups) /\ Top.at \in 1..Len(cleanups[Top.of])
        BY <1>0, <1>10, <2>1 DEF CallCleanup, TypeOK
      <3> QED BY <3>1, ElementOfSeq
    <2>3. SteppedInto(Call("call", c, 0, None))
      BY <1>10, EngineMoves
    <2> HIDE DEF c
    <2>4. Call("call", c, 0, None) \in Frame
      <3>1. c \in Things /\ 0 \in Nat /\ None \in Scopes \cup {None}
        BY <2>2 DEF Things
      <3> QED BY <1>0, <2>2, <3>1, CallFacts DEF OwnerKinds, EffectKinds
    <2> QED BY <2>1, <2>3, <2>4, CallFields DEF Moved, MovedAs
  <1>11. CASE CallDisposer
    <2> DEFINE e == disposers[Top.of][Top.at]
    <2>1. Top.kind = "disposers" /\ stack # <<>> /\ Top.of \in Owners
      BY <1>11, <1>b DEF CallDisposer, Running, Sound
    <2>2. e \in Effects
      <3>1. disposers[Top.of] \in Seq(Effects) /\ Top.at \in 1..Len(disposers[Top.of])
        BY <1>0, <1>11, <2>1 DEF CallDisposer, TypeOK
      <3> QED BY <3>1, ElementOfSeq
    <2>3. SteppedInto(Call("wipe", e, Len(cleanups[e]), None))
      BY <1>11, EngineMoves
    <2> HIDE DEF e
    <2> QED BY <1>0, <2>1, <2>2, <2>3, SweepFrames, CallFields DEF Moved, MovedAs
  <1>12. CASE DisposeChild
    <2> DEFINE child == children[Top.of][Top.at]
    <2>1. Top.kind = "children" /\ stack # <<>> /\ Top.of \in Owners
      BY <1>12, <1>b DEF DisposeChild, Running, Sound
    <2>2. child \in Owners
      <3>1. children[Top.of] \in Seq(Owners) /\ Top.at \in 1..Len(children[Top.of])
        BY <1>0, <1>12, <2>1 DEF DisposeChild, TypeOK
      <3> QED BY <3>1, ElementOfSeq
    <2>3. SteppedInto(FirstLoop(child)) \/ SteppedDown
      BY <1>12, EngineMoves
    <2> HIDE DEF child
    <2> QED BY <1>0, <2>1, <2>2, <2>3, LoopFrames, CallFields DEF Moved, MovedAs
  <1>13. CASE OutOfRange
    BY <1>13 DEF OutOfRange, Moved
  <1>14. Microtask => \E e \in Effects : TRUE
    <2>1. Microtask => Head(microtasks) \in Effects
      BY <1>0, HeadTailProperties DEF Microtask, TypeOK
    <2> QED BY <2>1
  <1> QED BY <1>1, <1>2, <1>3, <1>4, <1>5, <1>6, <1>7, <1>8, <1>9, <1>10, <1>11, <1>12, <1>13,
             <1>14 DEF Next, UserStep, EngineStep

-----------------------------------------------------------------------------
(* Disposal is final                                                       *)

\* Under the top of these kinds there is no effect about to run.
LEMMA NoClean ==
  ASSUME TypeOK, Shape, stack # <<>>, Top.kind \notin {"clean", "call"}
  PROVE  \A i \in Levels : stack[i].kind # "clean"
  <1>1. /\ Len(stack) \in Levels
        /\ \A i \in Levels : i = Len(stack) \/ i < Len(stack)
    <2>1. Len(stack) \in Nat /\ Len(stack) # 0
      BY LevelFacts
    <2> QED BY <2>1 DEF Levels
  <1> QED BY <1>1 DEF Shape, SweepKinds, Top

LEMMA NoCleanCode ==
  ASSUME AllCode
  PROVE  \A i \in Levels : stack[i].kind # "clean"
  BY DEF AllCode, CodeKinds

LEMMA QuietMoved ==
  ASSUME IInv, QInv, Moved, Calm
  PROVE  Shape' /\ Creating' /\ CleanActive'
  <1>0. TypeOK /\ Shape
    BY DEF IInv, QInv
  <1>1. Shape'
    <2>1. CASE stack' = stack
      BY <1>0, <2>1 DEF Shape, Levels
    <2>2. CASE PoppedOff
      BY <1>0, <2>2, ShapePoppedOff
    <2>3. CASE SteppedDown
      BY <1>0, <2>3, ShapeStepped
    <2>4. ASSUME NEW f \in Frame, MovedAs(f) PROVE Shape'
      <3>1. CASE AllCode /\ Pushed(f)
        BY <1>0, <3>1, ShapePushed
      <3>2. CASE /\ Swapped(f)
                 /\ \/ Top.kind = "clean" /\ f.kind = "run"
                    \/ Top.kind = "children" /\ f.kind = "disposers"
                    \/ Top.kind = "disposers" /\ f.kind = "cleanups"
        BY <1>0, <3>2, ShapeSwapped
      <3>3. CASE /\ SteppedInto(f)
                 /\ \/ Top.kind = "children" /\ f.kind = "children"
                    \/ Top.kind = "disposers" /\ f.kind = "wipe"
                    \/ Top.kind \in {"clean", "wipe", "cleanups"} /\ f.kind = "call"
        BY <1>0, <3>3, ShapeInto
      <3> QED BY <2>4, <3>1, <3>2, <3>3 DEF MovedAs, SweepKinds
    <2> QED BY <2>1, <2>2, <2>3, <2>4 DEF Moved
  <1>2. Creating'
    <2>1. SameFrames({"first"})
      <3>1. ASSUME NEW f \in Frame, MovedAs(f) PROVE SameFrames({"first"})
        <4>1. /\ f.kind \notin {"first"}
              /\ Pushed(f) \/ (Swapped(f) /\ Top.kind \notin {"first"}) \/ SteppedInto(f)
          BY <3>1 DEF MovedAs
        <4> QED BY <1>0, <4>1, FramesKept
      <3>2. CASE stack' = stack \/ SteppedDown \/ (PoppedOff /\ Top.kind \notin {"first"})
        BY <1>0, <3>2, FramesKept
      <3> QED BY <3>1, <3>2 DEF Moved
    <2>2. \A x \in Scopes : life'[x] = "creating" <=> life[x] = "creating"
      BY DEF Calm
    <2>3. \A i \in Levels : stack[i].kind = "first" => stack[i].of \in Scopes
      BY DEF IInv, Calls, Levels, Sound, EffectKinds, Scopes
    <2>4. Creating
      BY DEF QInv
    <2>5. \A i \in Levels' : stack'[i].kind = "first" => life'[stack'[i].of] = "creating"
      BY <2>1, <2>2, <2>3, <2>4 DEF Creating, SameFrames
    <2>6. \A i, j \in Levels' :
            stack'[i].kind = "first" /\ stack'[j].kind = "first" /\ stack'[i].of = stack'[j].of
              => i = j
      <3>1. \A i \in Levels' : stack'[i].kind = "first" =>
              i \in Levels /\ stack[i].kind = "first" /\ stack'[i].of = stack[i].of
        BY <2>1 DEF SameFrames
      <3>2. ASSUME NEW i \in Levels', NEW j \in Levels', stack'[i].kind = "first",
                   stack'[j].kind = "first", stack'[i].of = stack'[j].of
            PROVE  i = j
        <4>1. /\ i \in Levels /\ stack[i].kind = "first" /\ j \in Levels /\ stack[j].kind = "first"
              /\ stack[i].of = stack[j].of
          BY <3>1, <3>2
        <4> QED BY <2>4, <4>1 DEF Creating
      <3> QED BY <3>2
    <2>7. \A e \in Effects : life'[e] = "creating" =>
            \E i \in Levels' : stack'[i].kind = "first" /\ stack'[i].of = e
      <3> SUFFICES ASSUME NEW e \in Effects, life'[e] = "creating"
                   PROVE  \E i \in Levels' : stack'[i].kind = "first" /\ stack'[i].of = e
        OBVIOUS
      <3>1. life[e] = "creating"
        BY <2>2 DEF Scopes
      <3>2. PICK i \in Levels : stack[i].kind = "first" /\ stack[i].of = e
        BY <2>4, <3>1 DEF Creating
      <3> QED BY <2>1, <3>2 DEF SameFrames
    <2> QED BY <2>5, <2>6, <2>7 DEF Creating
  <1>3. CleanActive'
    <2>0. CleanActive
      BY DEF QInv
    <2>1. ASSUME life' = life,
                 \A i \in Levels' : stack'[i].kind = "clean" =>
                   \/ Active(stack'[i].of)
                   \/ i \in Levels /\ stack[i].kind = "clean" /\ stack'[i].of = stack[i].of
          PROVE  CleanActive'
      BY <2>0, <2>1 DEF CleanActive, Active
    <2>2. ASSUME \A i \in Levels' : stack'[i].kind # "clean" PROVE CleanActive'
      BY <2>2 DEF CleanActive
    <2>3. ASSUME SameFrames({"clean"}), \/ life' = life
                                        \/ \A i \in Levels : stack[i].kind # "clean"
          PROVE  CleanActive'
      BY <2>1, <2>2, <2>3 DEF SameFrames
    <2>4. CASE stack' = stack /\ (life' = life \/ AllCode)
      BY <1>0, <2>3, <2>4, FramesKept, NoCleanCode
    <2>5. CASE PoppedOff /\ life' = life
      <3>1. \A i \in Levels' : i \in Levels /\ stack'[i] = stack[i]
        BY <1>0, <2>5, LevelFacts DEF PoppedOff, Levels
      <3> QED BY <2>1, <2>5, <3>1
    <2>6. CASE SteppedDown /\ Top.kind = "children"
      <3>1. stack # <<>>
        BY <1>0, <2>6, LevelFacts DEF SteppedDown, TopStepped
      <3> QED BY <1>0, <2>3, <2>6, <3>1, FramesKept, NoClean
    <2>7. ASSUME NEW f \in Frame, MovedAs(f) PROVE CleanActive'
      <3>1. CASE AllCode /\ Pushed(f) /\ f.kind # "clean"
        BY <1>0, <2>3, <3>1, FramesKept, NoCleanCode
      <3>2. CASE Pushed(f) /\ Active(f.of) /\ life' = life
        <4>1. \A i \in Levels' : i \in Levels \/ i = Len(stack) + 1
          BY <1>0, <3>2, LevelFacts DEF Pushed, Levels
        <4> QED BY <2>1, <3>2, <4>1 DEF Pushed
      <3>3. CASE Swapped(f) /\ f.kind # "clean" /\ life' = life
        <4>1. \A i \in Levels' : i \in Levels /\ (i = Len(stack) \/ i \in 1..Len(stack)-1)
          BY <1>0, <3>3, LevelFacts DEF Swapped, Levels
        <4> QED BY <2>1, <3>3, <4>1 DEF Swapped
      <3>4. CASE SteppedInto(f) /\ f.kind # "clean" /\ life' = life
        BY <1>0, <2>3, <3>4, FramesKept
      <3>5. CASE SteppedInto(f) /\ f.kind # "clean" /\ Top.kind \in {"children", "disposers"}
        <4>1. stack # <<>>
          BY <1>0, <3>5, LevelFacts DEF SteppedInto, TopStepped
        <4> QED BY <1>0, <2>3, <3>5, <4>1, FramesKept, NoClean
      <3> QED BY <2>7, <3>1, <3>2, <3>3, <3>4, <3>5 DEF MovedAs
    <2> QED BY <2>4, <2>5, <2>6, <2>7 DEF Moved
  <1> QED BY <1>1, <1>2, <1>3

\* Effects are registered when they are created.
LEMMA RegisteredKept ==
  ASSUME TypeOK, Registered,
         \A e \in Effects : life[e] \in {"live", "disposed"} => life'[e] \in {"live", "disposed"},
         \/ disposers' = disposers
         \/ \E e \in Effects : Register(e) /\ life'[e] = "live"
         \/ \E o \in Owners : disposers' = [disposers EXCEPT ![o] = <<>>]
  PROVE  Registered'
  <1>0. \A o \in Owners : /\ disposers[o] \in Seq(Effects)
                          /\ Len(disposers[o]) \in Nat
                          /\ \A k \in 1..Len(disposers[o]) : disposers[o][k] \in Effects
    BY LevelFacts, ElementOfSeq DEF TypeOK
  <1>1. CASE disposers' = disposers
    BY <1>0, <1>1 DEF Registered
  <1>2. ASSUME NEW e \in Effects, Register(e), life'[e] = "live", disposers' # disposers
        PROVE  Registered'
    <2>1. owner \in Owners /\ disposers' = [disposers EXCEPT ![owner] = Append(@, e)]
      BY <1>2 DEF Register, TypeOK
    <2>2. \A o \in Owners : disposers'[o] = IF o = owner THEN Append(disposers[o], e) ELSE disposers[o]
      BY <2>1 DEF TypeOK
    <2>3. ASSUME NEW o \in Owners
          PROVE  /\ Len(Append(disposers[o], e)) = Len(disposers[o]) + 1
                 /\ \A k \in 1..Len(disposers[o])+1 :
                      Append(disposers[o], e)[k] = IF k = Len(disposers[o])+1 THEN e ELSE disposers[o][k]
                 /\ \A k \in 1..Len(disposers[o])+1 : k = Len(disposers[o])+1 \/ k \in 1..Len(disposers[o])
      <3>1. \A k \in 1..Len(disposers[o])+1 : k = Len(disposers[o])+1 \/ k \in 1..Len(disposers[o])
        BY <1>0
      <3>2. Len(Append(disposers[o], e)) = Len(disposers[o]) + 1
        BY <1>0, AppendProperties
      <3>3. \A k \in 1..Len(disposers[o])+1 :
              Append(disposers[o], e)[k] = IF k = Len(disposers[o])+1 THEN e ELSE disposers[o][k]
        BY <1>0, <3>1, AppendProperties
      <3> QED BY <3>1, <3>2, <3>3
    <2> SUFFICES ASSUME NEW o \in Owners, NEW k \in 1..Len(disposers'[o])
                 PROVE  life'[disposers'[o][k]] \in {"live", "disposed"}
      BY DEF Registered
    <2>4. CASE o = owner
      <3>1. k \in 1..Len(disposers[o])+1
        BY <2>2, <2>3, <2>4
      <3>2. disposers'[o][k] = IF k = Len(disposers[o])+1 THEN e ELSE disposers[o][k]
        BY <2>2, <2>3, <2>4, <3>1
      <3>3. CASE k = Len(disposers[o])+1
        BY <1>2, <3>2, <3>3
      <3>4. CASE k \in 1..Len(disposers[o])
        BY <1>0, <1>2, <3>2, <3>4 DEF Registered
      <3> QED BY <2>3, <3>1, <3>3, <3>4
    <2>5. CASE o # owner
      <3>1. disposers'[o] = disposers[o]
        BY <2>2, <2>5
      <3> QED BY <1>0, <3>1 DEF Registered
    <2> QED BY <2>4, <2>5
  <1>3. ASSUME NEW o \in Owners, disposers' = [disposers EXCEPT ![o] = <<>>]
        PROVE  Registered'
    <2>1. \A p \in Owners : disposers'[p] = IF p = o THEN <<>> ELSE disposers[p]
      BY <1>3 DEF TypeOK
    <2>2. Len(<<>>) = 0 /\ 1..0 = {}
      OBVIOUS
    <2>3. ASSUME NEW p \in Owners, NEW k \in 1..Len(disposers'[p])
          PROVE  life'[disposers'[p][k]] \in {"live", "disposed"}
      <3>1. p # o /\ disposers'[p] = disposers[p]
        BY <2>1, <2>2, <2>3
      <3> QED BY <1>0, <2>3, <3>1 DEF Registered
    <2> QED BY <2>3 DEF Registered
  <1> QED BY <1>1, <1>2, <1>3

\* A creating call begins.
LEMMA QuietRender ==
  ASSUME IInv, QInv, Silent(program), NEW e \in Effects, RenderEffect(e)
  PROVE  QInv'
  <1> DEFINE f == Call("first", e, 0, tracking)
  <1>0. /\ TypeOK /\ Shape /\ Creating /\ Registered
        /\ life[e] = "absent" /\ life' = [life EXCEPT ![e] = "creating"] /\ disposers' = disposers
    BY DEF IInv, QInv, RenderEffect
  <1>1. AllCode
    BY UserStepFacts DEF UserStep, QInv
  <1>2. Pushed(f) /\ f \in Frame /\ f.kind = "first" /\ f.of = e
    BY <1>0, UserMoves, SweepFrames, CallFields
  <1> HIDE DEF f
  <1>3. life'[e] = "creating" /\ \A x \in Scopes : x # e => life'[x] = life[x]
    BY <1>0, LifeSet DEF Scopes
  <1>4. Shape'
    BY <1>0, <1>1, <1>2, ShapePushed
  <1>5. /\ \A i \in Levels : i \in Levels' /\ stack'[i] = stack[i]
        /\ \A i \in Levels' : i \in Levels \/ (i = Len(stack) + 1 /\ stack'[i] = f)
        /\ Len(stack) + 1 \in Levels'
        /\ \A i \in Levels : i # Len(stack) + 1
    <2>1. Len(stack) \in Nat /\ Len(stack') = Len(stack) + 1
      BY <1>0, <1>2, LevelFacts DEF Pushed
    <2>2. /\ \A i \in Levels : i \in Levels'
          /\ \A i \in Levels' : i \in Levels \/ i = Len(stack) + 1
          /\ Len(stack) + 1 \in Levels'
          /\ \A i \in Levels : i # Len(stack) + 1
      BY <2>1 DEF Levels
    <2> QED BY <1>2, <2>2 DEF Pushed
  <1>6. \A i \in Levels : stack[i].kind = "first" => stack[i].of \in Effects /\ stack[i].of # e
    <2>1. \A i \in Levels : stack[i].kind = "first" => stack[i].of \in Effects
      BY DEF IInv, Calls, Levels, Sound, EffectKinds
    <2> QED BY <1>0, <2>1 DEF Creating
  <1>7. Creating'
    <2>1. \A i \in Levels' : stack'[i].kind = "first" => life'[stack'[i].of] = "creating"
      BY <1>0, <1>2, <1>3, <1>5, <1>6 DEF Creating, Scopes
    <2>2. ASSUME NEW i \in Levels', NEW j \in Levels', stack'[i].kind = "first",
                 stack'[j].kind = "first", stack'[i].of = stack'[j].of
          PROVE  i = j
      <3>1. CASE i \in Levels /\ j \in Levels
        BY <1>0, <1>5, <2>2, <3>1 DEF Creating
      <3>2. CASE ~(i \in Levels /\ j \in Levels)
        BY <1>2, <1>5, <1>6, <2>2, <3>2
      <3> QED BY <3>1, <3>2
    <2>3. ASSUME NEW x \in Effects, life'[x] = "creating"
          PROVE  \E i \in Levels' : stack'[i].kind = "first" /\ stack'[i].of = x
      <3>1. CASE x = e
        BY <1>2, <1>5, <3>1 DEF Pushed
      <3>2. CASE x # e
        <4>1. life[x] = "creating"
          BY <1>3, <2>3, <3>2 DEF Scopes
        <4>2. PICK i \in Levels : stack[i].kind = "first" /\ stack[i].of = x
          BY <1>0, <4>1 DEF Creating
        <4> QED BY <1>5, <4>2
      <3> QED BY <3>1, <3>2
    <2> QED BY <2>1, <2>2, <2>3 DEF Creating
  <1>8. Registered'
    <2>1. \A x \in Effects : life[x] \in {"live", "disposed"} => life'[x] \in {"live", "disposed"}
      BY <1>0, <1>3 DEF Scopes
    <2> QED BY <1>0, <2>1, RegisteredKept
  <1>9. CleanActive'
    BY <1>1, <1>2, <1>5, NoCleanCode DEF CleanActive
  <1> QED BY <1>4, <1>7, <1>8, <1>9 DEF QInv

\* It ends: the effect was being created, by this call alone.
LEMMA QuietReturn ==
  ASSUME IInv, QInv, FirstReturn
  PROVE  /\ QInv'
         /\ Top.of \in Effects /\ life[Top.of] = "creating"
  <1> DEFINE n == Len(stack)
             e == Top.of
  <1>0. /\ TypeOK /\ Shape /\ Creating /\ Registered
        /\ stack # <<>> /\ Top.kind = "first"
        /\ life' = [life EXCEPT ![e] = "live"]
        /\ Register(e)
    BY DEF IInv, QInv, FirstReturn, Running
  <1>1. e \in Effects
    BY <1>0, TopFacts DEF Sound, EffectKinds
  <1>2. PoppedOff
    BY EngineMoves
  <1>3. /\ n \in Levels /\ stack[n] = Top
        /\ \A i \in Levels' : i \in Levels /\ i # n /\ stack'[i] = stack[i]
        /\ \A i \in Levels : i # n => i \in Levels'
    <2>1. n \in Nat /\ n >= 1 /\ Len(stack') = n - 1
      BY <1>0, <1>2, LevelFacts DEF PoppedOff
    <2>2. n \in Levels /\ \A i \in Levels' : i \in Levels /\ i # n /\ i \in 1..n-1
      BY <2>1 DEF Levels
    <2>3. \A i \in Levels : i # n => i \in Levels'
      BY <2>1 DEF Levels
    <2> QED BY <1>2, <2>2, <2>3 DEF PoppedOff, Top
  <1> HIDE DEF n
  <1>4. life[e] = "creating" /\ \A i \in Levels : stack[i].kind = "first" /\ stack[i].of = e => i = n
    BY <1>0, <1>3 DEF Creating
  <1> HIDE DEF e
  <1>5. life'[e] = "live" /\ \A x \in Scopes : x # e => life'[x] = life[x]
    BY <1>0, <1>1, LifeSet DEF Scopes
  <1>6. Shape'
    BY <1>0, <1>2, ShapePoppedOff
  <1>7. Creating'
    <2>0. \A i \in Levels : stack[i].kind = "first" => stack[i].of \in Scopes
      BY DEF IInv, Calls, Levels, Sound, EffectKinds, Scopes
    <2>1. \A i \in Levels' : stack'[i].kind = "first" => life'[stack'[i].of] = "creating"
      BY <1>0, <1>3, <1>4, <1>5, <2>0 DEF Creating
    <2>2. ASSUME NEW i \in Levels', NEW j \in Levels', stack'[i].kind = "first",
                 stack'[j].kind = "first", stack'[i].of = stack'[j].of
          PROVE  i = j
      BY <1>0, <1>3, <2>2 DEF Creating
    <2>3. ASSUME NEW x \in Effects, life'[x] = "creating"
          PROVE  \E i \in Levels' : stack'[i].kind = "first" /\ stack'[i].of = x
      <3>1. x # e
        BY <1>5, <2>3
      <3>2. life[x] = "creating"
        BY <1>5, <2>3, <3>1 DEF Scopes
      <3>3. PICK i \in Levels : stack[i].kind = "first" /\ stack[i].of = x
        BY <1>0, <3>2 DEF Creating
      <3>4. i # n
        BY <1>3, <3>1, <3>3 DEF e
      <3> QED BY <1>3, <3>3, <3>4
    <2> QED BY <2>1, <2>2, <2>3 DEF Creating
  <1>8. Registered'
    <2>1. \A x \in Effects : life[x] \in {"live", "disposed"} => life'[x] \in {"live", "disposed"}
      BY <1>4, <1>5 DEF Scopes
    <2> QED BY <1>0, <1>1, <1>5, <2>1, RegisteredKept
  <1>9. CleanActive'
    BY <1>0, <1>3, NoClean DEF CleanActive
  <1> QED BY <1>1, <1>4, <1>6, <1>7, <1>8, <1>9 DEF QInv, e

LEMMA QuietRest ==
  ASSUME IInv, QInv, Silent(program), [Next]_vars,
         ~\E e \in Effects : RenderEffect(e), ~FirstReturn
  PROVE  QInv' /\ Calm /\ Moved
  <1>0. TypeOK /\ Registered
    BY DEF IInv, QInv
  <1>1. Calm /\ Moved
    BY <1>0, CalmStep, MovedStep
  <1>2. Registered'
    <2>1. \A x \in Effects : life[x] \in {"live", "disposed"} => life'[x] \in {"live", "disposed"}
      BY <1>1 DEF Calm, Scopes
    <2>2. ASSUME NEW e \in Effects, DeferEffect(e)
          PROVE  Register(e) /\ life'[e] = "live"
      BY <1>0, <2>2, LifeSet DEF DeferEffect, Scopes
    <2>3. DisposeReturn => Top.of \in Owners /\ disposers' = [disposers EXCEPT ![Top.of] = <<>>]
      BY TopFacts DEF DisposeReturn, Running, Sound
    <2>4. \/ disposers' = disposers
          \/ DisposeReturn
          \/ \E e \in Effects : DeferEffect(e)
      <3>1. CASE UNCHANGED vars
        BY <3>1 DEF vars
      <3>2. CASE UserStep
        BY <3>2 DEF UserStep, CreateRoot, RunWithOwner, DisposeOwner, Rerun, DisposeEffect, tree,
             OnCleanup, OnOwnerCleanup, AddCleanup
      <3>3. CASE EngineStep
        BY <3>3 DEF EngineStep, OwnerReturn, RunStart, RunReturn, Microtask, CallCleanup, tree,
             CleanupReturn, WipeReturn, DisposeChild, CallDisposer, NextLoop, OutOfRange
      <3> QED BY <3>1, <3>2, <3>3 DEF Next
    <2> QED BY <1>0, <2>1, <2>2, <2>3, <2>4, RegisteredKept
  <1> QED BY <1>1, <1>2, QuietMoved DEF QInv

\* If cleanup functions call nothing, the invariant is kept, and disposal is final.
Quiet == \A x \in Scopes : life[x] = "disposed" =>
  /\ life'[x] = "disposed"
  /\ stack' # stack /\ Len(stack') >= Len(stack) =>
       stack'[Len(stack')].kind \notin {"first", "run"} \/ stack'[Len(stack')].of # x

LEMMA QuietStep ==
  ASSUME IInv, QInv, Silent(program), [Next]_vars
  PROVE  QInv' /\ Quiet
  <1>0. TypeOK /\ CleanActive
    BY DEF IInv, QInv
  <1>00. Len(stack) \in Nat
    BY <1>0, LevelFacts
  <1>1. ASSUME NEW e \in Effects, RenderEffect(e)
        PROVE  QInv' /\ Quiet
    <2>1. Pushed(Call("first", e, 0, tracking))
      BY <1>1, UserMoves
    <2>2. stack'[Len(stack')].of = e
      BY <2>1, CallFields DEF Pushed
    <2>3. life[e] = "absent" /\ \A x \in Scopes : x # e => life'[x] = life[x]
      BY <1>0, <1>1, LifeSet DEF RenderEffect, Scopes
    <2> QED BY <1>1, <2>2, <2>3, QuietRender DEF Quiet
  <1>2. CASE FirstReturn
    <2>1. Len(stack') < Len(stack) /\ Len(stack') \in Nat
      BY <1>2, <1>00, EngineMoves DEF PoppedOff
    <2>2. Top.of \in Scopes /\ life[Top.of] = "creating" /\ life' = [life EXCEPT ![Top.of] = "live"]
      BY <1>2, QuietReturn DEF FirstReturn, Scopes
    <2>3. \A x \in Scopes : x # Top.of => life'[x] = life[x]
      BY <1>0, <2>2, LifeSet
    <2>4. ~(Len(stack') >= Len(stack))
      BY <1>00, <2>1
    <2> QED BY <1>2, <2>2, <2>3, <2>4, QuietReturn DEF Quiet
  <1>3. CASE ~FirstReturn /\ ~\E e \in Effects : RenderEffect(e)
    <2>1. QInv' /\ Calm /\ Moved
      BY <1>3, QuietRest
    <2>2. \A x \in Scopes : life[x] = "disposed" => life'[x] = "disposed"
      BY <2>1 DEF Calm
    <2>3. ASSUME NEW x \in Scopes, life[x] = "disposed", stack' # stack, Len(stack') >= Len(stack)
          PROVE  stack'[Len(stack')].kind \notin {"first", "run"} \/ stack'[Len(stack')].of # x
      <3>1. ~PoppedOff
        BY <1>00, <2>3 DEF PoppedOff
      <3>2. CASE SteppedDown /\ Top.kind = "children"
        BY <3>2 DEF SteppedDown, TopStepped
      <3>3. ASSUME NEW f \in Frame, MovedAs(f)
            PROVE  stack'[Len(stack')].kind \notin {"first", "run"} \/ stack'[Len(stack')].of # x
        <4>1. (Pushed(f) \/ Swapped(f) \/ SteppedInto(f)) => stack'[Len(stack')] = f
          BY DEF Pushed, Swapped, SteppedInto
        <4>2. CASE Swapped(f) /\ Top.kind = "clean" /\ f.of = Top.of
          <5>1. Len(stack) \in Levels
            BY <1>00, <4>2 DEF Swapped, Levels
          <5>2. Active(Top.of)
            BY <1>0, <4>2, <5>1 DEF CleanActive, Top
          <5> QED BY <2>3, <4>1, <4>2, <5>2 DEF Active
        <4> QED BY <3>3, <4>1, <4>2 DEF MovedAs
      <3> QED BY <2>1, <2>3, <3>1, <3>2, <3>3 DEF Moved
    <2> QED BY <2>1, <2>2, <2>3 DEF Quiet
  <1> QED BY <1>1, <1>2, <1>3

LEMMA QuietInit == ASSUME Init PROVE QInv
  <1>1. Levels = {}
    BY EmptySeq DEF Init, Levels
  <1>2. \A o \in Owners : 1..Len(disposers[o]) = {}
    <2>1. \A o \in Owners : Len(disposers[o]) = 0
      BY EmptySeq DEF Init
    <2>2. 1..0 = {}
      OBVIOUS
    <2> QED BY <2>1, <2>2
  <1>3. \A e \in Effects : life[e] # "creating"
    BY DEF Init, Scopes
  <1> QED BY <1>1, <1>2, <1>3 DEF QInv, Shape, Creating, Registered, CleanActive

\* Owner::dispose and the disposer of an effect set disposed and nothing resets it, and an
\* effect looks at it before it runs its cleanups and before its function: what is disposed
\* stays so, and its function is not called again.
THEOREM DisposalIsFinal ==
  ASSUME \A p \in Programs : Silent(p)
  PROVE  Spec => DisposedStaysQuiet
  <1>1. IInv => Silent(program)
    BY DEF IInv, TypeOK
  <1>2. IInv /\ QInv /\ [Next]_vars => QInv' /\ Quiet
    BY <1>1, QuietStep
  <1>3. [Quiet]_vars <=> Quiet
    <2>1. UNCHANGED vars => Quiet
      BY DEF Quiet, vars
    <2> QED BY <2>1
  <1>4. DisposedStaysQuiet <=> [][Quiet]_vars
    BY DEF DisposedStaysQuiet, Quiet
  <1> QED BY <1>2, <1>4, QuietInit, Invariance, PTL DEF Spec

-----------------------------------------------------------------------------
(* What programs may dispose and enter                                     *)

\* Everything that belongs to x: x, what was created under it, and so on.
Closed(A) == \A y \in Scopes : parent[y] \in A => y \in A
Under(x) == {y \in Scopes : \A A \in SUBSET Scopes : x \in A /\ Closed(A) => y \in A}

\* Nobody enters an owner that was disposed, or disposes a scope from inside it.
Inside(x) == \E i \in Levels : stack[i].of \in Under(x)
Orderly ==
  /\ \A o \in Owners : (RunWithOwner(o) => life[o] = "live") /\ (DisposeOwner(o) => ~Inside(o))
  /\ \A e \in Effects : DisposeEffect(e) => ~Inside(e)

-----------------------------------------------------------------------------
(* The invariant of disposal                                               *)

\* What is in force, and what a call remembers to put back, is of a call below.
InForce(st, kinds, v) ==
  /\ v # None => \E j \in 1..Len(st) : st[j].kind \in kinds /\ st[j].of = v
  /\ \A i \in 1..Len(st) : st[i].kind \in kinds /\ st[i].prev # None =>
       \E j \in 1..Len(st) : j < i /\ st[j].kind \in kinds /\ st[j].of = st[i].prev

\* When the first run of an effect ends the owner in force is what it was at its
\* creation.
OwnerAbove(i) == {j \in Levels : j > i /\ stack[j].kind \in OwnerKinds}
Remembered ==
  \A i \in Levels : stack[i].kind = "first" =>
    /\ OwnerAbove(i) = {} => owner = parent[stack[i].of]
    /\ \A j \in OwnerAbove(i) :
         (\A k \in OwnerAbove(i) : j <= k) => stack[j].prev = parent[stack[i].of]

\* The owners and effects of code that runs are not disposed.
Alive ==
  /\ \A i \in Levels : stack[i].kind \in OwnerKinds => life[stack[i].of] = "live"
  /\ \A i \in Levels : stack[i].kind = "run" => Active(stack[i].of)

Contexts ==
  /\ InForce(stack, OwnerKinds, owner) /\ InForce(stack, EffectKinds, tracking)
  /\ Remembered /\ Alive

\* The arrays hold the owners and effects under an owner, all that are alive.
Holds(array, x) == \E k \in 1..Len(array) : array[k] = x
Trees ==
  /\ \A x \in Scopes : life[x] = "absent" => parent[x] = None
  /\ \A o \in Owners : life[o] # "creating"
  /\ \A p \in Owners :
       /\ \A k \in 1..Len(children[p]) : parent[children[p][k]] = p
       /\ \A k, l \in 1..Len(children[p]) : children[p][k] = children[p][l] => k = l
       /\ \A k \in 1..Len(disposers[p]) : parent[disposers[p][k]] = p
       /\ \A x \in Owners : life[x] = "live" /\ parent[x] = p => Holds(children[p], x)
       /\ \A x \in Effects : life[x] = "live" /\ parent[x] = p => Holds(disposers[p], x)

\* Whatever is at work belongs to a live owner, or to one that is being disposed.
Attached ==
  \A x \in Scopes : Active(x) /\ parent[x] # None =>
    \/ life[parent[x]] = "live"
    \/ \E i \in Levels : stack[i].kind \in LoopKinds /\ stack[i].of = parent[x]

\* What a loop of Owner::dispose has passed is disposed.
PassedChildren(o, m) ==
  \A x \in Owners : life[x] = "live" /\ parent[x] = o => \E k \in 1..m : children[o][k] = x
PassedDisposers(o, m) ==
  \A x \in Effects : life[x] = "live" /\ parent[x] = o => \E k \in 1..m : disposers[o][k] = x
LoopOK(f) ==
  /\ f.kind \in LoopKinds => life[f.of] = "disposed"
  /\ f.kind = "children" => f.at <= Len(children[f.of]) /\ PassedChildren(f.of, f.at)
  /\ f.kind = "disposers" =>
       f.at <= Len(disposers[f.of]) /\ PassedChildren(f.of, 0) /\ PassedDisposers(f.of, f.at)
  /\ f.kind = "cleanups" => PassedChildren(f.of, 0) /\ PassedDisposers(f.of, 0)

\* Disposals are outside of the code that runs, and an owner that is being disposed is
\* not in the part of an array that a loop below it has still to visit.
Apart(f, g) == f.kind \in LoopKinds /\ g.kind \in CodeKinds => g.of \notin Under(f.of)
Behind(f, g) ==
  f.kind = "children" /\ g.kind \in LoopKinds => \A k \in 1..f.at : children[f.of][k] # g.of

Loops ==
  /\ \A i \in Levels : LoopOK(stack[i])
  /\ \A i, j \in Levels : Apart(stack[i], stack[j])
  /\ \A i, j \in Levels : i < j => Behind(stack[i], stack[j])
  /\ \A i, j \in Levels : stack[i].kind \in LoopKinds /\ stack[j].kind \in LoopKinds
                          /\ stack[i].of = stack[j].of => i = j

\* A cleanup is in one array, until it was called and the array is cleared.
Sweeps(i, x) == i \in Levels /\ stack[i].kind \in SweepKinds /\ stack[i].of = x
OneArray ==
  \A x, y \in Scopes : \A k \in 1..Len(cleanups[x]), l \in 1..Len(cleanups[y]) :
    cleanups[x][k] = cleanups[y][l] => x = y /\ k = l
Swept ==
  /\ \A i \in Levels : stack[i].kind \in SweepKinds => stack[i].at <= Len(cleanups[stack[i].of])
  /\ \A x \in Scopes : \A k \in 1..Len(cleanups[x]) :
       /\ home[cleanups[x][k]] # None
       /\ ran[cleanups[x][k]] = 0 \/ \E i \in Levels : Sweeps(i, x)
       /\ \A i \in Levels : Sweeps(i, x) => (ran[cleanups[x][k]] = 0 <=> k <= stack[i].at)
WillSweep(x, k) ==
  \/ Active(x)
  \/ \E i \in Levels : /\ stack[i].of = x
                       /\ \/ stack[i].kind \in {"children", "disposers"}
                          \/ stack[i].kind \in SweepKinds /\ k <= stack[i].at
Pending ==
  \A c \in Cleanups :
    /\ ran[c] <= 1
    /\ home[c] # None /\ ran[c] = 0 =>
         \E x \in Scopes : \E k \in 1..Len(cleanups[x]) : cleanups[x][k] = c /\ WillSweep(x, k)

CInv == OneArray /\ Swept /\ Pending
DInv == Contexts /\ Trees /\ Attached /\ Loops /\ CInv /\ ~panicked

-----------------------------------------------------------------------------
(* What is in force                                                        *)

LEMMA InForceKept ==
  ASSUME TypeOK, NEW K, SameFrames(K), NEW v, InForce(stack, K, v)
  PROVE  InForce(stack', K, v)
  <1>1. /\ \A i \in 1..Len(stack') : stack'[i].kind \in K =>
             i \in 1..Len(stack) /\ stack[i].kind \in K /\ stack[i].prev = stack'[i].prev
        /\ \A i \in 1..Len(stack) : stack[i].kind \in K =>
             i \in 1..Len(stack') /\ stack'[i].kind \in K /\ stack[i].of = stack'[i].of
    BY DEF SameFrames, Levels
  <1> QED BY <1>1 DEF InForce

LEMMA InForcePushed ==
  ASSUME TypeOK, NEW K, NEW v, InForce(stack, K, v), NEW f, Pushed(f), f.kind \in K, f.prev = v
  PROVE  InForce(stack', K, f.of)
  <1> DEFINE n == Len(stack)
  <1>1. /\ \A i \in 1..Len(stack') : i \in 1..n \/ i = n + 1
        /\ \A i \in 1..n : i \in 1..Len(stack') /\ stack'[i] = stack[i] /\ i < n + 1
        /\ n + 1 \in 1..Len(stack') /\ stack'[n + 1] = f
    <2>1. n \in Nat /\ Len(stack') = n + 1
      BY LevelFacts DEF Pushed
    <2>2. /\ \A i \in 1..Len(stack') : i \in 1..n \/ i = n + 1
          /\ \A i \in 1..n : i \in 1..Len(stack') /\ i < n + 1
          /\ n + 1 \in 1..Len(stack')
      BY <2>1
    <2> QED BY <2>2 DEF Pushed, Levels
  <1> HIDE DEF n
  <1>2. \A i \in 1..Len(stack') : stack'[i].kind \in K /\ stack'[i].prev # None =>
          \E j \in 1..Len(stack') : j < i /\ stack'[j].kind \in K /\ stack'[j].of = stack'[i].prev
    <2> SUFFICES ASSUME NEW i \in 1..Len(stack'), stack'[i].kind \in K, stack'[i].prev # None
                 PROVE  \E j \in 1..Len(stack') :
                          j < i /\ stack'[j].kind \in K /\ stack'[j].of = stack'[i].prev
      OBVIOUS
    <2>1. CASE i \in 1..n
      BY <1>1, <2>1 DEF InForce, n
    <2>2. CASE i = n + 1
      BY <1>1, <2>2 DEF InForce, n
    <2> QED BY <1>1, <2>1, <2>2
  <1>3. \E j \in 1..Len(stack') : stack'[j].kind \in K /\ stack'[j].of = f.of
    BY <1>1
  <1> QED BY <1>2, <1>3 DEF InForce

LEMMA InForcePopped ==
  ASSUME TypeOK, NEW K, NEW v, InForce(stack, K, v), PoppedOff, Top.kind \in K
  PROVE  InForce(stack', K, Top.prev)
  <1> DEFINE n == Len(stack)
  <1>1. /\ \A i \in 1..Len(stack') : i \in 1..n /\ i < n /\ stack'[i] = stack[i]
        /\ \A i \in 1..n, j \in 1..n : j < i => j \in 1..Len(stack')
        /\ n \in 1..n /\ stack[n] = Top
    <2>1. n \in Nat /\ n >= 1 /\ Len(stack') = n - 1
      BY LevelFacts DEF PoppedOff
    <2>2. /\ \A i \in 1..Len(stack') : i \in 1..n /\ i < n /\ i \in 1..n-1
          /\ \A i \in 1..n, j \in 1..n : j < i => j \in 1..Len(stack')
          /\ n \in 1..n
      BY <2>1
    <2> QED BY <2>2 DEF PoppedOff, Top
  <1> HIDE DEF n
  <1>2. \A i \in 1..n : stack[i].kind \in K /\ stack[i].prev # None =>
          \E j \in 1..Len(stack') : j < i /\ stack'[j].kind \in K /\ stack'[j].of = stack[i].prev
    BY <1>1 DEF InForce, n
  <1> QED BY <1>1, <1>2 DEF InForce

LEMMA InForceSwapped ==
  ASSUME TypeOK, NEW K, NEW v, InForce(stack, K, v), NEW f, Swapped(f), Top.kind \notin K,
         f.kind \in K, f.prev = v
  PROVE  InForce(stack', K, f.of)
  <1> DEFINE n == Len(stack)
  <1>1. /\ \A i \in 1..n : i = n \/ (i < n /\ stack'[i] = stack[i])
        /\ n \in 1..n /\ stack[n] = Top /\ Len(stack') = n /\ stack'[n] = f
    <2>1. n \in Nat /\ n >= 1 /\ Len(stack') = n
      BY LevelFacts DEF Swapped
    <2>2. /\ \A i \in 1..n : i = n \/ (i < n /\ i \in 1..n-1)
          /\ n \in 1..n
      BY <2>1
    <2> QED BY <2>1, <2>2 DEF Swapped, Top
  <1> HIDE DEF n
  <1>2. ASSUME NEW u, \E j \in 1..n : stack[j].kind \in K /\ stack[j].of = u
        PROVE  \E j \in 1..n : j < n /\ stack'[j].kind \in K /\ stack'[j].of = u
    BY <1>1, <1>2
  <1>3. ASSUME NEW i \in 1..n, stack'[i].kind \in K, stack'[i].prev # None
        PROVE  \E j \in 1..n : j < i /\ stack'[j].kind \in K /\ stack'[j].of = stack'[i].prev
    <2>1. CASE i = n
      BY <1>1, <1>2, <1>3, <2>1 DEF InForce, n
    <2>2. CASE i # n
      <3>1. i < n /\ stack'[i] = stack[i]
        BY <1>1, <2>2
      <3>2. PICK j \in 1..n : j < i /\ stack[j].kind \in K /\ stack[j].of = stack[i].prev
        BY <1>3, <3>1 DEF InForce, n
      <3>3. j # n
        BY <1>1, <3>2
      <3> QED BY <1>1, <3>1, <3>2, <3>3
    <2> QED BY <2>1, <2>2
  <1>4. \E j \in 1..n : stack'[j].kind \in K /\ stack'[j].of = f.of
    BY <1>1
  <1> QED BY <1>1, <1>3, <1>4 DEF InForce

-----------------------------------------------------------------------------
(* The owner an effect is created under                                    *)

LEMMA RememberedKept ==
  ASSUME TypeOK, Remembered, SameFrames(OwnerKinds \cup {"first"}), owner' = owner,
         \A i \in Levels : stack[i].kind = "first" => parent'[stack[i].of] = parent[stack[i].of]
  PROVE  Remembered'
  <1> SUFFICES ASSUME NEW i \in Levels', stack'[i].kind = "first"
               PROVE  /\ OwnerAbove(i)' = {} => owner' = parent'[stack'[i].of]
                      /\ \A j \in OwnerAbove(i)' :
                           (\A k \in OwnerAbove(i)' : j <= k) => stack'[j].prev = parent'[stack'[i].of]
    BY DEF Remembered
  <1>1. i \in Levels /\ stack[i].kind = "first" /\ stack'[i].of = stack[i].of
    BY DEF SameFrames
  <1>2. OwnerAbove(i)' = OwnerAbove(i)
    BY DEF OwnerAbove, SameFrames
  <1>3. \A j \in OwnerAbove(i) : stack'[j].prev = stack[j].prev
    BY DEF OwnerAbove, SameFrames
  <1> QED BY <1>1, <1>2, <1>3 DEF Remembered

LEMMA RememberedCall ==
  ASSUME TypeOK, Remembered, NEW f, Pushed(f), f.kind \in OwnerKinds, f.prev = owner,
         \A i \in Levels : stack[i].kind = "first" => parent'[stack[i].of] = parent[stack[i].of]
  PROVE  Remembered'
  <1> DEFINE n == Len(stack)
  <1>1. /\ \A i \in Levels' : i \in Levels \/ i = n + 1
        /\ \A i \in Levels : i \in Levels' /\ stack'[i] = stack[i] /\ i < n + 1 /\ i \in Nat
        /\ n + 1 \in Levels' /\ stack'[n + 1] = f /\ n \in Nat
    <2>1. n \in Nat /\ Len(stack') = n + 1
      BY LevelFacts DEF Pushed
    <2>2. /\ \A i \in Levels' : i \in Levels \/ i = n + 1
          /\ \A i \in Levels : i \in Levels' /\ i < n + 1 /\ i \in Nat
          /\ n + 1 \in Levels'
      BY <2>1 DEF Levels
    <2> QED BY <2>1, <2>2 DEF Pushed
  <1> HIDE DEF n
  <1> SUFFICES ASSUME NEW i \in Levels', stack'[i].kind = "first"
               PROVE  /\ OwnerAbove(i)' = {} => owner' = parent'[stack'[i].of]
                      /\ \A j \in OwnerAbove(i)' :
                           (\A k \in OwnerAbove(i)' : j <= k) => stack'[j].prev = parent'[stack'[i].of]
    BY DEF Remembered
  <1>2. i \in Levels /\ stack[i].kind = "first" /\ parent'[stack'[i].of] = parent[stack[i].of]
    BY <1>1 DEF OwnerKinds
  <1>3. OwnerAbove(i)' = OwnerAbove(i) \cup {n + 1}
    BY <1>1, <1>2 DEF OwnerAbove
  <1>4. ASSUME NEW j \in OwnerAbove(i)', \A k \in OwnerAbove(i)' : j <= k
        PROVE  stack'[j].prev = parent'[stack'[i].of]
    <2>1. CASE OwnerAbove(i) = {}
      <3>1. j = n + 1
        BY <1>3, <2>1
      <3> QED BY <1>1, <1>2, <2>1, <3>1 DEF Remembered
    <2>2. ASSUME NEW m \in OwnerAbove(i)
          PROVE  stack'[j].prev = parent'[stack'[i].of]
      <3>1. m \in Levels /\ j <= m /\ m < n + 1
        BY <1>1, <1>3, <1>4 DEF OwnerAbove
      <3>2. j # n + 1
        BY <1>1, <3>1
      <3>3. j \in OwnerAbove(i) /\ \A k \in OwnerAbove(i) : j <= k
        BY <1>3, <1>4, <3>2
      <3>4. j \in Levels
        BY <3>3 DEF OwnerAbove
      <3> QED BY <1>1, <1>2, <3>3, <3>4 DEF Remembered
    <2> QED BY <2>1, <2>2
  <1> QED BY <1>3, <1>4

LEMMA RememberedReturn ==
  ASSUME TypeOK, Remembered, PoppedOff, Top.kind \in OwnerKinds, owner' = Top.prev,
         parent' = parent
  PROVE  Remembered'
  <1> DEFINE n == Len(stack)
  <1>1. /\ \A i \in Levels' : i \in Levels /\ i < n /\ stack'[i] = stack[i]
        /\ \A i \in Levels : i = n \/ (i \in Levels' /\ i < n)
        /\ n \in Levels /\ stack[n] = Top /\ n \in Nat /\ \A i \in Levels : i \in Nat
    <2>1. n \in Nat /\ n >= 1 /\ Len(stack') = n - 1
      BY LevelFacts DEF PoppedOff
    <2>2. /\ \A i \in Levels' : i \in Levels /\ i < n /\ i \in 1..n-1
          /\ \A i \in Levels : i = n \/ (i \in Levels' /\ i < n)
          /\ n \in Levels /\ \A i \in Levels : i \in Nat
      BY <2>1 DEF Levels
    <2> QED BY <2>1, <2>2 DEF PoppedOff, Top
  <1> HIDE DEF n
  <1> SUFFICES ASSUME NEW i \in Levels', stack'[i].kind = "first"
               PROVE  /\ OwnerAbove(i)' = {} => owner' = parent'[stack'[i].of]
                      /\ \A j \in OwnerAbove(i)' :
                           (\A k \in OwnerAbove(i)' : j <= k) => stack'[j].prev = parent'[stack'[i].of]
    BY DEF Remembered
  <1>2. i \in Levels /\ stack[i].kind = "first" /\ parent'[stack'[i].of] = parent[stack[i].of]
    BY <1>1
  <1>3. OwnerAbove(i) = OwnerAbove(i)' \cup {n} /\ \A j \in OwnerAbove(i)' : j < n /\ j \in Nat
    BY <1>1, <1>2 DEF OwnerAbove
  <1>4. ASSUME OwnerAbove(i)' = {} PROVE owner' = parent'[stack'[i].of]
    <2>1. OwnerAbove(i) = {n} /\ n <= n
      BY <1>1, <1>3, <1>4
    <2> QED BY <1>1, <1>2, <2>1 DEF Remembered
  <1>5. ASSUME NEW j \in OwnerAbove(i)', \A k \in OwnerAbove(i)' : j <= k
        PROVE  stack'[j].prev = parent'[stack'[i].of]
    <2>1. j <= n
      BY <1>1, <1>3
    <2>2. j \in OwnerAbove(i) /\ \A k \in OwnerAbove(i) : j <= k
      BY <1>3, <1>5, <2>1
    <2>3. j \in Levels'
      BY DEF OwnerAbove
    <2> QED BY <1>1, <1>2, <2>2, <2>3 DEF Remembered
  <1> QED BY <1>4, <1>5

LEMMA RememberedCreate ==
  ASSUME TypeOK, Remembered, NEW f, Pushed(f), f.kind = "first", parent'[f.of] = owner,
         owner' = owner,
         \A i \in Levels : stack[i].kind = "first" => parent'[stack[i].of] = parent[stack[i].of]
  PROVE  Remembered'
  <1> DEFINE n == Len(stack)
  <1>1. /\ \A i \in Levels' : i \in Levels \/ i = n + 1
        /\ \A i \in Levels : i \in Levels' /\ stack'[i] = stack[i] /\ i < n + 1 /\ i \in Nat
        /\ n + 1 \in Levels' /\ stack'[n + 1] = f /\ n \in Nat
    <2>1. n \in Nat /\ Len(stack') = n + 1
      BY LevelFacts DEF Pushed
    <2>2. /\ \A i \in Levels' : i \in Levels \/ i = n + 1
          /\ \A i \in Levels : i \in Levels' /\ i < n + 1 /\ i \in Nat
          /\ n + 1 \in Levels'
      BY <2>1 DEF Levels
    <2> QED BY <2>1, <2>2 DEF Pushed
  <1> HIDE DEF n
  <1> SUFFICES ASSUME NEW i \in Levels', stack'[i].kind = "first"
               PROVE  /\ OwnerAbove(i)' = {} => owner' = parent'[stack'[i].of]
                      /\ \A j \in OwnerAbove(i)' :
                           (\A k \in OwnerAbove(i)' : j <= k) => stack'[j].prev = parent'[stack'[i].of]
    BY DEF Remembered
  <1>2. CASE i \in Levels
    <2>1. OwnerAbove(i)' = OwnerAbove(i)
      BY <1>1, <1>2 DEF OwnerAbove, OwnerKinds
    <2>2. \A j \in OwnerAbove(i) : stack'[j] = stack[j]
      BY <1>1 DEF OwnerAbove
    <2>3. stack'[i] = stack[i]
      BY <1>1, <1>2
    <2> QED BY <1>2, <2>1, <2>2, <2>3 DEF Remembered
  <1>3. CASE i = n + 1
    <2>1. OwnerAbove(i)' = {}
      <3>1. \A j \in Levels' : ~(j > i)
        BY <1>1, <1>3
      <3> QED BY <3>1 DEF OwnerAbove
    <2> QED BY <1>1, <1>3, <2>1
  <1> QED BY <1>1, <1>2, <1>3

\* Calls and loops of the engine, and what user code does without calling: the frames of
\* code and what is in force stay.
LEMMA ContextsKept ==
  ASSUME TypeOK, Contexts, SameFrames(CodeKinds), owner' = owner, tracking' = tracking,
         \A i \in Levels : stack[i].kind = "first" => parent'[stack[i].of] = parent[stack[i].of],
         \A i \in Levels : stack[i].kind \in OwnerKinds => life'[stack[i].of] = "live",
         \A i \in Levels : stack[i].kind = "run" => life'[stack[i].of] \in {"creating", "live"}
  PROVE  Contexts'
  <1>1. \A K \in SUBSET CodeKinds : SameFrames(K)
    BY DEF SameFrames
  <1>2. OwnerKinds \in SUBSET CodeKinds /\ EffectKinds \in SUBSET CodeKinds
        /\ OwnerKinds \cup {"first"} \in SUBSET CodeKinds
    BY DEF OwnerKinds, EffectKinds, CodeKinds
  <1>3. InForce(stack', OwnerKinds, owner) /\ InForce(stack', EffectKinds, tracking)
    BY <1>1, <1>2, InForceKept DEF Contexts
  <1>4. Remembered'
    BY <1>1, <1>2, RememberedKept DEF Contexts
  <1>5. Alive'
    <2>1. \A i \in Levels' : stack'[i].kind \in CodeKinds =>
            i \in Levels /\ stack'[i].kind = stack[i].kind /\ stack'[i].of = stack[i].of
      BY DEF SameFrames
    <2>2. \A i \in Levels' : stack'[i].kind \in OwnerKinds => life'[stack'[i].of] = "live"
      BY <1>2, <2>1
    <2>3. \A i \in Levels' : stack'[i].kind = "run" => life'[stack'[i].of] \in {"creating", "live"}
      <3>1. "run" \in CodeKinds
        BY DEF CodeKinds
      <3> QED BY <2>1, <3>1
    <2> QED BY <2>2, <2>3 DEF Alive, Active
  <1> QED BY <1>3, <1>4, <1>5 DEF Contexts

-----------------------------------------------------------------------------
(* What is under a scope                                                   *)

LEMMA UnderFacts ==
  /\ \A x : Under(x) \subseteq Scopes
  /\ \A x \in Scopes : x \in Under(x)
  /\ \A x, y : \A z \in Scopes : y \in Under(x) /\ parent[z] = y => z \in Under(x)
  /\ \A x, y : y \in Under(x) => Under(y) \subseteq Under(x)
  BY DEF Under, Closed

\* Whatever else happens, the frames of code and what is in force stay as they are.
PlainAction ==
  \/ \E e \in Effects : DeferEffect(e) \/ Rerun(e) \/ DisposeEffect(e)
  \/ \E o \in Owners : DisposeOwner(o)
  \/ \E c \in Cleanups : OnCleanup(c) \/ OnOwnerCleanup(c)
  \/ Microtask \/ CallCleanup \/ CleanupReturn \/ WipeReturn
  \/ DisposeChild \/ CallDisposer \/ NextLoop \/ DisposeReturn \/ OutOfRange
  \/ UNCHANGED vars

LEMMA PlainFrames ==
  ASSUME IInv, PlainAction
  PROVE  SameFrames(CodeKinds) /\ owner' = owner /\ tracking' = tracking
  <1>0. TypeOK
    BY DEF IInv
  <1>1. owner' = owner /\ tracking' = tracking
    BY DEF PlainAction, DeferEffect, Rerun, DisposeEffect, DisposeOwner, OnCleanup, OnOwnerCleanup,
           AddCleanup, Microtask, CallCleanup, CleanupReturn, WipeReturn, DisposeChild,
           CallDisposer, NextLoop, DisposeReturn, OutOfRange, vars
  <1> SUFFICES SameFrames(CodeKinds)
    BY <1>1
  <1>2. ASSUME NEW f, f.kind \in EngineKinds \cup {"call"},
               Pushed(f) \/ SteppedInto(f) \/ (Swapped(f) /\ Top.kind \in {"children", "disposers"})
        PROVE  SameFrames(CodeKinds)
    <2>1. f.kind \notin CodeKinds
      BY <1>2 DEF EngineKinds, CodeKinds
    <2>2. Top.kind \in {"children", "disposers"} => Top.kind \notin CodeKinds
      BY DEF CodeKinds
    <2> QED BY <1>0, <1>2, <2>1, <2>2, FramesKept
  <1>3. CASE stack' = stack
    BY <1>0, <1>3, FramesKept
  <1>4. ASSUME NEW e \in Effects, Rerun(e) \/ DisposeEffect(e) \/ Microtask
        PROVE  SameFrames(CodeKinds)
    <2>1. \/ stack' = stack
          \/ \E x \in Effects : Pushed(Call("clean", x, Len(cleanups[x]), None))
          \/ Pushed(Call("wipe", e, Len(cleanups[e]), None))
      BY <1>4, UserMoves
    <2> QED BY <1>2, <1>3, <2>1, CallFields DEF EngineKinds
  <1>5. ASSUME NEW o \in Owners, DisposeOwner(o)
        PROVE  SameFrames(CodeKinds)
    BY <1>2, <1>5, UserMoves, CallFields DEF EngineKinds, FirstLoop
  <1>6. CASE CleanupReturn \/ WipeReturn \/ DisposeReturn
    <2>1. PoppedOff /\ Top.kind \notin CodeKinds
      BY <1>6, EngineMoves DEF CleanupReturn, WipeReturn, DisposeReturn, Running, CodeKinds
    <2> QED BY <1>0, <2>1, FramesKept
  <1>7. CASE NextLoop
    BY <1>2, <1>7, EngineMoves, CallFields DEF EngineKinds
  <1>8. CASE CallCleanup
    BY <1>2, <1>8, EngineMoves, CallFields
  <1>9. CASE CallDisposer
    <2> DEFINE e == disposers[Top.of][Top.at]
    <2>1. SteppedInto(Call("wipe", e, Len(cleanups[e]), None))
      BY <1>9, EngineMoves
    <2> HIDE DEF e
    <2> QED BY <1>2, <2>1, CallFields DEF EngineKinds
  <1>10. CASE DisposeChild
    <2> DEFINE child == children[Top.of][Top.at]
    <2>1. SteppedInto(FirstLoop(child)) \/ SteppedDown
      BY <1>10, EngineMoves
    <2> HIDE DEF child
    <2>2. CASE SteppedDown
      BY <1>0, <2>2, FramesKept
    <2>3. CASE SteppedInto(FirstLoop(child))
      BY <1>2, <2>3, CallFields DEF EngineKinds, FirstLoop
    <2> QED BY <2>1, <2>2, <2>3
  <1>11. Microtask => \E e \in Effects : TRUE
    <2>1. Microtask => Head(microtasks) \in Effects
      BY <1>0, HeadTailProperties DEF Microtask, TypeOK
    <2> QED BY <2>1
  <1>12. CASE \/ \E e \in Effects : DeferEffect(e)
              \/ \E c \in Cleanups : OnCleanup(c) \/ OnOwnerCleanup(c)
              \/ OutOfRange \/ UNCHANGED vars
    BY <1>3, <1>12 DEF DeferEffect, OnCleanup, OnOwnerCleanup, AddCleanup, OutOfRange, vars
  <1> QED BY <1>4, <1>5, <1>6, <1>7, <1>8, <1>9, <1>10, <1>11, <1>12 DEF PlainAction

\* Code does not run in what is disposed.
Outside(x) == \A i \in Levels : stack[i].kind \in CodeKinds => stack[i].of # x

\* What a loop over children or disposers is at.
LEMMA LoopTarget ==
  ASSUME IInv, Trees, Loops
  PROVE  /\ DisposeChild =>
              /\ Top.kind = "children" /\ Len(stack) \in Levels /\ Top.of \in Owners
              /\ Top.at \in 1..Len(children[Top.of]) /\ children[Top.of][Top.at] \in Owners
              /\ parent[children[Top.of][Top.at]] = Top.of
              /\ children[Top.of][Top.at] \in Under(Top.of) /\ Outside(children[Top.of][Top.at])
         /\ CallDisposer =>
              /\ Top.kind = "disposers" /\ Len(stack) \in Levels /\ Top.of \in Owners
              /\ Top.at \in 1..Len(disposers[Top.of]) /\ disposers[Top.of][Top.at] \in Effects
              /\ parent[disposers[Top.of][Top.at]] = Top.of
              /\ disposers[Top.of][Top.at] \in Under(Top.of) /\ Outside(disposers[Top.of][Top.at])
  <1>0. TypeOK
    BY DEF IInv
  <1>1. ASSUME DisposeChild \/ CallDisposer
        PROVE  /\ stack # <<>> /\ Len(stack) \in Levels /\ Top.of \in Owners /\ Top.of \in Under(Top.of)
               /\ \A x \in Under(Top.of) : Outside(x)
    <2>1. stack # <<>> /\ Top.kind \in LoopKinds /\ Top.of \in Owners
      BY <1>1, TopFacts DEF DisposeChild, CallDisposer, Running, Sound, LoopKinds
    <2>2. Len(stack) \in Levels
      <3>1. Len(stack) \in Nat /\ Len(stack) # 0
        BY <1>0, <2>1, LevelFacts
      <3> QED BY <3>1 DEF Levels
    <2>3. Top.of \in Under(Top.of)
      BY <2>1, UnderFacts DEF Scopes
    <2> QED BY <2>1, <2>2, <2>3 DEF Loops, Apart, Outside, Top
  <1>2. ASSUME DisposeChild
        PROVE  /\ Top.kind = "children" /\ Len(stack) \in Levels /\ Top.of \in Owners
               /\ Top.at \in 1..Len(children[Top.of]) /\ children[Top.of][Top.at] \in Owners
               /\ parent[children[Top.of][Top.at]] = Top.of
               /\ children[Top.of][Top.at] \in Under(Top.of) /\ Outside(children[Top.of][Top.at])
    <2>1. Top.kind = "children" /\ Top.at \in 1..Len(children[Top.of])
      BY <1>2 DEF DisposeChild, Running
    <2>2. children[Top.of][Top.at] \in Owners
      BY <1>0, <1>1, <1>2, <2>1, ElementOfSeq DEF TypeOK
    <2>3. parent[children[Top.of][Top.at]] = Top.of
      BY <1>1, <1>2, <2>1 DEF Trees
    <2>4. children[Top.of][Top.at] \in Under(Top.of)
      BY <1>1, <1>2, <2>2, <2>3, UnderFacts DEF Scopes
    <2> QED BY <1>1, <1>2, <2>1, <2>2, <2>3, <2>4
  <1>3. ASSUME CallDisposer
        PROVE  /\ Top.kind = "disposers" /\ Len(stack) \in Levels /\ Top.of \in Owners
               /\ Top.at \in 1..Len(disposers[Top.of]) /\ disposers[Top.of][Top.at] \in Effects
               /\ parent[disposers[Top.of][Top.at]] = Top.of
               /\ disposers[Top.of][Top.at] \in Under(Top.of) /\ Outside(disposers[Top.of][Top.at])
    <2>1. Top.kind = "disposers" /\ Top.at \in 1..Len(disposers[Top.of])
      BY <1>3 DEF CallDisposer, Running
    <2>2. disposers[Top.of][Top.at] \in Effects
      BY <1>0, <1>1, <1>3, <2>1, ElementOfSeq DEF TypeOK
    <2>3. parent[disposers[Top.of][Top.at]] = Top.of
      BY <1>1, <1>3, <2>1 DEF Trees
    <2>4. disposers[Top.of][Top.at] \in Under(Top.of)
      BY <1>1, <1>3, <2>2, <2>3, UnderFacts DEF Scopes
    <2> QED BY <1>1, <1>3, <2>1, <2>2, <2>3, <2>4
  <1> QED BY <1>2, <1>3

LEMMA OutsideOrderly ==
  ASSUME IInv, Orderly
  PROVE  /\ \A o \in Owners : DisposeOwner(o) => Outside(o)
         /\ \A e \in Effects : DisposeEffect(e) => Outside(e)
  BY UnderFacts DEF Orderly, Inside, Outside, Scopes

\* The scopes of the frames of code.
LEMMA CodeFrames ==
  ASSUME IInv, Creating, Alive
  PROVE  \A i \in Levels : stack[i].kind \in CodeKinds =>
           /\ stack[i].of \in Scopes /\ life[stack[i].of] \in {"creating", "live"}
           /\ stack[i].kind \in OwnerKinds => stack[i].of \in Owners
           /\ stack[i].kind = "first" => stack[i].of \in Effects
  <1>1. \A i \in Levels : Sound(stack[i])
    BY DEF IInv, Calls, Levels
  <1>2. \A i \in Levels : stack[i].kind \in CodeKinds =>
          \/ stack[i].kind \in OwnerKinds /\ stack[i].of \in Owners
          \/ stack[i].kind \in EffectKinds /\ stack[i].of \in Effects
    BY <1>1 DEF Sound, CodeKinds, OwnerKinds, EffectKinds
  <1>3. \A i \in Levels : stack[i].kind \in CodeKinds => life[stack[i].of] \in {"creating", "live"}
    BY DEF Creating, Alive, Active, CodeKinds, OwnerKinds
  <1> QED BY <1>2, <1>3 DEF Scopes, OwnerKinds, EffectKinds

\* Things change only outside of the code that runs.
LEMMA ContextsPlain ==
  ASSUME IInv, Creating, Contexts, PlainAction,
         NEW x, \A y \in Scopes : y # x => life'[y] = life[y] /\ parent'[y] = parent[y],
         Outside(x)
  PROVE  Contexts'
  <1>1. \A i \in Levels : stack[i].kind \in CodeKinds =>
          /\ stack[i].of \in Scopes /\ stack[i].of # x
          /\ life'[stack[i].of] = life[stack[i].of] /\ parent'[stack[i].of] = parent[stack[i].of]
    BY CodeFrames DEF Contexts, Outside
  <1>2. /\ "first" \in CodeKinds /\ "run" \in CodeKinds /\ OwnerKinds \subseteq CodeKinds
    BY DEF CodeKinds, OwnerKinds
  <1>3. Alive
    BY DEF Contexts
  <1>4. /\ \A i \in Levels : stack[i].kind = "first" => parent'[stack[i].of] = parent[stack[i].of]
        /\ \A i \in Levels : stack[i].kind \in OwnerKinds => life'[stack[i].of] = "live"
        /\ \A i \in Levels : stack[i].kind = "run" => life'[stack[i].of] \in {"creating", "live"}
    BY <1>1, <1>2, <1>3 DEF Alive, Active
  <1> QED BY <1>4, PlainFrames, ContextsKept DEF IInv

\* A call, return or change of the innermost frame adds at most the frame f.
LEMMA AliveKept ==
  ASSUME IInv, Creating, Alive,
         NEW f, \/ Pushed(f) \/ Swapped(f) \/ PoppedOff,
         PoppedOff \/ (f.kind \in OwnerKinds => life'[f.of] = "live"),
         PoppedOff \/ (f.kind = "run" => life'[f.of] \in {"creating", "live"}),
         \A y \in Scopes : life[y] = "live" => life'[y] = "live",
         \A y \in Scopes : life[y] = "creating" => life'[y] \in {"creating", "live"}
  PROVE  Alive'
  <1> DEFINE n == Len(stack)
  <1>1. \A i \in Levels' : \/ i \in Levels /\ stack'[i] = stack[i]
                           \/ stack'[i] = f /\ ~PoppedOff
    <2>1. n \in Nat
      BY LevelFacts DEF IInv
    <2>2. CASE Pushed(f)
      <3>1. /\ \A i \in Levels' : i \in Levels \/ i = n + 1
            /\ ~PoppedOff
        BY <2>1, <2>2 DEF Pushed, Levels, PoppedOff
      <3> QED BY <2>2, <3>1 DEF Pushed
    <2>3. CASE Swapped(f)
      <3>1. /\ \A i \in Levels' : i \in Levels /\ (i \in 1..n-1 \/ i = n)
            /\ ~PoppedOff
        BY <2>1, <2>3 DEF Swapped, Levels, PoppedOff
      <3> QED BY <2>3, <3>1 DEF Swapped
    <2>4. CASE PoppedOff
      <3>1. \A i \in Levels' : i \in Levels /\ i \in 1..n-1
        BY <2>1, <2>4 DEF PoppedOff, Levels
      <3> QED BY <2>4, <3>1 DEF PoppedOff
    <2> QED BY <2>2, <2>3, <2>4
  <1>2. OwnerKinds \subseteq CodeKinds /\ "run" \in CodeKinds /\ "run" \notin OwnerKinds
    BY DEF OwnerKinds, CodeKinds
  <1>3. \A i \in Levels : stack[i].kind \in OwnerKinds => life'[stack[i].of] = "live"
    BY <1>2, CodeFrames DEF Alive
  <1>4. \A i \in Levels : stack[i].kind = "run" => life'[stack[i].of] \in {"creating", "live"}
    BY <1>2, CodeFrames DEF Alive, Active
  <1> QED BY <1>1, <1>3, <1>4 DEF Alive, Active

LEMMA OwnerKindsApart ==
  /\ OwnerKinds \cap EffectKinds = {} /\ "first" \notin OwnerKinds /\ "run" \notin OwnerKinds
  /\ "clean" \notin OwnerKinds /\ "clean" \notin EffectKinds
  /\ "first" \in EffectKinds /\ "run" \in EffectKinds
  BY DEF OwnerKinds, EffectKinds

\* The other steps are calls of code and their returns.
LEMMA ContextsOwner ==
  ASSUME IInv, Creating, Contexts, NEW o \in Owners, NEW f,
         Pushed(f), f.kind \in OwnerKinds, f.of = o, f.prev = owner,
         owner' = o, tracking' = tracking,
         \A y \in Scopes : y # o => life'[y] = life[y] /\ parent'[y] = parent[y],
         life'[o] = "live"
  PROVE  Contexts'
  <1>0. /\ TypeOK /\ Alive /\ Remembered
        /\ InForce(stack, OwnerKinds, owner) /\ InForce(stack, EffectKinds, tracking)
    BY DEF IInv, Contexts
  <1>1. InForce(stack', OwnerKinds, o)
    BY <1>0, InForcePushed
  <1>2. InForce(stack', EffectKinds, tracking)
    <2>1. SameFrames(EffectKinds)
      BY <1>0, OwnerKindsApart, FramesKept
    <2> QED BY <1>0, <2>1, InForceKept
  <1>3. Remembered'
    <2>1. \A i \in Levels : stack[i].kind = "first" =>
            stack[i].of \in Effects /\ stack[i].of \in Scopes /\ stack[i].of # o
      <3>1. "first" \in CodeKinds
        BY DEF CodeKinds
      <3> QED BY <1>0, <3>1, CodeFrames, LifecycleAssumption
    <2> QED BY <1>0, <2>1, RememberedCall
  <1>4. Alive'
    BY <1>0, OwnerKindsApart, AliveKept DEF Scopes
  <1> QED BY <1>1, <1>2, <1>3, <1>4 DEF Contexts

LEMMA ContextsRender ==
  ASSUME IInv, Creating, Contexts, NEW e \in Effects, RenderEffect(e)
  PROVE  Contexts'
  <1> DEFINE f == Call("first", e, 0, tracking)
  <1>0. /\ TypeOK /\ Alive /\ Remembered
        /\ InForce(stack, OwnerKinds, owner) /\ InForce(stack, EffectKinds, tracking)
    BY DEF IInv, Contexts
  <1>1. /\ life[e] = "absent" /\ owner' = owner /\ tracking' = e /\ e \in Scopes
        /\ parent' = [parent EXCEPT ![e] = owner] /\ life' = [life EXCEPT ![e] = "creating"]
    BY DEF RenderEffect, Scopes
  <1>2. Pushed(f) /\ f.kind = "first" /\ f.of = e /\ f.prev = tracking
    BY UserMoves, CallFields
  <1> HIDE DEF f
  <1>3. /\ \A y \in Scopes : y # e => life'[y] = life[y] /\ parent'[y] = parent[y]
        /\ parent'[e] = owner /\ life'[e] = "creating"
    BY <1>0, <1>1 DEF TypeOK
  <1>4. InForce(stack', EffectKinds, e)
    BY <1>0, <1>2, OwnerKindsApart, InForcePushed
  <1>5. InForce(stack', OwnerKinds, owner)
    <2>1. SameFrames(OwnerKinds)
      BY <1>0, <1>2, OwnerKindsApart, FramesKept
    <2> QED BY <1>0, <2>1, InForceKept
  <1>6. Remembered'
    <2>1. \A i \in Levels : stack[i].kind = "first" => stack[i].of \in Scopes /\ stack[i].of # e
      <3>1. "first" \in CodeKinds
        BY DEF CodeKinds
      <3> QED BY <1>0, <1>1, <3>1, CodeFrames
    <2> QED BY <1>0, <1>1, <1>2, <1>3, <2>1, RememberedCreate
  <1>7. Alive'
    BY <1>0, <1>1, <1>2, <1>3, OwnerKindsApart, AliveKept
  <1> QED BY <1>1, <1>4, <1>5, <1>6, <1>7 DEF Contexts

LEMMA ContextsReturn ==
  ASSUME IInv, Creating, Contexts, OwnerReturn \/ FirstReturn \/ RunReturn
  PROVE  Contexts'
  <1>0. /\ TypeOK /\ Alive /\ Remembered
        /\ InForce(stack, OwnerKinds, owner) /\ InForce(stack, EffectKinds, tracking)
    BY DEF IInv, Contexts
  <1>1. PoppedOff /\ parent' = parent
    BY EngineMoves DEF OwnerReturn, FirstReturn, RunReturn, tree
  <1>2. /\ \A y \in Scopes : life[y] = "live" => life'[y] = "live"
        /\ \A y \in Scopes : life[y] = "creating" => life'[y] \in {"creating", "live"}
    <2>1. CASE FirstReturn
      BY <1>0, <2>1 DEF FirstReturn, TypeOK
    <2>2. CASE OwnerReturn \/ RunReturn
      BY <2>2 DEF OwnerReturn, RunReturn
    <2> QED BY <2>1, <2>2
  <1>3. Alive'
    BY <1>0, <1>1, <1>2, AliveKept
  <1>4. CASE OwnerReturn
    <2>1. Top.kind \in OwnerKinds /\ owner' = Top.prev /\ tracking' = tracking
      BY <1>4 DEF OwnerReturn, Running, OwnerKinds, Previous
    <2>2. InForce(stack', OwnerKinds, Top.prev)
      BY <1>0, <1>1, <2>1, InForcePopped
    <2>3. SameFrames(EffectKinds)
      BY <1>0, <1>1, <2>1, OwnerKindsApart, FramesKept
    <2>4. InForce(stack', EffectKinds, tracking)
      BY <1>0, <2>3, InForceKept
    <2>5. Remembered'
      BY <1>0, <1>1, <2>1, RememberedReturn
    <2> QED BY <1>3, <2>1, <2>2, <2>4, <2>5 DEF Contexts
  <1>5. CASE FirstReturn \/ RunReturn
    <2>1. Top.kind \in EffectKinds /\ tracking' = Top.prev /\ owner' = owner
      BY <1>5 DEF FirstReturn, RunReturn, Running, EffectKinds, Previous
    <2>2. InForce(stack', EffectKinds, Top.prev)
      BY <1>0, <1>1, <2>1, InForcePopped
    <2>3. SameFrames(OwnerKinds)
      BY <1>0, <1>1, <2>1, OwnerKindsApart, FramesKept
    <2>4. InForce(stack', OwnerKinds, owner)
      BY <1>0, <2>3, InForceKept
    <2>5. Remembered'
      <3>1. \A i \in Levels' : i \in Levels /\ stack'[i] = stack[i] /\ i < Len(stack)
        <4>1. Len(stack) \in Nat
          BY <1>0, LevelFacts
        <4>2. \A i \in Levels' : i \in Levels /\ i \in 1..Len(stack)-1 /\ i < Len(stack)
          BY <1>1, <4>1 DEF PoppedOff, Levels
        <4> QED BY <1>1, <4>2 DEF PoppedOff
      <3>2. \A i \in Levels' : OwnerAbove(i)' = OwnerAbove(i)
        BY <2>3, <3>1 DEF OwnerAbove, SameFrames
      <3>3. \A i \in Levels' : \A j \in OwnerAbove(i)' : stack'[j] = stack[j]
        BY <3>1 DEF OwnerAbove
      <3> SUFFICES ASSUME NEW i \in Levels', stack'[i].kind = "first"
                   PROVE  /\ OwnerAbove(i)' = {} => owner' = parent'[stack'[i].of]
                          /\ \A j \in OwnerAbove(i)' :
                               (\A k \in OwnerAbove(i)' : j <= k) =>
                                  stack'[j].prev = parent'[stack'[i].of]
        BY DEF Remembered
      <3>4. i \in Levels /\ stack[i].kind = "first" /\ stack'[i] = stack[i]
        BY <3>1
      <3> QED BY <1>0, <1>1, <2>1, <3>2, <3>3, <3>4 DEF Remembered
    <2> QED BY <1>3, <2>1, <2>2, <2>4, <2>5 DEF Contexts
  <1> QED BY <1>4, <1>5

LEMMA ContextsRun ==
  ASSUME IInv, QInv, Contexts, RunStart
  PROVE  Contexts'
  <1> DEFINE f == Call("run", Top.of, 0, tracking)
  <1>0. /\ TypeOK /\ Alive /\ Remembered /\ Creating /\ CleanActive
        /\ InForce(stack, OwnerKinds, owner) /\ InForce(stack, EffectKinds, tracking)
    BY DEF IInv, QInv, Contexts
  <1>1. /\ stack # <<>> /\ Top.kind = "clean" /\ owner' = owner /\ tracking' = Top.of
        /\ parent' = parent /\ life' = life
    BY DEF RunStart, Running, tree
  <1>2. Swapped(f) /\ f.kind = "run" /\ f.of = Top.of /\ f.prev = tracking
    BY EngineMoves, CallFields
  <1> HIDE DEF f
  <1>3. Active(Top.of)
    <2>1. Len(stack) \in Nat /\ Len(stack) # 0
      BY <1>0, <1>1, LevelFacts
    <2>2. Len(stack) \in Levels
      BY <2>1 DEF Levels
    <2> QED BY <1>0, <1>1, <2>2 DEF CleanActive, Top
  <1>4. InForce(stack', EffectKinds, Top.of)
    BY <1>0, <1>1, <1>2, OwnerKindsApart, InForceSwapped
  <1>5. SameFrames(OwnerKinds) /\ SameFrames(OwnerKinds \cup {"first"})
    <2>1. /\ Top.kind \notin OwnerKinds \cup {"first"} /\ f.kind \notin OwnerKinds \cup {"first"}
      BY <1>1, <1>2, OwnerKindsApart
    <2> QED BY <1>0, <1>2, <2>1, FramesKept
  <1>6. InForce(stack', OwnerKinds, owner)
    BY <1>0, <1>5, InForceKept
  <1>7. Remembered'
    BY <1>0, <1>1, <1>5, RememberedKept
  <1>8. Alive'
    BY <1>0, <1>1, <1>2, <1>3, OwnerKindsApart, AliveKept DEF Active
  <1> QED BY <1>1, <1>4, <1>6, <1>7, <1>8 DEF Contexts

\* A scope that does not exist has no code that runs.
LEMMA OutsideAbsent ==
  ASSUME IInv, Creating, Alive
  PROVE  /\ \A x : life[x] = "absent" => Outside(x)
         /\ Outside(None)
  <1>1. None \notin Scopes
    BY LifecycleAssumption DEF Things
  <1> QED BY <1>1, CodeFrames DEF Outside

LEMMA ContextsStep ==
  ASSUME IInv, QInv, Contexts, Trees, Loops, Orderly, [Next]_vars
  PROVE  Contexts'
  <1>0. TypeOK /\ Creating /\ Alive
    BY DEF IInv, QInv, Contexts
  <1>a. None \notin Scopes
    BY LifecycleAssumption DEF Things
  <1>1. ASSUME PlainAction, life' = life, parent' = parent PROVE Contexts'
    BY <1>0, <1>1, <1>a, OutsideAbsent, ContextsPlain
  <1>2. ASSUME NEW x \in Scopes, NEW v, PlainAction, life' = [life EXCEPT ![x] = v], Outside(x),
               parent' = parent
        PROVE  Contexts'
    <2>1. \A y \in Scopes : y # x => life'[y] = life[y] /\ parent'[y] = parent[y]
      BY <1>0, <1>2, LifeSet
    <2> QED BY <1>0, <1>2, <2>1, ContextsPlain
  <1>3. ASSUME NEW o \in Owners, CreateRoot(o)
        PROVE  Contexts'
    <2>1. /\ life[o] = "absent" /\ life' = [life EXCEPT ![o] = "live"] /\ o \in Scopes
          /\ parent' = [parent EXCEPT ![o] = owner] /\ owner' = o /\ tracking' = tracking
      BY <1>3 DEF CreateRoot, Scopes
    <2>2. life'[o] = "live" /\ \A y \in Scopes : y # o => life'[y] = life[y] /\ parent'[y] = parent[y]
      BY <1>0, <2>1 DEF TypeOK
    <2> DEFINE f == Call("root", o, 0, owner)
    <2>3. Pushed(f) /\ f.kind \in OwnerKinds /\ f.of = o /\ f.prev = owner
      BY <1>3, UserMoves, CallFields DEF OwnerKinds
    <2> HIDE DEF f
    <2> QED BY <1>0, <2>1, <2>2, <2>3, ContextsOwner
  <1>4. ASSUME NEW o \in Owners, RunWithOwner(o)
        PROVE  Contexts'
    <2>1. life[o] = "live" /\ life' = life /\ parent' = parent /\ owner' = o /\ tracking' = tracking
      BY <1>4 DEF RunWithOwner, Orderly, tree
    <2> DEFINE f == Call("enter", o, 0, owner)
    <2>2. Pushed(f) /\ f.kind \in OwnerKinds /\ f.of = o /\ f.prev = owner
      BY <1>4, UserMoves, CallFields DEF OwnerKinds
    <2> HIDE DEF f
    <2> QED BY <1>0, <2>1, <2>2, ContextsOwner
  <1>5. ASSUME NEW o \in Owners, DisposeOwner(o)
        PROVE  Contexts'
    <2>1. PlainAction /\ o \in Scopes /\ Outside(o)
      BY <1>5, OutsideOrderly DEF PlainAction, Scopes
    <2> QED BY <1>2, <1>5, <2>1 DEF DisposeOwner, tree
  <1>6. ASSUME NEW e \in Effects, DisposeEffect(e)
        PROVE  Contexts'
    <2>1. PlainAction /\ e \in Scopes /\ Outside(e)
      BY <1>6, OutsideOrderly DEF PlainAction, Scopes
    <2> QED BY <1>2, <1>6, <2>1 DEF DisposeEffect, tree
  <1>7. ASSUME NEW e \in Effects, DeferEffect(e)
        PROVE  Contexts'
    <2>1. /\ PlainAction /\ e \in Scopes /\ life[e] = "absent" /\ life' = [life EXCEPT ![e] = "live"]
          /\ parent' = [parent EXCEPT ![e] = owner]
      BY <1>7 DEF PlainAction, DeferEffect, Scopes
    <2>2. \A y \in Scopes : y # e => life'[y] = life[y] /\ parent'[y] = parent[y]
      BY <1>0, <2>1 DEF TypeOK
    <2> QED BY <1>0, <2>1, <2>2, OutsideAbsent, ContextsPlain
  <1>8. ASSUME NEW e \in Effects, Rerun(e)
        PROVE  Contexts'
    BY <1>1, <1>8 DEF PlainAction, Rerun, tree
  <1>9. CASE DisposeChild
    <2> DEFINE child == children[Top.of][Top.at]
    <2>1. PlainAction /\ parent' = parent
      BY <1>9 DEF PlainAction, DisposeChild, tree
    <2>2. child \in Scopes /\ Outside(child)
      BY <1>9, LoopTarget DEF Scopes
    <2>3. life' = life \/ life' = [life EXCEPT ![child] = "disposed"]
      BY <1>9 DEF DisposeChild
    <2> HIDE DEF child
    <2> QED BY <1>1, <1>2, <2>1, <2>2, <2>3
  <1>10. CASE CallDisposer
    <2> DEFINE e == disposers[Top.of][Top.at]
    <2>1. PlainAction /\ parent' = parent
      BY <1>10 DEF PlainAction, CallDisposer, tree
    <2>2. e \in Scopes /\ Outside(e)
      BY <1>10, LoopTarget DEF Scopes
    <2>3. life' = [life EXCEPT ![e] = "disposed"]
      BY <1>10 DEF CallDisposer
    <2> HIDE DEF e
    <2> QED BY <1>2, <2>1, <2>2, <2>3
  <1>11. ASSUME NEW c \in Cleanups, OnCleanup(c) \/ OnOwnerCleanup(c)
         PROVE  Contexts'
    <2>1. life' = life /\ parent' = parent
      BY <1>11 DEF OnCleanup, OnOwnerCleanup, AddCleanup, tree
    <2> QED BY <1>1, <1>11, <2>1 DEF PlainAction
  <1>12. CASE Microtask \/ CallCleanup \/ CleanupReturn \/ WipeReturn \/ NextLoop
              \/ DisposeReturn \/ OutOfRange \/ UNCHANGED vars
    <2>1. life' = life /\ parent' = parent
      BY <1>12 DEF Microtask, CallCleanup, CleanupReturn, WipeReturn, NextLoop, DisposeReturn,
         OutOfRange, vars, tree
    <2> QED BY <1>1, <1>12, <2>1 DEF PlainAction
  <1>13. CASE OwnerReturn \/ FirstReturn \/ RunReturn
    BY <1>0, <1>13, ContextsReturn
  <1>14. CASE RunStart
    BY <1>14, ContextsRun
  <1>15. ASSUME NEW e \in Effects, RenderEffect(e)
         PROVE  Contexts'
    BY <1>0, <1>15, ContextsRender
  <1> QED BY <1>3, <1>4, <1>5, <1>6, <1>7, <1>8, <1>9, <1>10, <1>11, <1>12, <1>13, <1>14, <1>15
          DEF Next, UserStep, EngineStep

-----------------------------------------------------------------------------
(* The tree                                                                *)

LEMMA Appended ==
  ASSUME NEW S, NEW s \in Seq(S), NEW v \in S
  PROVE  /\ Len(Append(s, v)) = Len(s) + 1 /\ Len(s) \in Nat
         /\ \A k \in 1..Len(Append(s, v)) :
              \/ k \in 1..Len(s) /\ Append(s, v)[k] = s[k]
              \/ k = Len(s) + 1 /\ Append(s, v)[k] = v
         /\ \A k \in 1..Len(s) : k # Len(s) + 1
         /\ \A y : Holds(Append(s, v), y) <=> Holds(s, y) \/ y = v
  <1>1. /\ Len(s) \in Nat /\ Len(Append(s, v)) = Len(s) + 1
        /\ \A k \in 1..Len(s) : Append(s, v)[k] = s[k]
        /\ Append(s, v)[Len(s) + 1] = v
    BY AppendProperties, LenProperties
  <1>2. /\ \A k \in 1..Len(Append(s, v)) : k \in 1..Len(s) \/ k = Len(s) + 1
        /\ \A k \in 1..Len(s) : k \in 1..Len(Append(s, v)) /\ k # Len(s) + 1
        /\ Len(s) + 1 \in 1..Len(Append(s, v))
    BY <1>1
  <1> QED BY <1>1, <1>2 DEF Holds

\* Disposals change no array.
LEMMA TreesKept ==
  ASSUME TypeOK, Trees, parent' = parent, children' = children, disposers' = disposers,
         \A y \in Scopes : life'[y] = life[y] \/ life'[y] = "disposed"
  PROVE  Trees'
  <1>1. \A x \in Scopes : /\ life'[x] = "absent" => life[x] = "absent"
                          /\ life'[x] = "live" => life[x] = "live"
                          /\ life'[x] = "creating" => life[x] = "creating"
    OBVIOUS
  <1>2. \A x \in Scopes : life'[x] = "absent" => parent'[x] = None
    BY <1>1 DEF Trees
  <1>3. \A o \in Owners : life'[o] # "creating"
    BY <1>1 DEF Trees, Scopes
  <1>4. \A p, x : /\ Holds(children[p], x) => Holds(children'[p], x)
                  /\ Holds(disposers[p], x) => Holds(disposers'[p], x)
    OBVIOUS
  <1>5. ASSUME NEW p \in Owners
        PROVE  /\ \A k \in 1..Len(children'[p]) : parent'[children'[p][k]] = p
               /\ \A k, l \in 1..Len(children'[p]) : children'[p][k] = children'[p][l] => k = l
               /\ \A k \in 1..Len(disposers'[p]) : parent'[disposers'[p][k]] = p
               /\ \A x \in Owners : life'[x] = "live" /\ parent'[x] = p => Holds(children'[p], x)
               /\ \A x \in Effects : life'[x] = "live" /\ parent'[x] = p => Holds(disposers'[p], x)
    BY <1>1, <1>4 DEF Trees, Scopes
  <1>6. \A p, x : (Holds(children[p], x))' <=> Holds(children'[p], x)
    BY DEF Holds
  <1> QED BY <1>2, <1>3, <1>5 DEF Trees, Holds

\* A scope that did not exist is in no array.
LEMMA NotListed ==
  ASSUME TypeOK, Trees, NEW x \in Scopes, life[x] = "absent", NEW p \in Owners
  PROVE  ~Holds(children[p], x) /\ ~Holds(disposers[p], x)
  <1>1. parent[x] = None /\ None # p
    BY LifecycleAssumption DEF Trees, Things, Scopes
  <1> QED BY <1>1 DEF Trees, Holds

LEMMA TreesCreate ==
  ASSUME TypeOK, Trees, NEW x \in Scopes, life[x] = "absent",
         \A y \in Scopes : y # x => life'[y] = life[y] /\ parent'[y] = parent[y],
         parent'[x] = owner, life'[x] \in {"creating", "live"},
         x \in Owners => life'[x] = "live",
         \A p \in Owners : children'[p] = IF x \in Owners /\ p = owner THEN Append(children[p], x)
                                          ELSE children[p],
         \A p \in Owners : disposers'[p] = IF x \in Effects /\ life'[x] = "live" /\ p = owner
                                           THEN Append(disposers[p], x) ELSE disposers[p]
  PROVE  Trees'
  <1>0. \A p \in Owners : children[p] \in Seq(Owners) /\ disposers[p] \in Seq(Effects)
    BY DEF TypeOK
  <1>a. \A p \in Owners : /\ \A k \in 1..Len(children[p]) : children[p][k] \in Scopes
                          /\ \A k \in 1..Len(disposers[p]) : disposers[p][k] \in Scopes
    BY <1>0, ElementOfSeq DEF Scopes
  <1>b. Owners \cap Effects = {}
    BY LifecycleAssumption
  <1>1. \A y \in Scopes : life'[y] = "absent" => parent'[y] = None
    BY DEF Trees
  <1>2. \A o \in Owners : life'[o] # "creating"
    BY DEF Trees, Scopes
  <1>3. ASSUME NEW p \in Owners
        PROVE  /\ \A k \in 1..Len(children'[p]) : parent'[children'[p][k]] = p
               /\ \A k, l \in 1..Len(children'[p]) : children'[p][k] = children'[p][l] => k = l
               /\ \A y \in Owners : life'[y] = "live" /\ parent'[y] = p => Holds(children'[p], y)
    <2>1. ~Holds(children[p], x)
      BY NotListed
    <2>2. \A k \in 1..Len(children[p]) : children[p][k] # x /\ parent'[children[p][k]] = p
      BY <1>a, <2>1 DEF Trees, Holds
    <2>3. \A y \in Owners : y # x /\ life'[y] = "live" /\ parent'[y] = p => Holds(children[p], y)
      BY DEF Trees, Scopes
    <2>4. CASE x \in Owners /\ p = owner
      <3>1. children'[p] = Append(children[p], x)
        BY <2>4
      <3>2. /\ \A k \in 1..Len(children'[p]) :
                 \/ k \in 1..Len(children[p]) /\ children'[p][k] = children[p][k]
                 \/ k = Len(children[p]) + 1 /\ children'[p][k] = x
            /\ \A y : Holds(children[p], y) \/ y = x => Holds(children'[p], y)
        BY <1>0, <2>4, <3>1, Appended
      <3>3. \A k \in 1..Len(children'[p]) : parent'[children'[p][k]] = p
        BY <2>2, <2>4, <3>2
      <3>4. \A k, l \in 1..Len(children'[p]) : children'[p][k] = children'[p][l] => k = l
        BY <2>2, <3>2 DEF Trees
      <3> QED BY <2>3, <3>2, <3>3, <3>4
    <2>5. CASE ~(x \in Owners /\ p = owner)
      <3>1. children'[p] = children[p]
        BY <2>5
      <3>2. \A y \in Owners : life'[y] = "live" /\ parent'[y] = p => y # x
        BY <2>5
      <3> QED BY <2>2, <2>3, <3>1, <3>2 DEF Trees
    <2> QED BY <2>4, <2>5
  <1>4. ASSUME NEW p \in Owners
        PROVE  /\ \A k \in 1..Len(disposers'[p]) : parent'[disposers'[p][k]] = p
               /\ \A y \in Effects : life'[y] = "live" /\ parent'[y] = p => Holds(disposers'[p], y)
    <2>1. ~Holds(disposers[p], x)
      BY NotListed
    <2>2. \A k \in 1..Len(disposers[p]) : disposers[p][k] # x /\ parent'[disposers[p][k]] = p
      BY <1>a, <2>1 DEF Trees, Holds
    <2>3. \A y \in Effects : y # x /\ life'[y] = "live" /\ parent'[y] = p => Holds(disposers[p], y)
      BY DEF Trees, Scopes
    <2>4. CASE x \in Effects /\ life'[x] = "live" /\ p = owner
      <3>1. disposers'[p] = Append(disposers[p], x)
        BY <2>4
      <3>2. /\ \A k \in 1..Len(disposers'[p]) :
                 \/ k \in 1..Len(disposers[p]) /\ disposers'[p][k] = disposers[p][k]
                 \/ k = Len(disposers[p]) + 1 /\ disposers'[p][k] = x
            /\ \A y : Holds(disposers[p], y) \/ y = x => Holds(disposers'[p], y)
        BY <1>0, <2>4, <3>1, Appended
      <3>3. \A k \in 1..Len(disposers'[p]) : parent'[disposers'[p][k]] = p
        BY <2>2, <2>4, <3>2
      <3> QED BY <2>3, <3>2, <3>3
    <2>5. CASE ~(x \in Effects /\ life'[x] = "live" /\ p = owner)
      <3>1. disposers'[p] = disposers[p]
        BY <2>5
      <3>2. \A y \in Effects : life'[y] = "live" /\ parent'[y] = p => y # x
        BY <2>5
      <3> QED BY <2>2, <2>3, <3>1, <3>2
    <2> QED BY <2>4, <2>5
  <1> QED BY <1>1, <1>2, <1>3, <1>4 DEF Trees, Holds

\* The effect whose creating call ends is registered.
LEMMA TreesRegister ==
  ASSUME TypeOK, Trees, NEW e \in Effects, life[e] = "creating", parent[e] = owner,
         parent' = parent, children' = children,
         life'[e] = "live", \A y \in Scopes : y # e => life'[y] = life[y],
         \A p \in Owners : disposers'[p] = IF p = owner THEN Append(disposers[p], e)
                                           ELSE disposers[p]
  PROVE  Trees'
  <1>0. \A p \in Owners : disposers[p] \in Seq(Effects)
    BY DEF TypeOK
  <1>b. \A y \in Owners : y # e /\ y \in Scopes
    BY LifecycleAssumption DEF Scopes
  <1>1. \A y \in Scopes : life'[y] = "absent" => parent'[y] = None
    BY DEF Trees
  <1>2. \A o \in Owners : life'[o] # "creating"
    BY <1>b DEF Trees
  <1>3. ASSUME NEW p \in Owners
        PROVE  /\ \A k \in 1..Len(children'[p]) : parent'[children'[p][k]] = p
               /\ \A k, l \in 1..Len(children'[p]) : children'[p][k] = children'[p][l] => k = l
               /\ \A y \in Owners : life'[y] = "live" /\ parent'[y] = p => Holds(children'[p], y)
    BY <1>b DEF Trees
  <1>4. ASSUME NEW p \in Owners
        PROVE  /\ \A k \in 1..Len(disposers'[p]) : parent'[disposers'[p][k]] = p
               /\ \A y \in Effects : life'[y] = "live" /\ parent'[y] = p => Holds(disposers'[p], y)
    <2>3. \A y \in Effects : y # e /\ life'[y] = "live" /\ parent'[y] = p => Holds(disposers[p], y)
      BY DEF Trees, Scopes
    <2>4. CASE p = owner
      <3>1. disposers'[p] = Append(disposers[p], e)
        BY <2>4
      <3>2. /\ \A k \in 1..Len(disposers'[p]) :
                 \/ k \in 1..Len(disposers[p]) /\ disposers'[p][k] = disposers[p][k]
                 \/ k = Len(disposers[p]) + 1 /\ disposers'[p][k] = e
            /\ \A y : Holds(disposers[p], y) \/ y = e => Holds(disposers'[p], y)
        BY <1>0, <2>4, <3>1, Appended
      <3>3. \A k \in 1..Len(disposers'[p]) : parent'[disposers'[p][k]] = p
        BY <2>4, <3>2 DEF Trees
      <3> QED BY <2>3, <3>2, <3>3
    <2>5. CASE p # owner
      <3>1. disposers'[p] = disposers[p]
        BY <2>5
      <3>2. \A y \in Effects : life'[y] = "live" /\ parent'[y] = p => y # e
        BY <2>5
      <3> QED BY <2>3, <3>1, <3>2 DEF Trees
    <2> QED BY <2>4, <2>5
  <1> QED BY <1>1, <1>2, <1>3, <1>4 DEF Trees, Holds

-----------------------------------------------------------------------------
(* Taking an owner out of the array of its parent                          *)

\* Array::retain takes one element out, and closes the gap.
LEMMA WithoutShape ==
  ASSUME NEW array \in Seq(Owners), NEW o
  PROVE  \E at \in 1..Len(array)+1 :
           /\ at <= Len(array) => array[at] = o /\ Len(Without(array, o)) = Len(array) - 1
           /\ at = Len(array) + 1 => Len(Without(array, o)) = Len(array)
           /\ \A k \in 1..Len(Without(array, o)) :
                Without(array, o)[k] = IF k < at THEN array[k] ELSE array[k + 1]
  <1> DEFINE n == Len(array)
  <1>0. n \in Nat /\ DOMAIN array = 1..n
    BY LenProperties
  <1>1. CASE \E i \in DOMAIN array : array[i] = o
    <2> DEFINE at == CHOOSE i \in DOMAIN array : array[i] = o
               left == SubSeq(array, 1, at - 1)
               right == SubSeq(array, at + 1, n)
    <2>1. at \in 1..n /\ array[at] = o
      BY <1>0, <1>1
    <2>2. Without(array, o) = left \o right
      BY <1>1 DEF Without
    <2> HIDE DEF at
    <2>3. /\ left \in Seq(Owners) /\ Len(left) = at - 1
          /\ \A k \in 1..at-1 : left[k] = array[k]
      <3>1. /\ at - 1 \in Int /\ 1 \in Int /\ \A k \in 1..at-1 : array[k] \in Owners
        BY <1>0, <2>1, ElementOfSeq
      <3>2. /\ left \in Seq(Owners)
            /\ Len(left) = IF 1 <= at - 1 THEN at - 1 - 1 + 1 ELSE 0
            /\ \A i \in 1..at-1-1+1 : left[i] = array[1 + i - 1]
        BY <3>1, SubSeqProperties
      <3>3. Len(left) = at - 1
        BY <1>0, <2>1, <3>2
      <3>4. \A i \in 1..at-1 : i \in 1..at-1-1+1 /\ 1 + i - 1 = i
        BY <1>0, <2>1
      <3> QED BY <3>2, <3>3, <3>4
    <2>4. /\ right \in Seq(Owners) /\ Len(right) = n - at
          /\ \A k \in 1..n-at : right[k] = array[at + k]
      <3>1. /\ at + 1 \in Int /\ n \in Int /\ \A k \in at+1..n : array[k] \in Owners
        BY <1>0, <2>1, ElementOfSeq
      <3>2. /\ right \in Seq(Owners)
            /\ Len(right) = IF at + 1 <= n THEN n - (at + 1) + 1 ELSE 0
            /\ \A i \in 1..n-(at+1)+1 : right[i] = array[(at + 1) + i - 1]
        BY <3>1, SubSeqProperties
      <3>3. Len(right) = n - at
        <4>1. n \in Nat /\ at \in 1..n
          BY <1>0, <2>1
        <4>2. Len(right) = IF at + 1 <= n THEN n - (at + 1) + 1 ELSE 0
          BY <3>2
        <4> HIDE DEF n, right
        <4> QED BY <4>1, <4>2
      <3>4. \A i \in 1..n-at : i \in 1..n-(at+1)+1 /\ (at + 1) + i - 1 = at + i
        BY <1>0, <2>1
      <3> QED BY <3>2, <3>3, <3>4
    <2> HIDE DEF left, right
    <2>5. /\ Len(left \o right) = Len(left) + Len(right)
          /\ \A i \in 1..Len(left)+Len(right) :
               (left \o right)[i] = IF i <= Len(left) THEN left[i] ELSE right[i - Len(left)]
      BY <2>3, <2>4, ConcatProperties
    <2>6. Len(Without(array, o)) = n - 1
      BY <1>0, <2>1, <2>2, <2>3, <2>4, <2>5
    <2>7. ASSUME NEW k \in 1..n-1
          PROVE  Without(array, o)[k] = IF k < at THEN array[k] ELSE array[k + 1]
      <3>1. (left \o right)[k] = IF k <= at - 1 THEN left[k] ELSE right[k - (at - 1)]
        <4>1. k \in 1..Len(left)+Len(right)
          BY <1>0, <2>1, <2>3, <2>4, <2>7
        <4> QED BY <2>3, <2>5, <4>1
      <3>2. CASE k < at
        <4>1. k \in 1..at-1 /\ k <= at - 1
          BY <1>0, <2>1, <3>2
        <4> QED BY <2>2, <2>3, <3>1, <3>2, <4>1
      <3>3. CASE ~(k < at)
        <4>1. k - (at - 1) \in 1..n-at /\ ~(k <= at - 1) /\ at + (k - (at - 1)) = k + 1
          BY <1>0, <2>1, <3>3
        <4> QED BY <2>2, <2>4, <3>1, <3>3, <4>1
      <3> QED BY <3>2, <3>3
    <2>8. at \in 1..n+1 /\ at # n + 1
      BY <1>0, <2>1
    <2> QED BY <2>1, <2>6, <2>7, <2>8
  <1>2. CASE ~\E i \in DOMAIN array : array[i] = o
    <2>1. Without(array, o) = array
      BY <1>2 DEF Without
    <2>2. n + 1 \in 1..n+1 /\ ~(n + 1 <= n) /\ \A k \in 1..n : k < n + 1
      BY <1>0
    <2> QED BY <2>1, <2>2
  <1> QED BY <1>1, <1>2

LEMMA WithoutArray ==
  ASSUME NEW array \in Seq(Owners), NEW o
  PROVE  /\ \A k \in 1..Len(Without(array, o)) : Holds(array, Without(array, o)[k])
         /\ (\A k, l \in 1..Len(array) : array[k] = array[l] => k = l) =>
              \A k, l \in 1..Len(Without(array, o)) :
                Without(array, o)[k] = Without(array, o)[l] => k = l
         /\ \A x : Holds(array, x) /\ x # o => Holds(Without(array, o), x)
         /\ \A m \in Nat : m <= Len(array) /\ (\A k \in 1..m : array[k] # o) =>
              m <= Len(Without(array, o)) /\ \A k \in 1..m : Without(array, o)[k] = array[k]
  <1> DEFINE W == Without(array, o)
             n == Len(array)
             w == Len(W)
  <1>1. PICK at \in 1..n+1 : /\ at <= n => array[at] = o /\ w = n - 1
                             /\ at = n + 1 => w = n
                             /\ \A k \in 1..w : W[k] = IF k < at THEN array[k] ELSE array[k + 1]
    BY WithoutShape
  <1>0. n \in Nat
    BY LenProperties
  <1> HIDE DEF W, n, w
  <1>2. /\ w \in Int
        /\ \A k \in 1..w : IF k < at THEN k \in 1..n ELSE k + 1 \in 1..n
    BY <1>0, <1>1
  <1>3. \A k \in 1..w : Holds(array, W[k])
    BY <1>1, <1>2 DEF Holds, n
  <1>4. ASSUME \A k, l \in 1..n : array[k] = array[l] => k = l,
               NEW k \in 1..w, NEW l \in 1..w, W[k] = W[l]
        PROVE  k = l
    <2>1. CASE k < at /\ l < at
      BY <1>1, <1>2, <1>4, <2>1
    <2>2. CASE ~(k < at) /\ ~(l < at)
      <3>1. k + 1 = l + 1
        BY <1>1, <1>2, <1>4, <2>2
      <3> QED BY <1>2, <3>1
    <2>3. CASE k < at /\ ~(l < at)
      <3>1. k = l + 1
        BY <1>1, <1>2, <1>4, <2>3
      <3> QED BY <1>1, <1>2, <2>3, <3>1
    <2>4. CASE ~(k < at) /\ l < at
      <3>1. k + 1 = l
        BY <1>1, <1>2, <1>4, <2>4
      <3> QED BY <1>1, <1>2, <2>4, <3>1
    <2> QED BY <2>1, <2>2, <2>3, <2>4
  <1>5. ASSUME NEW x, Holds(array, x), x # o PROVE Holds(W, x)
    <2>1. PICK k \in 1..n : array[k] = x
      BY <1>5 DEF Holds, n
    <2>2. k # at
      BY <1>1, <1>5, <2>1
    <2>3. CASE k < at
      <3>1. k \in 1..w
        BY <1>0, <1>1, <2>3
      <3> QED BY <1>1, <2>1, <2>3, <3>1 DEF Holds, w
    <2>4. CASE k > at
      <3>1. k - 1 \in 1..w /\ ~(k - 1 < at) /\ k - 1 + 1 = k
        BY <1>0, <1>1, <2>4
      <3> QED BY <1>1, <2>1, <3>1 DEF Holds, w
    <2> QED BY <1>1, <2>2, <2>3, <2>4
  <1>6. ASSUME NEW m \in Nat, m <= n, \A k \in 1..m : array[k] # o
        PROVE  m <= w /\ \A k \in 1..m : W[k] = array[k]
    <2>1. at > m
      <3>1. CASE at <= n
        <4>1. at \notin 1..m
          BY <1>1, <1>6, <3>1
        <4> QED BY <1>1, <4>1
      <3>2. CASE at = n + 1
        BY <1>0, <1>6, <3>2
      <3> QED BY <1>0, <1>1, <3>1, <3>2
    <2>2. m <= w
      BY <1>0, <1>1, <1>6, <2>1
    <2>3. \A k \in 1..m : k \in 1..w /\ k < at
      BY <1>1, <1>2, <2>1, <2>2
    <2> QED BY <1>1, <2>2, <2>3
  <1> QED BY <1>3, <1>4, <1>5, <1>6 DEF W, n, w

-----------------------------------------------------------------------------
(* The arrays when a disposal ends                                         *)

\* When an owner calls its cleanups nothing under it is at work.
LEMMA NothingUnder ==
  ASSUME IInv, Creating, Trees, Loops, NEW i \in Levels, stack[i].kind = "cleanups"
  PROVE  \A x \in Scopes : parent[x] = stack[i].of => ~Active(x)
  <1> DEFINE o == stack[i].of
  <1>1. PassedChildren(o, 0) /\ PassedDisposers(o, 0) /\ o \in Owners
    <2>1. Sound(stack[i])
      BY DEF IInv, Calls, Levels
    <2> QED BY <2>1 DEF Loops, LoopOK, Sound
  <1>2. 1..0 = {}
    OBVIOUS
  <1>3. ASSUME NEW x \in Scopes, parent[x] = o, life[x] = "live" PROVE FALSE
    BY <1>1, <1>2, <1>3 DEF PassedChildren, PassedDisposers, Scopes
  <1>4. ASSUME NEW x \in Scopes, parent[x] = o, life[x] = "creating" PROVE FALSE
    <2>1. x \in Effects
      BY <1>4 DEF Trees, Scopes
    <2>2. PICK j \in Levels : stack[j].kind = "first" /\ stack[j].of = x
      BY <1>4, <2>1 DEF Creating
    <2>3. x \in Under(o)
      BY <1>1, <1>4, UnderFacts DEF Scopes
    <2> QED BY <2>2, <2>3 DEF Loops, Apart, LoopKinds, CodeKinds
  <1> QED BY <1>3, <1>4 DEF Active

\* The arrays at the end of Owner::dispose.
LEMMA ReturnArrays ==
  ASSUME IInv, DisposeReturn
  PROVE  /\ Top.of \in Owners /\ Top.kind = "cleanups" /\ Len(stack) \in Levels /\ stack # <<>>
         /\ \A q \in Owners :
              /\ q = Top.of => Len(children'[q]) = 0 /\ Len(disposers'[q]) = 0
              /\ q # Top.of => disposers'[q] = disposers[q]
              /\ q # Top.of /\ q # parent[Top.of] => children'[q] = children[q]
              /\ q # Top.of /\ q = parent[Top.of] => children'[q] = Without(children[q], Top.of)
  <1>0. TypeOK
    BY DEF IInv
  <1>1. Top.of \in Owners /\ Top.kind = "cleanups" /\ stack # <<>>
    BY TopFacts DEF DisposeReturn, Running, Sound
  <1>2. Len(stack) \in Levels
    <2>1. Len(stack) \in Nat /\ Len(stack) # 0
      BY <1>0, <1>1, LevelFacts
    <2> QED BY <2>1 DEF Levels
  <1> DEFINE o == Top.of
             p == parent[o]
             cleared == [children EXCEPT ![o] = <<>>]
  <1>3. cleared \in [Owners -> Seq(Owners)] /\ \A q \in Owners : cleared[q] = IF q = o THEN <<>> ELSE children[q]
    <2>1. <<>> \in Seq(Owners)
      OBVIOUS
    <2> QED BY <1>0, <1>1, <2>1 DEF TypeOK
  <1>4. children' = IF p = None THEN cleared ELSE [cleared EXCEPT ![p] = Without(@, o)]
    BY DEF DisposeReturn
  <1>5. disposers' = [disposers EXCEPT ![o] = <<>>]
    BY DEF DisposeReturn
  <1>6. Len(<<>>) = 0 /\ Without(<<>>, o) = <<>>
    BY DEF Without
  <1> HIDE DEF o, cleared
  <1>7. \A q \in Owners : children'[q] = IF q = p /\ p # None THEN Without(cleared[q], o) ELSE cleared[q]
    BY <1>3, <1>4
  <1>8. \A q \in Owners : disposers'[q] = IF q = o THEN <<>> ELSE disposers[q]
    BY <1>0, <1>5 DEF TypeOK
  <1>9. \A q \in Owners : q # None
    BY LifecycleAssumption DEF Things, Scopes
  <1> QED BY <1>1, <1>2, <1>3, <1>6, <1>7, <1>8, <1>9 DEF o

LEMMA TreesReturn ==
  ASSUME IInv, Creating, Trees, Loops, DisposeReturn
  PROVE  Trees'
  <1> DEFINE o == Top.of
  <1>0. /\ TypeOK /\ life' = life /\ parent' = parent
    BY DEF IInv, DisposeReturn
  <1>1. /\ o \in Owners
        /\ \A q \in Owners :
              /\ q = o => Len(children'[q]) = 0 /\ Len(disposers'[q]) = 0
              /\ q # o => disposers'[q] = disposers[q]
              /\ q # o /\ q # parent[o] => children'[q] = children[q]
              /\ q # o /\ q = parent[o] => children'[q] = Without(children[q], o)
    BY ReturnArrays
  <1>2. life[o] = "disposed" /\ \A x \in Scopes : parent[x] = o => life[x] # "live"
    <2>1. Len(stack) \in Levels /\ Top = stack[Len(stack)] /\ Top.kind = "cleanups"
      BY ReturnArrays DEF Top
    <2>2. \A x \in Scopes : parent[x] = o => ~Active(x)
      BY <2>1, NothingUnder
    <2>3. LoopOK(Top)
      BY <2>1 DEF Loops
    <2> QED BY <2>1, <2>2, <2>3 DEF LoopOK, LoopKinds, Active
  <1> HIDE DEF o
  <1>3. ASSUME NEW p \in Owners
        PROVE  /\ \A k \in 1..Len(children'[p]) : parent'[children'[p][k]] = p
               /\ \A k, l \in 1..Len(children'[p]) : children'[p][k] = children'[p][l] => k = l
               /\ \A y \in Owners : life'[y] = "live" /\ parent'[y] = p => Holds(children'[p], y)
    <2>1. CASE p = o
      <3>1. 1..Len(children'[p]) = {}
        <4>1. Len(children'[p]) = 0 /\ 1..0 = {}
          BY <1>1, <2>1
        <4> QED BY <4>1
      <3> QED BY <1>0, <1>2, <2>1, <3>1 DEF Scopes
    <2>2. CASE p # o /\ p # parent[o]
      BY <1>0, <1>1, <2>2 DEF Trees
    <2>3. CASE p # o /\ p = parent[o]
      <3>0. children[p] \in Seq(Owners) /\ children'[p] = Without(children[p], o)
        BY <1>0, <1>1, <2>3 DEF TypeOK
      <3>1. \A k \in 1..Len(children'[p]) : Holds(children[p], children'[p][k])
        BY <3>0, WithoutArray
      <3>2. \A k \in 1..Len(children'[p]) : parent'[children'[p][k]] = p
        BY <1>0, <3>1 DEF Trees, Holds
      <3>3. \A k, l \in 1..Len(children'[p]) : children'[p][k] = children'[p][l] => k = l
        <4>1. \A k, l \in 1..Len(children[p]) : children[p][k] = children[p][l] => k = l
          BY DEF Trees
        <4> QED BY <3>0, <4>1, WithoutArray
      <3>4. \A y \in Owners : life'[y] = "live" /\ parent'[y] = p => Holds(children'[p], y)
        <4>1. \A y \in Owners : life'[y] = "live" /\ parent'[y] = p => Holds(children[p], y) /\ y # o
          BY <1>0, <1>2 DEF Trees
        <4> QED BY <3>0, <4>1, WithoutArray
      <3> QED BY <3>2, <3>3, <3>4
    <2> QED BY <2>1, <2>2, <2>3
  <1>4. ASSUME NEW p \in Owners
        PROVE  /\ \A k \in 1..Len(disposers'[p]) : parent'[disposers'[p][k]] = p
               /\ \A y \in Effects : life'[y] = "live" /\ parent'[y] = p => Holds(disposers'[p], y)
    <2>1. CASE p = o
      <3>1. 1..Len(disposers'[p]) = {}
        <4>1. Len(disposers'[p]) = 0 /\ 1..0 = {}
          BY <1>1, <2>1
        <4> QED BY <4>1
      <3> QED BY <1>0, <1>2, <2>1, <3>1 DEF Scopes
    <2>2. CASE p # o
      BY <1>0, <1>1, <2>2 DEF Trees
    <2> QED BY <2>1, <2>2
  <1>5. /\ \A x \in Scopes : life'[x] = "absent" => parent'[x] = None
        /\ \A q \in Owners : life'[q] # "creating"
    BY <1>0 DEF Trees
  <1> QED BY <1>3, <1>4, <1>5 DEF Trees, Holds

LEMMA TreesRoot ==
  ASSUME TypeOK, Trees, NEW o \in Owners, CreateRoot(o)
  PROVE  Trees'
  <1>1. /\ life[o] = "absent" /\ life' = [life EXCEPT ![o] = "live"] /\ o \in Scopes
        /\ parent' = [parent EXCEPT ![o] = owner] /\ disposers' = disposers
        /\ children' = IF owner = None THEN children
                       ELSE [children EXCEPT ![owner] = Append(@, o)]
    BY DEF CreateRoot, Scopes
  <1>2. /\ life'[o] = "live" /\ parent'[o] = owner
        /\ \A y \in Scopes : y # o => life'[y] = life[y] /\ parent'[y] = parent[y]
    BY <1>1 DEF TypeOK
  <1>3. None \notin Owners /\ o \notin Effects
    BY LifecycleAssumption DEF Things, Scopes
  <1>4. \A p \in Owners : children'[p] = IF o \in Owners /\ p = owner THEN Append(children[p], o)
                                         ELSE children[p]
    BY <1>1, <1>3 DEF TypeOK
  <1>5. \A p \in Owners : disposers'[p] = IF o \in Effects /\ life'[o] = "live" /\ p = owner
                                          THEN Append(disposers[p], o) ELSE disposers[p]
    BY <1>1, <1>3
  <1>6. life'[o] \in {"creating", "live"}
    BY <1>2
  <1> QED BY <1>1, <1>2, <1>4, <1>5, <1>6, TreesCreate

\* What register_disposer does to the arrays.
LEMMA RegisterFacts ==
  ASSUME TypeOK, NEW e \in Effects, Register(e)
  PROVE  \A p \in Owners : disposers'[p] = IF p = owner THEN Append(disposers[p], e)
                                           ELSE disposers[p]
  <1>1. None \notin Owners
    BY LifecycleAssumption DEF Things, Scopes
  <1> QED BY <1>1 DEF Register, TypeOK

LEMMA TreesEffect ==
  ASSUME TypeOK, Trees, NEW e \in Effects, RenderEffect(e) \/ DeferEffect(e)
  PROVE  Trees'
  <1>1. /\ life[e] = "absent" /\ e \in Scopes /\ children' = children
        /\ parent' = [parent EXCEPT ![e] = owner]
        /\ \/ life' = [life EXCEPT ![e] = "creating"] /\ disposers' = disposers
           \/ life' = [life EXCEPT ![e] = "live"] /\ Register(e)
    BY DEF RenderEffect, DeferEffect, Scopes
  <1>2. /\ parent'[e] = owner
        /\ \A y \in Scopes : y # e => life'[y] = life[y] /\ parent'[y] = parent[y]
        /\ \/ life'[e] = "creating" /\ disposers' = disposers
           \/ life'[e] = "live" /\ Register(e)
    BY <1>1 DEF TypeOK
  <1>3. e \notin Owners
    BY LifecycleAssumption
  <1>4. \A p \in Owners : disposers'[p] = IF e \in Effects /\ life'[e] = "live" /\ p = owner
                                          THEN Append(disposers[p], e) ELSE disposers[p]
    <2>1. CASE life'[e] = "creating" /\ disposers' = disposers
      BY <2>1
    <2>2. CASE life'[e] = "live" /\ Register(e)
      BY <2>2, RegisterFacts
    <2> QED BY <1>2, <2>1, <2>2
  <1>5. \A p \in Owners : children'[p] = IF e \in Owners /\ p = owner THEN Append(children[p], e)
                                         ELSE children[p]
    BY <1>1, <1>3
  <1> QED BY <1>1, <1>2, <1>3, <1>4, <1>5, TreesCreate

\* When the first run of an effect returns, it is registered with its parent.
LEMMA ReturnOwner ==
  ASSUME IInv, QInv, Contexts, FirstReturn
  PROVE  Top.of \in Effects /\ life[Top.of] = "creating" /\ parent[Top.of] = owner
  <1>1. Top.of \in Effects /\ life[Top.of] = "creating"
    BY QuietReturn
  <1>2. Len(stack) \in Levels /\ Top.kind = "first"
    <2>1. Len(stack) \in Nat /\ Len(stack) # 0
      BY LevelFacts DEF IInv, FirstReturn, Running
    <2> QED BY <2>1 DEF Levels, FirstReturn, Running
  <1>3. OwnerAbove(Len(stack)) = {}
    <2>1. Len(stack) \in Nat
      BY LevelFacts DEF IInv
    <2>2. \A j \in Levels : ~(j > Len(stack))
      BY <2>1 DEF Levels
    <2> QED BY <2>2 DEF OwnerAbove
  <1> QED BY <1>1, <1>2, <1>3 DEF Contexts, Remembered, Top

LEMMA TreesFirst ==
  ASSUME IInv, QInv, Contexts, Trees, FirstReturn
  PROVE  Trees'
  <1> DEFINE e == Top.of
  <1>1. /\ TypeOK /\ e \in Effects /\ e \in Scopes /\ life[e] = "creating" /\ parent[e] = owner
        /\ parent' = parent /\ children' = children
        /\ life' = [life EXCEPT ![e] = "live"] /\ Register(e)
    BY ReturnOwner DEF IInv, FirstReturn, Scopes
  <1> HIDE DEF e
  <1>2. life'[e] = "live" /\ \A y \in Scopes : y # e => life'[y] = life[y]
    BY <1>1, LifeSet
  <1> QED BY <1>1, <1>2, RegisterFacts, TreesRegister

\* Steps that neither create nor revive anything.
LEMMA LifeFalls ==
  ASSUME IInv, QInv, [Next]_vars,
         ~\E o \in Owners : CreateRoot(o),
         ~\E e \in Effects : RenderEffect(e) \/ DeferEffect(e),
         ~FirstReturn
  PROVE  \A y \in Scopes : life'[y] = life[y] \/ life'[y] = "disposed"
  <1>0. TypeOK /\ Registered
    BY DEF IInv, QInv
  <1>1. Calm
    BY <1>0, CalmStep
  <1>2. \/ life' = life
        \/ \E x : life' = [life EXCEPT ![x] = "disposed"]
    BY DEF Next, UserStep, EngineStep, vars, RunWithOwner, DisposeOwner, Rerun, DisposeEffect,
           OnCleanup, OnOwnerCleanup, AddCleanup, OwnerReturn, RunStart, RunReturn, Microtask,
           CallCleanup, CleanupReturn, WipeReturn, DisposeChild, CallDisposer, NextLoop,
           DisposeReturn, OutOfRange
  <1>3. ASSUME NEW x, life' = [life EXCEPT ![x] = "disposed"], NEW y \in Scopes
        PROVE  life'[y] = life[y] \/ life'[y] = "disposed"
    BY <1>0, <1>3 DEF TypeOK
  <1> QED BY <1>2, <1>3

LEMMA TreesStep ==
  ASSUME IInv, QInv, Contexts, Trees, Loops, [Next]_vars
  PROVE  Trees'
  <1>0. TypeOK /\ Creating
    BY DEF IInv, QInv
  <1>1. ASSUME NEW o \in Owners, CreateRoot(o) PROVE Trees'
    BY <1>0, <1>1, TreesRoot
  <1>2. ASSUME NEW e \in Effects, RenderEffect(e) \/ DeferEffect(e) PROVE Trees'
    BY <1>0, <1>2, TreesEffect
  <1>3. CASE FirstReturn
    BY <1>3, TreesFirst
  <1>4. CASE DisposeReturn
    BY <1>0, <1>4, TreesReturn
  <1>5. CASE /\ ~\E o \in Owners : CreateRoot(o)
             /\ ~\E e \in Effects : RenderEffect(e) \/ DeferEffect(e)
             /\ ~FirstReturn /\ ~DisposeReturn
    <2>1. parent' = parent /\ children' = children /\ disposers' = disposers
      BY <1>5 DEF Next, UserStep, EngineStep, vars, tree, RunWithOwner, DisposeOwner, Rerun,
         DisposeEffect, OnCleanup, OnOwnerCleanup, AddCleanup, OwnerReturn, RunStart, RunReturn,
         Microtask, CallCleanup, CleanupReturn, WipeReturn, DisposeChild, CallDisposer, NextLoop,
         OutOfRange
    <2>2. \A y \in Scopes : life'[y] = life[y] \/ life'[y] = "disposed"
      BY <1>5, LifeFalls
    <2> QED BY <1>0, <2>1, <2>2, TreesKept
  <1> QED BY <1>1, <1>2, <1>3, <1>4, <1>5

-----------------------------------------------------------------------------
(* Nothing outlives its owner                                              *)

\* The owner in force is alive.
LEMMA OwnerLive ==
  ASSUME TypeOK, Contexts, owner # None
  PROVE  owner \in Owners /\ life[owner] = "live"
  <1>1. owner \in Owners
    BY DEF TypeOK
  <1>2. PICK j \in Levels : stack[j].kind \in OwnerKinds /\ stack[j].of = owner
    BY DEF Contexts, InForce, Levels
  <1> QED BY <1>1, <1>2 DEF Contexts, Alive

\* Only the end of a disposal pops a loop of it.
LEMMA LoopPopped ==
  ASSUME IInv, QInv, Silent(program), [Next]_vars, PoppedOff, ~DisposeReturn
  PROVE  Top.kind \notin LoopKinds
  <1>0. /\ Len(stack) \in Nat /\ Len(stack) >= 1 /\ Len(stack') # Len(stack)
        /\ Len(stack') # Len(stack) + 1 /\ stack # <<>> /\ Shape /\ Len(stack) \in Levels
    <2>1. Len(stack) \in Nat /\ Len(stack') = Len(stack) - 1 /\ Len(stack) >= 1
      BY LevelFacts DEF IInv, PoppedOff
    <2> QED BY <2>1, LevelFacts DEF IInv, QInv, Levels
  <1>1. CASE UserStep
    <2>1. Top.kind \in CodeKinds
      BY <1>0, <1>1, UserStepFacts DEF AllCode, Top
    <2> QED BY <2>1 DEF CodeKinds, LoopKinds
  <1>2. CASE OwnerReturn \/ FirstReturn \/ RunStart \/ RunReturn \/ CleanupReturn \/ WipeReturn
    BY <1>2 DEF OwnerReturn, FirstReturn, RunStart, RunReturn, CleanupReturn, WipeReturn, Running,
         LoopKinds
  <1>3. CASE CallCleanup \/ CallDisposer
    BY <1>0, <1>3, EngineMoves DEF SteppedInto
  <1>4. CASE DisposeChild
    BY <1>0, <1>4, EngineMoves DEF SteppedInto, SteppedDown
  <1>5. CASE NextLoop
    BY <1>0, <1>5, EngineMoves DEF Swapped
  <1>6. CASE Microtask \/ OutOfRange \/ UNCHANGED vars
    BY <1>0, <1>6 DEF Microtask, OutOfRange, vars
  <1> QED BY <1>1, <1>2, <1>3, <1>4, <1>5, <1>6 DEF Next, EngineStep

LEMMA LoopSurvives ==
  ASSUME IInv, QInv, Silent(program), [Next]_vars, NEW i \in Levels, stack[i].kind \in LoopKinds
  PROVE  \/ i \in Levels' /\ stack'[i].kind \in LoopKinds /\ stack'[i].of = stack[i].of
         \/ DisposeReturn /\ i = Len(stack)
  <1>0. TypeOK
    BY DEF IInv
  <1>n. Len(stack) \in Nat
    BY <1>0, LevelFacts
  <1>1. ASSUME SameFrames(LoopKinds)
        PROVE  i \in Levels' /\ stack'[i].kind \in LoopKinds /\ stack'[i].of = stack[i].of
    BY <1>1 DEF SameFrames
  <1>2. ASSUME NEW f, Pushed(f) \/ SteppedInto(f)
        PROVE  i \in Levels' /\ stack'[i].kind \in LoopKinds /\ stack'[i].of = stack[i].of
    <2>1. i \in Levels'
      BY <1>n, <1>2 DEF Pushed, SteppedInto, Levels
    <2>2. i = Len(stack) \/ i \in 1..Len(stack)-1
      BY <1>n DEF Levels
    <2> QED BY <1>2, <2>1, <2>2 DEF Pushed, SteppedInto, TopStepped, Top
  <1>3. CASE PoppedOff
    <2>1. CASE DisposeReturn
      <3>1. i = Len(stack) \/ (i \in Levels' /\ i \in 1..Len(stack)-1)
        BY <1>n, <1>3 DEF PoppedOff, Levels
      <3> QED BY <1>3, <2>1, <3>1 DEF PoppedOff
    <2>2. CASE ~DisposeReturn
      <3>1. Top.kind \notin LoopKinds
        BY <1>3, <2>2, LoopPopped
      <3> QED BY <1>0, <1>1, <1>3, <3>1, FramesKept
    <2> QED BY <2>1, <2>2
  <1>4. ASSUME NEW e \in Effects, RenderEffect(e)
        PROVE  i \in Levels' /\ stack'[i].kind \in LoopKinds /\ stack'[i].of = stack[i].of
    BY <1>2, <1>4, UserMoves
  <1>5. CASE FirstReturn
    BY <1>3, <1>5, EngineMoves
  <1>6. CASE ~FirstReturn /\ ~\E e \in Effects : RenderEffect(e)
    <2>1. Moved
      BY <1>6, QuietRest
    <2>2. CASE stack' = stack \/ SteppedDown
      BY <1>0, <1>1, <2>2, FramesKept
    <2>3. ASSUME NEW f \in Frame, MovedAs(f)
          PROVE  i \in Levels' /\ stack'[i].kind \in LoopKinds /\ stack'[i].of = stack[i].of
      <3>1. CASE Pushed(f) \/ SteppedInto(f)
        BY <1>2, <3>1
      <3>2. CASE Swapped(f) /\ ~Pushed(f) /\ ~SteppedInto(f)
        <4>1. i = Len(stack) \/ i \in 1..Len(stack)-1
          BY <1>n DEF Levels
        <4>2. i \in Levels'
          BY <3>2 DEF Swapped, Levels
        <4>3. Top.kind \in LoopKinds => f.kind \in LoopKinds /\ f.of = Top.of
          BY <2>3, <3>2 DEF MovedAs, LoopKinds
        <4> QED BY <3>2, <4>1, <4>2, <4>3 DEF Swapped, Top
      <3> QED BY <2>3, <3>1, <3>2 DEF MovedAs
    <2> QED BY <1>3, <2>1, <2>2, <2>3 DEF Moved
  <1> QED BY <1>4, <1>5, <1>6

\* Nothing is attached to what stops being alive, or being disposed of.
LEMMA AttachedKept ==
  ASSUME TypeOK, Attached,
         \A x \in Scopes : life'[x] \in {"creating", "live"} /\ parent'[x] # None =>
            \/ life[x] \in {"creating", "live"} /\ parent'[x] = parent[x]
            \/ life'[parent'[x]] = "live",
         \A o \in Owners : life[o] = "live" =>
            \/ life'[o] = "live"
            \/ \E i \in Levels' : stack'[i].kind \in LoopKinds /\ stack'[i].of = o,
         \A i \in Levels : stack[i].kind \in LoopKinds =>
            \/ \E j \in Levels' : stack'[j].kind \in LoopKinds /\ stack'[j].of = stack[i].of
            \/ \A x \in Scopes : parent[x] = stack[i].of => ~Active(x)
  PROVE  Attached'
  <1> SUFFICES ASSUME NEW x \in Scopes, life'[x] \in {"creating", "live"}, parent'[x] # None
               PROVE  \/ life'[parent'[x]] = "live"
                      \/ \E i \in Levels' : stack'[i].kind \in LoopKinds /\ stack'[i].of = parent'[x]
    BY DEF Attached, Active
  <1>1. CASE life[x] \in {"creating", "live"} /\ parent'[x] = parent[x]
    <2>1. parent[x] \in Owners /\ Active(x) /\ parent[x] # None
      BY <1>1 DEF TypeOK, Active
    <2>2. CASE life[parent[x]] = "live"
      BY <1>1, <2>1, <2>2
    <2>3. CASE \E i \in Levels : stack[i].kind \in LoopKinds /\ stack[i].of = parent[x]
      BY <1>1, <2>1, <2>3
    <2> QED BY <2>1, <2>2, <2>3 DEF Attached
  <1> QED BY <1>1

LEMMA AttachedStep ==
  ASSUME IInv, QInv, Contexts, Trees, Loops, Attached, Silent(program), [Next]_vars
  PROVE  Attached'
  <1>0. TypeOK /\ Creating
    BY DEF IInv, QInv
  <1>1. \A x \in Scopes : life'[x] \in {"creating", "live"} /\ parent'[x] # None =>
            \/ life[x] \in {"creating", "live"} /\ parent'[x] = parent[x]
            \/ life'[parent'[x]] = "live"
    <2>1. ASSUME NEW o \in Scopes, \A y \in Scopes : y # o => life'[y] = life[y] /\ parent'[y] = parent[y],
                 parent'[o] = owner, owner = o => life'[o] = "live", NEW x \in Scopes,
                 life'[x] \in {"creating", "live"}, parent'[x] # None
          PROVE  \/ life[x] \in {"creating", "live"} /\ parent'[x] = parent[x]
                 \/ life'[parent'[x]] = "live"
      <3>1. CASE x # o
        BY <2>1, <3>1
      <3>2. CASE x = o
        BY <1>0, <2>1, <3>2, OwnerLive DEF Scopes
      <3> QED BY <3>1, <3>2
    <2>2. ASSUME NEW o \in Owners, CreateRoot(o), NEW x \in Scopes,
                 life'[x] \in {"creating", "live"}, parent'[x] # None
          PROVE  \/ life[x] \in {"creating", "live"} /\ parent'[x] = parent[x]
                 \/ life'[parent'[x]] = "live"
      <3>1. /\ o \in Scopes /\ life' = [life EXCEPT ![o] = "live"]
            /\ parent' = [parent EXCEPT ![o] = owner]
        BY <2>2 DEF CreateRoot, Scopes
      <3>2. /\ life'[o] = "live" /\ parent'[o] = owner
            /\ \A y \in Scopes : y # o => life'[y] = life[y] /\ parent'[y] = parent[y]
        BY <1>0, <3>1 DEF TypeOK
      <3> QED BY <2>1, <2>2, <3>1, <3>2
    <2>3. ASSUME NEW e \in Effects, RenderEffect(e) \/ DeferEffect(e), NEW x \in Scopes,
                 life'[x] \in {"creating", "live"}, parent'[x] # None
          PROVE  \/ life[x] \in {"creating", "live"} /\ parent'[x] = parent[x]
                 \/ life'[parent'[x]] = "live"
      <3>1. /\ e \in Scopes /\ parent' = [parent EXCEPT ![e] = owner]
            /\ \E v : life' = [life EXCEPT ![e] = v]
        BY <2>3 DEF RenderEffect, DeferEffect, Scopes
      <3>2. /\ parent'[e] = owner
            /\ \A y \in Scopes : y # e => life'[y] = life[y] /\ parent'[y] = parent[y]
        BY <1>0, <3>1 DEF TypeOK
      <3>3. owner # e
        BY <1>0, LifecycleAssumption DEF TypeOK, Things, Scopes
      <3> QED BY <2>1, <2>3, <3>1, <3>2, <3>3
    <2>4. CASE FirstReturn
      <3>1. /\ Top.of \in Scopes /\ life[Top.of] = "creating" /\ parent' = parent
            /\ life' = [life EXCEPT ![Top.of] = "live"]
        BY <2>4, ReturnOwner DEF FirstReturn, Scopes
      <3>2. \A y \in Scopes : y # Top.of => life'[y] = life[y]
        BY <1>0, <3>1, LifeSet
      <3> QED BY <3>1, <3>2
    <2>5. CASE /\ ~\E o \in Owners : CreateRoot(o)
               /\ ~\E e \in Effects : RenderEffect(e) \/ DeferEffect(e)
               /\ ~FirstReturn
      <3>1. parent' = parent
        BY <2>5 DEF Next, UserStep, EngineStep, vars, tree, RunWithOwner, DisposeOwner, Rerun,
           DisposeEffect, OnCleanup, OnOwnerCleanup, AddCleanup, OwnerReturn, RunStart, RunReturn,
           Microtask, CallCleanup, CleanupReturn, WipeReturn, DisposeChild, CallDisposer, NextLoop,
           DisposeReturn, OutOfRange
      <3>2. \A y \in Scopes : life'[y] = life[y] \/ life'[y] = "disposed"
        BY <2>5, LifeFalls
      <3> QED BY <3>1, <3>2
    <2> QED BY <2>2, <2>3, <2>4, <2>5
  <1>2. ASSUME NEW o \in Owners, life[o] = "live"
        PROVE  \/ life'[o] = "live"
               \/ \E i \in Levels' : stack'[i].kind \in LoopKinds /\ stack'[i].of = o
    <2>0. o \in Scopes /\ o \notin Effects /\ Len(stack) \in Nat
      BY <1>0, LevelFacts, LifecycleAssumption DEF Scopes
    <2>1. ASSUME NEW x, life' = [life EXCEPT ![x] = "disposed"], x \in Effects
          PROVE  life'[o] = "live"
      BY <1>0, <1>2, <2>0, <2>1 DEF TypeOK
    <2>2. ASSUME NEW x, life' = [life EXCEPT ![x] = "disposed"],
                 Pushed(FirstLoop(x)) \/ SteppedInto(FirstLoop(x))
          PROVE  \/ life'[o] = "live"
                 \/ \E i \in Levels' : stack'[i].kind \in LoopKinds /\ stack'[i].of = o
      <3>1. CASE x = o
        <4>1. Len(stack) + 1 \in Levels'
          BY <2>0, <2>2 DEF Pushed, SteppedInto, Levels
        <4>2. FirstLoop(o).kind \in LoopKinds /\ FirstLoop(o).of = o
          BY CallFields DEF FirstLoop, LoopKinds
        <4> QED BY <2>2, <3>1, <4>1, <4>2 DEF Pushed, SteppedInto
      <3>2. CASE x # o
        BY <1>0, <1>2, <2>0, <2>2, <3>2 DEF TypeOK
      <3> QED BY <3>1, <3>2
    <2>3. ASSUME NEW q \in Owners, DisposeOwner(q)
          PROVE  \/ life'[o] = "live"
                 \/ \E i \in Levels' : stack'[i].kind \in LoopKinds /\ stack'[i].of = o
      BY <2>2, <2>3, UserMoves DEF DisposeOwner
    <2>4. CASE DisposeChild
      <3> DEFINE child == children[Top.of][Top.at]
      <3>1. \/ life' = life
            \/ life' = [life EXCEPT ![child] = "disposed"] /\ life[child] = "live"
        BY <2>4 DEF DisposeChild
      <3>2. life[child] = "live" => SteppedInto(FirstLoop(child))
        BY <2>4, EngineMoves
      <3> HIDE DEF child
      <3> QED BY <1>2, <2>2, <3>1, <3>2
    <2>5. CASE CallDisposer
      <3> DEFINE e == disposers[Top.of][Top.at]
      <3>1. e \in Effects /\ life' = [life EXCEPT ![e] = "disposed"]
        BY <1>0, <2>5, LoopTarget DEF CallDisposer
      <3> HIDE DEF e
      <3> QED BY <2>1, <3>1
    <2>6. ASSUME NEW e \in Effects, DisposeEffect(e) PROVE life'[o] = "live"
      BY <2>1, <2>6 DEF DisposeEffect
    <2>7. ASSUME NEW q \in Owners, CreateRoot(q) PROVE life'[o] = "live"
      BY <1>0, <1>2, <2>0, <2>7 DEF CreateRoot, TypeOK
    <2>8. ASSUME NEW e \in Effects, RenderEffect(e) \/ DeferEffect(e) PROVE life'[o] = "live"
      BY <1>0, <1>2, <2>0, <2>8 DEF RenderEffect, DeferEffect, TypeOK
    <2>9. CASE FirstReturn
      <3>1. Top.of # o /\ life' = [life EXCEPT ![Top.of] = "live"]
        BY <2>0, <2>9, ReturnOwner DEF FirstReturn
      <3> QED BY <1>0, <1>2, <2>0, <3>1 DEF TypeOK
    <2>10. CASE \/ \E q \in Owners : RunWithOwner(q)
                \/ \E e \in Effects : Rerun(e)
                \/ \E c \in Cleanups : OnCleanup(c) \/ OnOwnerCleanup(c)
                \/ OwnerReturn \/ RunStart \/ RunReturn \/ Microtask
                \/ CallCleanup \/ CleanupReturn \/ WipeReturn
                \/ NextLoop \/ DisposeReturn \/ OutOfRange \/ UNCHANGED vars
      <3>1. life' = life
        BY <2>10 DEF RunWithOwner, Rerun, OnCleanup, OnOwnerCleanup, AddCleanup, OwnerReturn, RunStart,
           RunReturn, Microtask, CallCleanup, CleanupReturn, WipeReturn, NextLoop, DisposeReturn,
           OutOfRange, vars
      <3> QED BY <1>2, <3>1
    <2> QED BY <2>3, <2>4, <2>5, <2>6, <2>7, <2>8, <2>9, <2>10 DEF Next, UserStep, EngineStep
  <1>3. ASSUME NEW i \in Levels, stack[i].kind \in LoopKinds
        PROVE  \/ \E j \in Levels' : stack'[j].kind \in LoopKinds /\ stack'[j].of = stack[i].of
               \/ \A x \in Scopes : parent[x] = stack[i].of => ~Active(x)
    <2>1. CASE DisposeReturn /\ i = Len(stack)
      <3>1. stack[i].kind = "cleanups"
        BY <2>1 DEF DisposeReturn, Running, Top
      <3> QED BY <1>0, <3>1, NothingUnder
    <2> QED BY <1>3, <2>1, LoopSurvives
  <1> QED BY <1>0, <1>1, <1>2, <1>3, AttachedKept

-----------------------------------------------------------------------------
(* The loops of a disposal                                                 *)

NoLoop == \A i \in Levels : stack[i].kind \notin LoopKinds

LEMMA LoopsNone ==
  ASSUME NoLoop'
  PROVE  Loops'
  BY DEF NoLoop, Loops, LoopOK, Apart, Behind, LoopKinds

\* A disposal begins in code outside of all disposals.
LEMMA NoLoopStep ==
  ASSUME IInv, QInv, Silent(program), [Next]_vars, NoLoop, ~\E o \in Owners : DisposeOwner(o)
  PROVE  NoLoop'
  <1>0. TypeOK
    BY DEF IInv
  <1>n. Len(stack) \in Nat
    BY <1>0, LevelFacts
  <1>1. ASSUME stack' = stack \/ PoppedOff PROVE NoLoop'
    <2>1. \A i \in Levels' : i \in Levels /\ stack'[i] = stack[i]
      <3>1. \A i \in Levels' : stack' = stack \/ i \in 1..Len(stack)-1
        BY <1>n, <1>1 DEF PoppedOff, Levels
      <3>2. \A i \in 1..Len(stack)-1 : i \in Levels
        BY <1>n DEF Levels
      <3> QED BY <1>1, <3>1, <3>2 DEF PoppedOff, Levels
    <2> QED BY <2>1 DEF NoLoop
  <1>2. ASSUME NEW f, Pushed(f) \/ SteppedInto(f) \/ Swapped(f), f.kind \notin LoopKinds
        PROVE NoLoop'
    <2>1. \A i \in Levels' : /\ i \in Levels /\ stack'[i].kind = stack[i].kind
                             \/ stack'[i] = f
      <3>1. \A i \in Levels' : \/ i \in 1..Len(stack)-1 /\ i \in Levels
                               \/ i = Len(stack)
                               \/ (i = Len(stack) + 1 /\ ~Swapped(f))
        BY <1>n, <1>2 DEF Pushed, Swapped, SteppedInto, Levels
      <3>2. Pushed(f) => \A i \in Levels : stack'[i] = stack[i]
        BY DEF Pushed
      <3>3. \A i \in Levels' : i = Len(stack) => i \in Levels
        BY <1>n DEF Levels
      <3> QED BY <1>2, <3>1, <3>2, <3>3 DEF Pushed, Swapped, SteppedInto, TopStepped, Top
    <2> QED BY <1>2, <2>1 DEF NoLoop
  <1>3. stack # <<>> => Top.kind \notin LoopKinds
    <2>1. stack # <<>> => Len(stack) \in Levels
      BY <1>0, LevelFacts DEF Levels
    <2> QED BY <2>1 DEF NoLoop, Top
  <1>4. ~DisposeChild /\ ~CallDisposer /\ ~NextLoop
    BY <1>3 DEF DisposeChild, CallDisposer, NextLoop, Running, LoopKinds
  <1>5. ASSUME NEW o \in Owners, CreateRoot(o) \/ RunWithOwner(o) PROVE NoLoop'
    <2>1. /\ Call("root", o, 0, owner).kind \notin LoopKinds
          /\ Call("enter", o, 0, owner).kind \notin LoopKinds
      BY CallFields DEF LoopKinds
    <2> QED BY <1>2, <1>5, <2>1, UserMoves
  <1>6. ASSUME NEW e \in Effects, RenderEffect(e) \/ DisposeEffect(e) \/ Rerun(e) \/ Microtask
        PROVE  NoLoop'
    <2>1. \A x, m, u : /\ Call("first", x, m, u).kind \notin LoopKinds
                       /\ Call("wipe", x, m, u).kind \notin LoopKinds
                       /\ Call("clean", x, m, u).kind \notin LoopKinds
      BY CallFields DEF LoopKinds
    <2>2. CASE Rerun(e) \/ Microtask
      <3>1. \/ stack' = stack
            \/ \E x \in Effects : Pushed(Call("clean", x, Len(cleanups[x]), None))
        BY <2>2, UserMoves
      <3> QED BY <1>1, <1>2, <2>1, <3>1
    <2> QED BY <1>2, <1>6, <2>1, <2>2, UserMoves
  <1>7. CASE OwnerReturn \/ FirstReturn \/ RunReturn \/ CleanupReturn \/ WipeReturn \/ DisposeReturn
    BY <1>1, <1>7, EngineMoves
  <1>8. CASE RunStart
    <2>1. Call("run", Top.of, 0, tracking).kind \notin LoopKinds
      BY CallFields DEF LoopKinds
    <2> QED BY <1>2, <1>8, <2>1, EngineMoves
  <1>9. CASE CallCleanup
    <2>1. \A x : Call("call", x, 0, None).kind \notin LoopKinds
      BY CallFields DEF LoopKinds
    <2> QED BY <1>2, <1>9, <2>1, EngineMoves
  <1>10. CASE \/ \E e \in Effects : DeferEffect(e)
              \/ \E c \in Cleanups : OnCleanup(c) \/ OnOwnerCleanup(c)
              \/ OutOfRange \/ UNCHANGED vars
    BY <1>1, <1>10 DEF DeferEffect, OnCleanup, OnOwnerCleanup, AddCleanup, OutOfRange, vars
  <1>11. Microtask => \E e \in Effects : TRUE
    <2>1. Microtask => Head(microtasks) \in Effects
      BY <1>0, HeadTailProperties DEF Microtask, TypeOK
    <2> QED BY <2>1
  <1> QED BY <1>4, <1>5, <1>6, <1>7, <1>8, <1>9, <1>10, <1>11 DEF Next, UserStep, EngineStep

\* The loops that were there, in their order.
LEMMA LoopsKept ==
  ASSUME Loops, parent' = parent,
         \A i \in Levels' : stack'[i].kind \in CodeKinds =>
            i \in Levels /\ stack[i].kind \in CodeKinds /\ stack'[i].of = stack[i].of,
         \A i \in Levels' : stack'[i].kind \in LoopKinds =>
            i \in Levels /\ stack[i].kind \in LoopKinds /\ stack'[i].of = stack[i].of,
         \A i \in Levels' : stack'[i].kind = "children" =>
            /\ stack[i].kind = "children"
            /\ \A k \in 1..stack'[i].at : /\ k \in 1..stack[i].at
                                          /\ children'[stack[i].of][k] = children[stack[i].of][k],
         \A i \in Levels' : LoopOK(stack[i])'
  PROVE  Loops'
  <1>1. ASSUME NEW i \in Levels', NEW j \in Levels' PROVE Apart(stack[i], stack[j])'
    <2>1. \A x, y : x = y => Under(x)' = Under(y)
      BY DEF Under, Closed
    <2> SUFFICES ASSUME stack'[i].kind \in LoopKinds, stack'[j].kind \in CodeKinds
                 PROVE  stack'[j].of \notin Under(stack[i].of)'
      BY DEF Apart
    <2>2. stack[j].of \notin Under(stack[i].of)
      BY DEF Loops, Apart
    <2>3. stack'[j].of = stack[j].of /\ stack'[i].of = stack[i].of
      OBVIOUS
    <2>4. Under(stack[i].of)' = Under(stack[i].of)
      <3>1. \A x : x = stack[i].of => Under(x) = Under(stack[i].of)'
        BY <2>3 DEF Under, Closed
      <3> QED BY <3>1
    <2> QED BY <2>2, <2>3, <2>4
  <1>2. ASSUME NEW i \in Levels', NEW j \in Levels', i < j PROVE Behind(stack[i], stack[j])'
    <2> SUFFICES ASSUME stack'[i].kind = "children", stack'[j].kind \in LoopKinds,
                        NEW k \in 1..stack'[i].at
                 PROVE  children'[stack'[i].of][k] # stack'[j].of
      BY DEF Behind
    <2>1. /\ stack'[i].of = stack[i].of /\ stack'[j].of = stack[j].of
          /\ i \in Levels /\ j \in Levels /\ stack[j].kind \in LoopKinds /\ stack[i].kind = "children"
      BY DEF LoopKinds
    <2>2. k \in 1..stack[i].at /\ children'[stack[i].of][k] = children[stack[i].of][k]
      OBVIOUS
    <2>3. children[stack[i].of][k] # stack[j].of
      BY <1>2, <2>1, <2>2 DEF Loops, Behind
    <2> QED BY <2>1, <2>2, <2>3
  <1>3. ASSUME NEW i \in Levels', NEW j \in Levels', stack'[i].kind \in LoopKinds,
               stack'[j].kind \in LoopKinds, stack'[i].of = stack'[j].of
        PROVE  i = j
    BY <1>3 DEF Loops
  <1> QED BY <1>1, <1>2, <1>3 DEF Loops

\* Nothing comes to life.
Falls == \A y \in Scopes : life'[y] = life[y] \/ life'[y] = "disposed"

LEMMA LoopScope ==
  ASSUME IInv
  PROVE  \A i \in Levels : stack[i].kind \in LoopKinds => stack[i].of \in Owners /\ stack[i].of \in Scopes
  <1>1. \A i \in Levels : Sound(stack[i])
    BY DEF IInv, Calls, Levels
  <1> QED BY <1>1 DEF Sound, LoopKinds, Scopes

LEMMA LoopSame ==
  ASSUME IInv, parent' = parent, Falls, NEW i \in Levels, LoopOK(stack[i]),
         stack'[i].kind = stack[i].kind, stack'[i].of = stack[i].of,
         stack'[i].at = stack[i].at \/ stack[i].kind = "cleanups",
         stack[i].kind = "children" =>
            /\ stack[i].at <= Len(children'[stack[i].of])
            /\ \A k \in 1..stack[i].at : children'[stack[i].of][k] = children[stack[i].of][k],
         stack[i].kind = "disposers" => disposers'[stack[i].of] = disposers[stack[i].of]
  PROVE  LoopOK(stack[i])'
  <1> DEFINE o == stack[i].of
  <1>0. stack[i].kind \in LoopKinds => o \in Owners /\ o \in Scopes
    BY LoopScope
  <1>1. \A y \in Scopes : life'[y] = "live" => life[y] = "live"
    BY DEF Falls
  <1>2. stack[i].kind \in LoopKinds => life'[o] = "disposed"
    BY <1>0 DEF LoopOK, Falls
  <1>3. ASSUME NEW m, PassedChildren(o, m),
               \A k \in 1..m : children'[o][k] = children[o][k]
        PROVE  \A x : x = o => \A l : l = m => PassedChildren(x, l)'
    BY <1>1, <1>3 DEF PassedChildren, Scopes
  <1>4. ASSUME NEW m, PassedDisposers(o, m),
               \A k \in 1..m : disposers'[o][k] = disposers[o][k]
        PROVE  \A x : x = o => \A l : l = m => PassedDisposers(x, l)'
    BY <1>1, <1>4 DEF PassedDisposers, Scopes
  <1>5. 1..0 = {}
    OBVIOUS
  <1>6. CASE stack[i].kind = "children"
    <2>1. PassedChildren(o, stack[i].at) /\ stack'[i].at = stack[i].at
      BY <1>6 DEF LoopOK
    <2>2. PassedChildren(stack[i].of, stack[i].at)'
      BY <1>3, <1>6, <2>1
    <2> QED BY <1>2, <1>6, <2>1, <2>2 DEF LoopOK, LoopKinds
  <1>7. CASE stack[i].kind = "disposers"
    <2>1. /\ PassedChildren(o, 0) /\ PassedDisposers(o, stack[i].at) /\ stack'[i].at = stack[i].at
          /\ stack[i].at <= Len(disposers[o])
      BY <1>7 DEF LoopOK
    <2>2. PassedChildren(stack[i].of, 0)'
      BY <1>3, <1>5, <2>1
    <2>3. PassedDisposers(stack[i].of, stack[i].at)'
      BY <1>4, <1>7, <2>1
    <2> QED BY <1>2, <1>7, <2>1, <2>2, <2>3 DEF LoopOK, LoopKinds
  <1>8. CASE stack[i].kind = "cleanups"
    <2>1. PassedChildren(o, 0) /\ PassedDisposers(o, 0)
      BY <1>8 DEF LoopOK
    <2>2. PassedChildren(stack[i].of, 0)'
      BY <1>3, <1>5, <2>1
    <2>3. PassedDisposers(stack[i].of, 0)'
      BY <1>4, <1>5, <2>1
    <2> QED BY <1>2, <1>8, <2>2, <2>3 DEF LoopOK, LoopKinds
  <1>9. CASE stack[i].kind \notin LoopKinds
    BY <1>9 DEF LoopOK, LoopKinds
  <1> QED BY <1>6, <1>7, <1>8, <1>9 DEF LoopKinds

\* A cleanup is called, it returns, and a loop over the cleanups of an effect ends.
LEMMA LoopsPlain ==
  ASSUME IInv, Loops, CallCleanup \/ CleanupReturn \/ WipeReturn \/ OutOfRange \/ UNCHANGED vars
  PROVE  Loops'
  <1>0. /\ TypeOK /\ parent' = parent /\ children' = children /\ disposers' = disposers
        /\ life' = life
    BY DEF IInv, CallCleanup, CleanupReturn, WipeReturn, OutOfRange, vars, tree
  <1>n. Len(stack) \in Nat
    BY <1>0, LevelFacts
  <1>a. Falls
    BY <1>0 DEF Falls
  <1>1. \A i \in Levels' :
          \/ /\ i \in Levels /\ stack'[i].kind = stack[i].kind /\ stack'[i].of = stack[i].of
             /\ stack'[i].at = stack[i].at \/ stack[i].kind \in SweepKinds
          \/ stack'[i].kind = "call"
    <2>1. CASE CallCleanup
      <3>1. /\ SteppedInto(Call("call", cleanups[Top.of][Top.at], 0, None))
            /\ Top.kind \in SweepKinds
        BY <2>1, EngineMoves DEF CallCleanup, Running, SweepKinds
      <3>2. \A i \in Levels' : \/ i \in 1..Len(stack)-1 /\ i \in Levels
                               \/ i = Len(stack) /\ i \in Levels
                               \/ i = Len(stack) + 1
        BY <1>n, <3>1 DEF SteppedInto, Levels
      <3> QED BY <3>1, <3>2, CallFields DEF SteppedInto, TopStepped, Top
    <2>2. CASE CleanupReturn \/ WipeReturn
      <3>1. PoppedOff
        BY <2>2, EngineMoves
      <3>2. \A i \in Levels' : i \in 1..Len(stack)-1 /\ i \in Levels
        BY <1>n, <3>1 DEF PoppedOff, Levels
      <3> QED BY <3>1, <3>2 DEF PoppedOff
    <2>3. CASE OutOfRange \/ UNCHANGED vars
      <3>1. stack' = stack
        BY <2>3 DEF OutOfRange, vars
      <3> QED BY <3>1 DEF Levels
    <2> QED BY <2>1, <2>2, <2>3
  <1>2. "call" \notin CodeKinds /\ "call" \notin LoopKinds /\ "children" \notin SweepKinds
    BY DEF CodeKinds, LoopKinds, SweepKinds
  <1>3. \A i \in Levels : LoopOK(stack[i])
    BY DEF Loops
  <1>4. ASSUME NEW i \in Levels' PROVE LoopOK(stack[i])'
    <2>1. CASE stack'[i].kind = "call"
      BY <2>1 DEF LoopOK, LoopKinds
    <2>2. CASE stack'[i].kind # "call"
      <3>1. /\ i \in Levels /\ stack'[i].kind = stack[i].kind /\ stack'[i].of = stack[i].of
            /\ stack'[i].at = stack[i].at \/ stack[i].kind \in SweepKinds
        BY <1>1, <2>2
      <3>2. CASE stack[i].kind \in SweepKinds /\ stack[i].kind # "cleanups"
        BY <3>1, <3>2 DEF LoopOK, LoopKinds, SweepKinds
      <3>3. CASE stack'[i].at = stack[i].at \/ stack[i].kind = "cleanups"
        <4>1. stack[i].kind = "children" => stack[i].at <= Len(children'[stack[i].of])
          BY <1>0, <1>3, <3>1 DEF LoopOK
        <4> QED BY <1>0, <1>a, <1>3, <3>1, <3>3, <4>1, LoopSame
      <3> QED BY <3>1, <3>2, <3>3
    <2> QED BY <2>1, <2>2
  <1> QED BY <1>0, <1>1, <1>2, <1>4, LoopsKept

\* A new loop on top of the others.
LEMMA LoopsAdded ==
  ASSUME IInv, Trees, Loops, parent' = parent, children' = children, disposers' = disposers, Falls,
         NEW o \in Owners, life[o] = "live", life'[o] = "disposed",
         Len(stack') = Len(stack) + 1, stack'[Len(stack) + 1] = FirstLoop(o),
         \A i \in Levels : /\ stack'[i].kind = stack[i].kind /\ stack'[i].of = stack[i].of
                           /\ stack'[i].at \in Nat /\ stack'[i].at <= stack[i].at
                           /\ LoopOK(stack[i])',
         \A i \in Levels : stack[i].kind = "children" =>
            \A k \in 1..stack'[i].at : children[stack[i].of][k] # o,
         \A i \in Levels : stack[i].kind \in CodeKinds => stack[i].of \notin Under(o)
  PROVE  Loops'
  <1> DEFINE n == Len(stack) + 1
  <1>0. TypeOK
    BY DEF IInv
  <1>1. /\ \A i \in Levels' : i \in Levels \/ i = n
        /\ \A i, j \in Levels' : i < j => i \in Levels
        /\ n \in Levels' /\ n \notin Levels
    <2>1. Len(stack) \in Nat
      BY <1>0, LevelFacts
    <2> QED BY <2>1 DEF Levels
  <1>2. /\ stack'[n].kind = "children" /\ stack'[n].of = o /\ stack'[n].at = Len(children[o])
    BY CallFields DEF FirstLoop
  <1>3. \A i \in Levels' : i \in Levels =>
          /\ stack'[i].kind = stack[i].kind /\ stack'[i].of = stack[i].of
          /\ \A k \in 1..stack'[i].at : k \in 1..stack[i].at
    <2>1. \A i \in Levels : stack[i].at \in Nat /\ stack'[i].at \in Nat /\ stack'[i].at <= stack[i].at
      BY <1>0, LevelFacts
    <2>2. ASSUME NEW a \in Nat, NEW b \in Nat, b <= a, NEW k \in 1..b PROVE k \in 1..a
      BY <2>2
    <2> QED BY <2>1, <2>2
  <1> HIDE DEF n
  <1>4. ASSUME NEW i \in Levels' PROVE LoopOK(stack[i])'
    <2>1. CASE i \in Levels
      BY <2>1
    <2>2. CASE i = n
      <3>1. Len(children[o]) \in Nat
        BY <1>0, LevelFacts
      <3>2. \A x : x = o => \A m : m = Len(children[o]) => PassedChildren(x, m)'
        <4>1. \A y \in Owners : life'[y] = "live" => life[y] = "live"
          BY DEF Falls, Scopes
        <4> QED BY <4>1 DEF PassedChildren, Trees, Holds
      <3>3. stack'[i].at <= Len(children'[stack'[i].of])
        BY <1>2, <2>2, <3>1
      <3> QED BY <1>2, <2>2, <3>2, <3>3 DEF LoopOK
    <2> QED BY <1>1, <2>1, <2>2
  <1>u. \A x, y : x = y => Under(x)' = Under(y)
    BY DEF Under, Closed
  <1>5. ASSUME NEW i \in Levels', NEW j \in Levels' PROVE Apart(stack[i], stack[j])'
    <2> SUFFICES ASSUME stack'[i].kind \in LoopKinds, stack'[j].kind \in CodeKinds
                 PROVE  stack'[j].of \notin Under(stack[i].of)'
      BY DEF Apart
    <2>1. j \in Levels /\ stack'[j].of = stack[j].of /\ stack[j].kind \in CodeKinds
      BY <1>1, <1>2, <1>3 DEF CodeKinds
    <2>2. Under(stack[i].of)' = Under(stack'[i].of)
      <3>1. \A x : x = stack'[i].of => Under(x)' = Under(stack[i].of)' /\ Under(x)' = Under(x)
        BY DEF Under, Closed
      <3> QED BY <3>1, <1>u
    <2>3. CASE i \in Levels
      BY <1>3, <2>1, <2>2, <2>3 DEF Loops, Apart
    <2>4. CASE i = n
      BY <1>2, <2>1, <2>2, <2>4
    <2> QED BY <1>1, <2>3, <2>4
  <1>6. ASSUME NEW i \in Levels', NEW j \in Levels', i < j PROVE Behind(stack[i], stack[j])'
    <2> SUFFICES ASSUME stack'[i].kind = "children", stack'[j].kind \in LoopKinds,
                        NEW k \in 1..stack'[i].at
                 PROVE  children'[stack'[i].of][k] # stack'[j].of
      BY DEF Behind
    <2>1. i \in Levels /\ stack[i].kind = "children" /\ stack'[i].of = stack[i].of /\ k \in 1..stack[i].at
      BY <1>1, <1>3, <1>6
    <2>2. CASE j \in Levels
      BY <1>3, <1>6, <2>1, <2>2 DEF Loops, Behind
    <2>3. CASE j = n
      BY <1>2, <2>1, <2>3
    <2> QED BY <1>1, <2>2, <2>3
  <1>7. ASSUME NEW i \in Levels', NEW j \in Levels', stack'[i].kind \in LoopKinds,
               stack'[j].kind \in LoopKinds, stack'[i].of = stack'[j].of
        PROVE  i = j
    <2>1. \A l \in Levels : stack[l].kind \in LoopKinds => stack[l].of # o
      BY DEF Loops, LoopOK
    <2> QED BY <1>1, <1>2, <1>3, <1>7, <2>1 DEF Loops
  <1> QED BY <1>4, <1>5, <1>6, <1>7 DEF Loops

LEMMA LoopsDisposeOwner ==
  ASSUME IInv, QInv, Trees, Loops, Orderly, Silent(program), NEW o \in Owners, DisposeOwner(o)
  PROVE  Loops'
  <1>0. TypeOK /\ o \in Scopes /\ Shape
    BY DEF IInv, QInv, Scopes
  <1>1. /\ life[o] = "live" /\ life' = [life EXCEPT ![o] = "disposed"]
        /\ parent' = parent /\ children' = children /\ disposers' = disposers
    BY DEF DisposeOwner, tree
  <1>2. AllCode
    BY <1>0, UserStepFacts DEF UserStep
  <1>3. Pushed(FirstLoop(o))
    BY UserMoves
  <1>4. Falls /\ life'[o] = "disposed"
    BY <1>0, <1>1, LifeSet DEF Falls
  <1>5. \A i \in Levels : /\ stack'[i].kind = stack[i].kind /\ stack'[i].of = stack[i].of
                          /\ stack'[i].at = stack[i].at /\ stack[i].at \in Nat
    BY <1>0, <1>3, LevelFacts DEF Pushed
  <1>6. \A i \in Levels : LoopOK(stack[i])'
    BY <1>2, <1>5 DEF AllCode, CodeKinds, LoopOK, LoopKinds
  <1>7. \A i \in Levels : stack[i].kind # "children"
    BY <1>2 DEF AllCode, CodeKinds
  <1>8. \A i \in Levels : stack[i].of \notin Under(o)
    BY DEF Orderly, Inside
  <1>9. \A i \in Levels : stack'[i].at \in Nat /\ stack'[i].at <= stack[i].at
    BY <1>5
  <1> QED BY <1>1, <1>3, <1>4, <1>5, <1>6, <1>7, <1>8, <1>9, LoopsAdded DEF Pushed

\* The frames below a loop that makes a step.
LEMMA BelowTop ==
  ASSUME IInv, Loops, parent' = parent, children' = children, disposers' = disposers, Falls,
         TopStepped, NEW i \in Levels, i # Len(stack)
  PROVE  stack'[i] = stack[i] /\ LoopOK(stack[i])'
  <1>a. Len(stack) \in Nat
    BY LevelFacts DEF IInv
  <1>0. i \in 1..Len(stack)-1
    BY <1>a DEF Levels
  <1>1. stack'[i] = stack[i]
    BY <1>0 DEF TopStepped
  <1>2. LoopOK(stack[i])
    BY DEF Loops
  <1>3. stack[i].kind = "children" => stack[i].at <= Len(children'[stack[i].of])
    BY <1>2 DEF LoopOK
  <1> QED BY <1>1, <1>2, <1>3, LoopSame

LEMMA LoopsDisposeChild ==
  ASSUME IInv, Trees, Loops, DisposeChild
  PROVE  Loops'
  <1> DEFINE child == children[Top.of][Top.at]
             n == Len(stack)
  <1>0. TypeOK
    BY DEF IInv
  <1>1. /\ Top.kind = "children" /\ n \in Levels /\ Top.of \in Owners
        /\ Top.at \in 1..Len(children[Top.of]) /\ child \in Owners
        /\ parent[child] = Top.of /\ child \in Under(Top.of) /\ Top = stack[n]
    BY LoopTarget DEF Top
  <1>2. parent' = parent /\ children' = children /\ disposers' = disposers
    BY DEF DisposeChild, tree
  <1>3. \/ life[child] = "live" /\ life' = [life EXCEPT ![child] = "disposed"]
        \/ life[child] # "live" /\ life' = life
    BY DEF DisposeChild
  <1>4. IF life[child] = "live" THEN SteppedInto(FirstLoop(child)) ELSE SteppedDown
    BY EngineMoves
  <1>n. n \in Nat /\ n >= 1 /\ Len(children[Top.of]) \in Nat /\ Top.at \in Nat
        /\ \A i \in Levels : stack[i].at \in Nat
    BY <1>0, <1>1, LevelFacts DEF Levels
  <1> HIDE DEF child, n
  <1>5. Falls /\ life'[child] # "live"
    <2>1. child \in Scopes
      BY <1>1 DEF Scopes
    <2>2. ASSUME NEW x \in Scopes, life' = [life EXCEPT ![x] = "disposed"]
          PROVE  Falls /\ life'[x] = "disposed"
      BY <1>0, <2>2, LifeSet DEF Falls
    <2> QED BY <1>3, <2>1, <2>2 DEF Falls
  <1>6. TopStepped
    BY <1>4 DEF SteppedInto, SteppedDown
  <1>7. /\ stack'[n].kind = "children" /\ stack'[n].of = Top.of /\ stack'[n].at = Top.at - 1
        /\ stack'[n].at \in Nat
    <2>1. stack'[n].kind = "children" /\ stack'[n].of = Top.of /\ stack'[n].at = Top.at - 1
      BY <1>1, <1>6 DEF TopStepped, n
    <2>2. Top.at - 1 \in Nat
      BY <1>1, <1>n
    <2> QED BY <2>1, <2>2
  <1>8. \A i \in Levels : i # n => stack'[i] = stack[i] /\ LoopOK(stack[i])'
    BY <1>2, <1>5, <1>6, BelowTop DEF n
  <1>9. ASSUME NEW i \in Levels, i = n PROVE LoopOK(stack[i])'
    <2>1. LoopOK(stack[i]) /\ stack[i] = Top
      BY <1>1, <1>9 DEF Loops
    <2>2. life'[Top.of] = "disposed"
      <3>1. life[Top.of] = "disposed"
        BY <1>1, <2>1 DEF LoopOK, LoopKinds
      <3> QED BY <1>1, <1>5, <3>1 DEF Falls, Scopes
    <2>3. \A x \in Owners : life'[x] = "live" /\ parent'[x] = Top.of =>
            \E k \in 1..Top.at-1 : children'[Top.of][k] = x
      <3> SUFFICES ASSUME NEW x \in Owners, life'[x] = "live", parent'[x] = Top.of
                   PROVE  \E k \in 1..Top.at-1 : children'[Top.of][k] = x
        OBVIOUS
      <3>1. life[x] = "live" /\ parent[x] = Top.of
        BY <1>2, <1>5 DEF Falls, Scopes
      <3>2. PICK k \in 1..Top.at : children[Top.of][k] = x
        BY <1>1, <2>1, <3>1 DEF LoopOK, PassedChildren
      <3>3. k # Top.at
        BY <1>5, <3>2 DEF child
      <3>4. k \in 1..Top.at-1
        BY <1>n, <3>3
      <3> QED BY <1>2, <3>2, <3>4
    <2>4. Top.at - 1 <= Len(children'[Top.of])
      BY <1>1, <1>2, <1>n
    <2>5. \A o : o = Top.of => \A m : m = Top.at - 1 => PassedChildren(o, m)'
      BY <2>3 DEF PassedChildren
    <2> QED BY <1>7, <1>9, <2>2, <2>4, <2>5 DEF LoopOK, LoopKinds
  <1>10. \A i \in Levels : /\ stack'[i].kind = stack[i].kind /\ stack'[i].of = stack[i].of
                           /\ stack'[i].at \in Nat /\ stack'[i].at <= stack[i].at
                           /\ LoopOK(stack[i])'
    <2>1. Top.at - 1 <= Top.at
      BY <1>n
    <2>2. \A i \in Levels : stack[i].at <= stack[i].at
      BY <1>n
    <2>3. \A i \in Levels : LoopOK(stack[i])'
      BY <1>8, <1>9
    <2>4. \A i \in Levels : /\ stack'[i].kind = stack[i].kind /\ stack'[i].of = stack[i].of
                            /\ stack'[i].at \in Nat /\ stack'[i].at <= stack[i].at
      BY <1>1, <1>7, <1>8, <1>n, <2>1, <2>2
    <2> QED BY <2>3, <2>4
  <1>11. CASE SteppedInto(FirstLoop(child)) /\ life[child] = "live"
    <2>1. life'[child] = "disposed"
      BY <1>0, <1>1, <1>3, <1>11, LifeSet DEF Scopes
    <2>2. ASSUME NEW i \in Levels, stack[i].kind = "children", NEW k \in 1..stack'[i].at
          PROVE  children[stack[i].of][k] # child
      <3>0. i \in Levels /\ k \in 1..stack[i].at /\ stack[i].at <= Len(children[stack[i].of])
            /\ stack[i].of \in Owners /\ k \in Nat
        <4>1. stack[i].at <= Len(children[stack[i].of]) /\ stack[i].of \in Owners
          BY <2>2, LoopScope DEF Loops, LoopOK, LoopKinds
        <4>2. stack'[i].at <= stack[i].at /\ stack[i].at \in Nat /\ stack'[i].at \in Nat
          BY <1>10, <1>n
        <4>3. k \in 1..stack[i].at /\ k \in Nat
          BY <4>2
        <4> QED BY <4>1, <4>3
      <3>1. k \in 1..Len(children[stack[i].of])
        <4>1. Len(children[stack[i].of]) \in Nat /\ stack[i].at \in Nat
          BY <1>0, <1>n, <3>0, LevelFacts
        <4> QED BY <3>0, <4>1
      <3>2. CASE i = n
        <4>1. k # Top.at
          BY <1>7, <1>n, <3>2
        <4>2. \A l, m \in 1..Len(children[Top.of]) : children[Top.of][l] = children[Top.of][m] => l = m
          BY <1>1 DEF Trees
        <4> QED BY <1>1, <3>1, <3>2, <4>1, <4>2 DEF child
      <3>3. CASE i # n
        <4>1. stack[i].of # Top.of
          BY <1>1, <2>2, <3>3 DEF Loops, LoopKinds
        <4>2. parent[children[stack[i].of][k]] = stack[i].of
          BY <3>0, <3>1 DEF Trees
        <4> QED BY <1>1, <4>1, <4>2
      <3> QED BY <3>2, <3>3
    <2>3. ASSUME NEW i \in Levels, stack[i].kind \in CodeKinds PROVE stack[i].of \notin Under(child)
      <3>1. stack[i].of \notin Under(Top.of)
        BY <1>1, <2>3 DEF Loops, Apart, LoopKinds
      <3> QED BY <1>1, <3>1, UnderFacts
    <2> QED BY <1>1, <1>2, <1>5, <1>10, <1>11, <2>1, <2>2, <2>3, LoopsAdded DEF SteppedInto, n
  <1>12. CASE SteppedDown
    <2>1. Levels' = Levels
      BY <1>12 DEF SteppedDown, Levels
    <2>2. ASSUME NEW i \in Levels, NEW k \in 1..stack'[i].at PROVE k \in 1..stack[i].at
      <3>1. stack'[i].at <= stack[i].at /\ stack[i].at \in Nat /\ stack'[i].at \in Nat
        BY <1>10, <1>n
      <3> QED BY <3>1
    <2> QED BY <1>2, <1>10, <2>1, <2>2, LoopsKept
  <1> QED BY <1>4, <1>11, <1>12

LEMMA LoopsCallDisposer ==
  ASSUME IInv, Trees, Loops, CallDisposer
  PROVE  Loops'
  <1> DEFINE e == disposers[Top.of][Top.at]
             n == Len(stack)
  <1>0. TypeOK
    BY DEF IInv
  <1>1. /\ Top.kind = "disposers" /\ n \in Levels /\ Top.of \in Owners
        /\ Top.at \in 1..Len(disposers[Top.of]) /\ e \in Effects /\ Top = stack[n]
    BY LoopTarget DEF Top
  <1>2. parent' = parent /\ children' = children /\ disposers' = disposers
    BY DEF CallDisposer, tree
  <1>3. life' = [life EXCEPT ![e] = "disposed"]
    BY DEF CallDisposer
  <1>4. SteppedInto(Call("wipe", e, Len(cleanups[e]), None))
    BY EngineMoves
  <1>n. n \in Nat /\ n >= 1 /\ Len(disposers[Top.of]) \in Nat /\ Top.at \in Nat
    BY <1>0, <1>1, LevelFacts DEF Levels
  <1> HIDE DEF e, n
  <1>5. Falls /\ life'[e] = "disposed"
    <2>1. e \in Scopes
      BY <1>1 DEF Scopes
    <2>2. ASSUME NEW x \in Scopes, life' = [life EXCEPT ![x] = "disposed"]
          PROVE  Falls /\ life'[x] = "disposed"
      BY <1>0, <2>2, LifeSet DEF Falls
    <2> QED BY <1>3, <2>1, <2>2
  <1>6. TopStepped
    BY <1>4 DEF SteppedInto
  <1>7. stack'[n].kind = "disposers" /\ stack'[n].of = Top.of /\ stack'[n].at = Top.at - 1
    BY <1>1, <1>6 DEF TopStepped, n
  <1>8. \A i \in Levels : i # n => stack'[i] = stack[i] /\ LoopOK(stack[i])'
    BY <1>2, <1>5, <1>6, BelowTop DEF n
  <1>9. ASSUME NEW i \in Levels, i = n PROVE LoopOK(stack[i])'
    <2>1. LoopOK(stack[i]) /\ stack[i] = Top
      BY <1>1, <1>9 DEF Loops
    <2>2. life'[Top.of] = "disposed"
      <3>1. life[Top.of] = "disposed"
        BY <1>1, <2>1 DEF LoopOK, LoopKinds
      <3> QED BY <1>1, <1>5, <3>1 DEF Falls, Scopes
    <2>3. \A x \in Effects : life'[x] = "live" /\ parent'[x] = Top.of =>
            \E k \in 1..Top.at-1 : disposers'[Top.of][k] = x
      <3> SUFFICES ASSUME NEW x \in Effects, life'[x] = "live", parent'[x] = Top.of
                   PROVE  \E k \in 1..Top.at-1 : disposers'[Top.of][k] = x
        OBVIOUS
      <3>1. life[x] = "live" /\ parent[x] = Top.of
        BY <1>2, <1>5 DEF Falls, Scopes
      <3>2. PICK k \in 1..Top.at : disposers[Top.of][k] = x
        BY <1>1, <2>1, <3>1 DEF LoopOK, PassedDisposers
      <3>3. k # Top.at
        BY <1>5, <3>2 DEF e
      <3>4. k \in 1..Top.at-1
        BY <1>n, <3>3
      <3> QED BY <1>2, <3>2, <3>4
    <2>4. Top.at - 1 <= Len(disposers'[Top.of])
      BY <1>1, <1>2, <1>n
    <2>5. \A o : o = Top.of => \A m : m = Top.at - 1 => PassedDisposers(o, m)'
      BY <2>3 DEF PassedDisposers
    <2>6. \A o : o = Top.of => PassedChildren(o, 0)'
      <3>1. PassedChildren(Top.of, 0) /\ 1..0 = {}
        BY <1>1, <2>1 DEF LoopOK
      <3>2. \A x \in Owners : life'[x] = "live" => life[x] = "live"
        BY <1>5 DEF Falls, Scopes
      <3> QED BY <1>2, <3>1, <3>2 DEF PassedChildren
    <2> QED BY <1>7, <1>9, <2>2, <2>4, <2>5, <2>6 DEF LoopOK, LoopKinds
  <1>10. \A i \in Levels' : \/ i \in Levels
                            \/ i = n + 1 /\ stack'[i].kind = "wipe"
    BY <1>n, <1>4, CallFields DEF SteppedInto, Levels, n
  <1>11. \A i \in Levels : stack'[i].kind = stack[i].kind /\ stack'[i].of = stack[i].of
    BY <1>1, <1>7, <1>8
  <1>12. "wipe" \notin LoopKinds /\ "wipe" \notin CodeKinds
    BY DEF LoopKinds, CodeKinds
  <1>13. ASSUME NEW i \in Levels', stack'[i].kind = "children"
         PROVE  /\ stack[i].kind = "children"
                /\ \A k \in 1..stack'[i].at : /\ k \in 1..stack[i].at
                                              /\ children'[stack[i].of][k] = children[stack[i].of][k]
    BY <1>2, <1>7, <1>8, <1>10, <1>11, <1>13
  <1>14. ASSUME NEW i \in Levels' PROVE LoopOK(stack[i])'
    <2>1. CASE i \in Levels
      BY <1>8, <1>9, <2>1
    <2>2. CASE stack'[i].kind = "wipe"
      BY <2>2 DEF LoopOK, LoopKinds
    <2> QED BY <1>10, <2>1, <2>2
  <1>15. \A i \in Levels' : stack'[i].kind \in LoopKinds \cup CodeKinds => i \in Levels
    BY <1>10, <1>12
  <1> QED BY <1>2, <1>11, <1>13, <1>14, <1>15, LoopsKept

LEMMA LoopsNext ==
  ASSUME IInv, Trees, Loops, NextLoop
  PROVE  Loops'
  <1> DEFINE n == Len(stack)
             o == Top.of
  <1>0. TypeOK
    BY DEF IInv
  <1>1. /\ parent' = parent /\ children' = children /\ disposers' = disposers /\ life' = life
        /\ Top.at = 0 /\ Top.kind \in {"children", "disposers"} /\ stack # <<>>
    BY DEF NextLoop, tree, Running
  <1>2. /\ n \in Levels /\ Top = stack[n] /\ o \in Owners /\ LoopOK(Top)
    <2>1. Len(stack) \in Levels
      BY <1>0, <1>1, LevelFacts DEF Levels
    <2> QED BY <1>1, <2>1, LoopScope DEF Loops, Top, LoopKinds
  <1>n. n \in Nat /\ Len(disposers[o]) \in Nat
    BY <1>0, <1>2, LevelFacts
  <1>3. /\ Levels' = Levels /\ \A i \in Levels : i # n => stack'[i] = stack[i]
        /\ stack'[n].of = o
        /\ \/ /\ Top.kind = "children" /\ stack'[n].kind = "disposers"
              /\ stack'[n].at = Len(disposers[o])
           \/ Top.kind = "disposers" /\ stack'[n].kind = "cleanups"
    <2>1. Len(stack') = n /\ \A i \in 1..n-1 : stack'[i] = stack[i]
      BY EngineMoves DEF Swapped
    <2>2. \A i \in Levels : i # n => i \in 1..n-1
      BY <1>n DEF Levels
    <2>3. /\ stack'[n].of = o
          /\ \/ /\ Top.kind = "children" /\ stack'[n].kind = "disposers"
                /\ stack'[n].at = Len(disposers[o])
             \/ Top.kind = "disposers" /\ stack'[n].kind = "cleanups"
      BY EngineMoves, CallFields DEF Swapped
    <2> QED BY <2>1, <2>2, <2>3 DEF Levels
  <1> HIDE DEF n, o
  <1>4. Falls
    BY <1>1 DEF Falls
  <1>5. ASSUME NEW i \in Levels, i # n PROVE LoopOK(stack[i])'
    <2>1. LoopOK(stack[i])
      BY DEF Loops
    <2>2. stack[i].kind = "children" => stack[i].at <= Len(children'[stack[i].of])
      BY <1>1, <2>1 DEF LoopOK
    <2>3. stack'[i] = stack[i]
      BY <1>3, <1>5
    <2> QED BY <1>1, <1>4, <2>1, <2>2, <2>3, LoopSame
  <1>6. ASSUME NEW i \in Levels, i = n PROVE LoopOK(stack[i])'
    <2>1. life'[o] = "disposed"
      BY <1>1, <1>2 DEF LoopOK, LoopKinds, o
    <2>2. PassedChildren(o, 0)
      BY <1>1, <1>2 DEF LoopOK, o
    <2>3. \A x : x = o => PassedChildren(x, 0)'
      BY <1>1, <2>2 DEF PassedChildren
    <2>4. CASE Top.kind = "children" /\ stack'[n].kind = "disposers" /\ stack'[n].at = Len(disposers[o])
      <3>1. PassedDisposers(o, Len(disposers[o]))
        BY <1>2 DEF Trees, Holds, PassedDisposers, Scopes
      <3>2. \A x : x = o => \A m : m = Len(disposers[o]) => PassedDisposers(x, m)'
        BY <1>1, <3>1 DEF PassedDisposers
      <3>3. Len(disposers[o]) <= Len(disposers'[o])
        BY <1>1, <1>n
      <3> QED BY <1>3, <1>6, <2>1, <2>3, <2>4, <3>2, <3>3 DEF LoopOK, LoopKinds
    <2>5. CASE Top.kind = "disposers" /\ stack'[n].kind = "cleanups"
      <3>1. PassedDisposers(o, 0)
        BY <1>1, <1>2, <2>5 DEF LoopOK, o
      <3>2. \A x : x = o => PassedDisposers(x, 0)'
        BY <1>1, <3>1 DEF PassedDisposers
      <3> QED BY <1>3, <1>6, <2>1, <2>3, <2>5, <3>2 DEF LoopOK, LoopKinds
    <2> QED BY <1>3, <2>4, <2>5
  <1>7. \A i \in Levels : /\ stack'[i].of = stack[i].of
                          /\ stack'[i].kind \in LoopKinds => stack[i].kind \in LoopKinds
                          /\ stack'[i].kind \in CodeKinds => stack[i].kind \in CodeKinds
                          /\ stack'[i].kind = "children" => stack'[i] = stack[i]
    BY <1>1, <1>2, <1>3 DEF LoopKinds, CodeKinds, o
  <1>8. \A i \in Levels' : LoopOK(stack[i])'
    BY <1>3, <1>5, <1>6
  <1> QED BY <1>1, <1>3, <1>7, <1>8, LoopsKept

\* The end of a disposal takes an owner out of an array only behind the loop over it.
LEMMA LoopsReturn ==
  ASSUME IInv, Shape, Trees, Loops, DisposeReturn
  PROVE  Loops'
  <1> DEFINE n == Len(stack)
             o == Top.of
  <1>0. TypeOK /\ parent' = parent /\ life' = life
    BY DEF IInv, DisposeReturn
  <1>1. /\ o \in Owners /\ Top.kind = "cleanups" /\ n \in Levels /\ Top = stack[n]
        /\ \A q \in Owners :
              /\ q # o => disposers'[q] = disposers[q]
              /\ q # o /\ q # parent[o] => children'[q] = children[q]
              /\ q # o /\ q = parent[o] => children'[q] = Without(children[q], o)
    BY ReturnArrays DEF Top
  <1>n. n \in Nat
    BY <1>0, LevelFacts
  <1>2. PoppedOff
    BY EngineMoves
  <1>3. \A i \in Levels' : i \in Levels /\ i < n /\ i # n /\ stack'[i] = stack[i]
    <2>1. \A i \in Levels' : i \in Levels /\ i < n /\ i # n /\ i \in 1..n-1
      BY <1>n, <1>2 DEF PoppedOff, Levels
    <2> QED BY <1>2, <2>1 DEF PoppedOff
  <1> HIDE DEF n, o
  <1>4. Falls
    BY <1>0 DEF Falls
  <1>5. ASSUME NEW i \in Levels', stack[i].kind \in LoopKinds
        PROVE  stack[i].kind = "children" /\ stack[i].of \in Owners /\ stack[i].of # o
    <2>1. stack[i].kind # "cleanups" /\ stack[i].kind # "disposers"
      BY <1>1, <1>3 DEF Shape, SweepKinds
    <2>2. stack[i].of # o
      BY <1>1, <1>3, <1>5 DEF Loops, LoopKinds, o
    <2> QED BY <1>3, <1>5, <2>1, <2>2, LoopScope DEF LoopKinds
  <1>6. ASSUME NEW i \in Levels', stack[i].kind = "children"
        PROVE  /\ stack[i].at <= Len(children'[stack[i].of])
               /\ \A k \in 1..stack[i].at : children'[stack[i].of][k] = children[stack[i].of][k]
    <2> DEFINE q == stack[i].of
               m == stack[i].at
    <2>1. q \in Owners /\ q # o
      BY <1>5, <1>6 DEF LoopKinds
    <2>2. m \in Nat /\ m <= Len(children[q]) /\ children[q] \in Seq(Owners)
      <3>1. m <= Len(children[q])
        BY <1>3, <1>6 DEF Loops, LoopOK
      <3> QED BY <1>0, <1>3, <2>1, <3>1, LevelFacts DEF TypeOK
    <2>3. \A k \in 1..m : children[q][k] # o
      BY <1>1, <1>3, <1>6 DEF Loops, Behind, LoopKinds, o
    <2> HIDE DEF q, m
    <2>4. CASE q # parent[o]
      <3>1. children'[q] = children[q]
        BY <1>1, <2>1, <2>4
      <3> QED BY <2>2, <3>1 DEF q, m
    <2>5. CASE q = parent[o]
      <3>1. children'[q] = Without(children[q], o)
        BY <1>1, <2>1, <2>5
      <3>2. m <= Len(Without(children[q], o)) /\ \A k \in 1..m : Without(children[q], o)[k] = children[q][k]
        BY <2>2, <2>3, WithoutArray
      <3> QED BY <3>1, <3>2 DEF q, m
    <2> QED BY <2>4, <2>5
  <1>7. ASSUME NEW i \in Levels' PROVE LoopOK(stack[i])'
    <2>1. i \in Levels /\ stack'[i] = stack[i] /\ LoopOK(stack[i])
      BY <1>3 DEF Loops
    <2>2. stack[i].kind # "disposers"
      BY <1>5 DEF LoopKinds
    <2> QED BY <1>0, <1>4, <1>6, <2>1, <2>2, LoopSame
  <1> QED BY <1>0, <1>3, <1>6, <1>7, LoopsKept

LEMMA LoopsStep ==
  ASSUME IInv, QInv, Trees, Loops, Orderly, Silent(program), [Next]_vars
  PROVE  Loops'
  <1>0. TypeOK /\ Shape
    BY DEF IInv, QInv
  <1>1. ASSUME NoLoop, ~\E o \in Owners : DisposeOwner(o) PROVE Loops'
    BY <1>1, NoLoopStep, LoopsNone
  <1>2. AllCode => NoLoop
    BY DEF AllCode, NoLoop, CodeKinds, LoopKinds
  <1>3. \A o \in Owners : DisposeOwner(o) => Loops'
    BY LoopsDisposeOwner
  <1>4. CASE UserStep
    BY <1>0, <1>1, <1>2, <1>3, <1>4, UserStepFacts
  <1>5. CASE OwnerReturn \/ FirstReturn \/ RunReturn
    <2>1. Top.kind \in CodeKinds
      BY <1>5 DEF OwnerReturn, FirstReturn, RunReturn, Running, CodeKinds
    <2>2. AllCode
      BY <1>0, <2>1, CodeBelow
    <2> QED BY <1>1, <1>2, <1>3, <2>2
  <1>6. CASE RunStart
    <2>1. Top.kind = "clean" /\ Len(stack) \in Levels /\ Len(stack) \in Nat
      <3>1. stack # <<>> /\ Top.kind = "clean"
        BY <1>6 DEF RunStart, Running
      <3>2. Len(stack) \in Nat /\ Len(stack) # 0
        BY <1>0, <3>1, LevelFacts
      <3> QED BY <3>1, <3>2 DEF Levels
    <2>2. \A i \in Levels : i = Len(stack) \/ i < Len(stack)
      BY <2>1 DEF Levels
    <2>3. NoLoop
      BY <1>0, <2>1, <2>2 DEF Shape, NoLoop, Top, CodeKinds, LoopKinds
    <2> QED BY <1>1, <1>3, <2>3
  <1>7. CASE Microtask
    <2>1. Levels = {}
      <3>1. Len(stack) = 0
        BY <1>0, <1>7, LevelFacts DEF Microtask
      <3> QED BY <3>1 DEF Levels
    <2>2. NoLoop
      BY <2>1 DEF NoLoop
    <2> QED BY <1>1, <1>3, <2>2
  <1>8. CASE CallCleanup \/ CleanupReturn \/ WipeReturn \/ OutOfRange \/ UNCHANGED vars
    BY <1>8, LoopsPlain
  <1>9. CASE DisposeChild
    BY <1>9, LoopsDisposeChild
  <1>10. CASE CallDisposer
    BY <1>10, LoopsCallDisposer
  <1>11. CASE NextLoop
    BY <1>11, LoopsNext
  <1>12. CASE DisposeReturn
    BY <1>0, <1>12, LoopsReturn
  <1> QED BY <1>4, <1>5, <1>6, <1>7, <1>8, <1>9, <1>10, <1>11, <1>12 DEF Next, EngineStep

-----------------------------------------------------------------------------
(* The loops over cleanups                                                 *)

\* A loop of a disposal goes on, or a loop over the cleanups of its owner begins.
LEMMA LoopPending ==
  ASSUME IInv, QInv, Silent(program), [Next]_vars,
         NEW i \in Levels, stack[i].kind \in {"children", "disposers"}
  PROVE  /\ i \in Levels' /\ stack'[i].of = stack[i].of
         /\ \/ stack'[i].kind \in {"children", "disposers"}
            \/ stack'[i].kind = "cleanups" /\ stack'[i].at = Len(cleanups[stack[i].of])
  <1> DEFINE K == {"children", "disposers"}
             Goal == /\ i \in Levels' /\ stack'[i].of = stack[i].of
                     /\ \/ stack'[i].kind \in K
                        \/ stack'[i].kind = "cleanups" /\ stack'[i].at = Len(cleanups[stack[i].of])
  <1>0. TypeOK
    BY DEF IInv
  <1>n. Len(stack) \in Nat /\ (i = Len(stack) \/ i \in 1..Len(stack)-1)
    <2>1. Len(stack) \in Nat
      BY <1>0, LevelFacts
    <2> QED BY <2>1 DEF Levels
  <1> SUFFICES Goal
    OBVIOUS
  <1>1. ASSUME SameFrames(K) PROVE Goal
    BY <1>1 DEF SameFrames
  <1> HIDE DEF Goal
  <1>2. CASE UserStep
    BY <1>2, UserStepFacts DEF QInv, AllCode, CodeKinds
  <1>3. CASE Microtask
    <2>1. Len(stack) = 0
      BY <1>0, <1>3, LevelFacts DEF Microtask
    <2> QED BY <2>1 DEF Levels
  <1>4. CASE OwnerReturn \/ FirstReturn \/ RunReturn \/ CleanupReturn \/ WipeReturn \/ DisposeReturn
    <2>1. PoppedOff
      BY <1>4, EngineMoves
    <2>2. Top.kind \notin K
      BY <1>4 DEF OwnerReturn, FirstReturn, RunReturn, CleanupReturn, WipeReturn, DisposeReturn, Running
    <2> HIDE DEF K
    <2> QED BY <1>0, <1>1, <2>1, <2>2, FramesKept
  <1>5. CASE RunStart
    <2> DEFINE f == Call("run", Top.of, 0, tracking)
    <2>1. Swapped(f) /\ f.kind \notin K /\ Top.kind \notin K
      BY <1>5, EngineMoves, CallFields DEF RunStart, Running
    <2> HIDE DEF f, K
    <2> QED BY <1>0, <1>1, <2>1, FramesKept
  <1>6. CASE CallCleanup
    <2> DEFINE f == Call("call", cleanups[Top.of][Top.at], 0, None)
    <2>1. SteppedInto(f) /\ f.kind \notin K
      BY <1>6, EngineMoves, CallFields
    <2> HIDE DEF f, K
    <2> QED BY <1>0, <1>1, <2>1, FramesKept
  <1>7. CASE CallDisposer
    <2>1. \E f : SteppedInto(f) /\ f.kind = "wipe"
      BY <1>7, EngineMoves, CallFields
    <2>2. "wipe" \notin K
      OBVIOUS
    <2> HIDE DEF K
    <2> QED BY <1>0, <1>1, <2>1, <2>2, FramesKept
  <1>8. CASE DisposeChild
    <2>1. \/ SteppedDown
          \/ TopStepped /\ Len(stack') = Len(stack) + 1
      BY <1>8, EngineMoves DEF SteppedInto
    <2>2. TopStepped /\ i \in Levels'
      BY <1>n, <2>1 DEF SteppedDown, Levels
    <2> QED BY <1>n, <2>2 DEF TopStepped, Top, Goal
  <1>9. CASE NextLoop
    <2>1. \E f : /\ Swapped(f) /\ f.of = Top.of
                 /\ f.kind = "disposers" \/ (f.kind = "cleanups" /\ f.at = Len(cleanups[Top.of]))
      BY <1>9, EngineMoves, CallFields
    <2>2. i \in Levels'
      BY <2>1 DEF Swapped, Levels
    <2> QED BY <1>n, <2>1, <2>2 DEF Swapped, Top, Goal
  <1>10. CASE OutOfRange \/ UNCHANGED vars
    BY <1>10 DEF OutOfRange, vars, Levels, Goal
  <1> QED BY <1>2, <1>3, <1>4, <1>5, <1>6, <1>7, <1>8, <1>9, <1>10 DEF Next, EngineStep

\* There is at most one loop over cleanups.
LEMMA OneSweep ==
  ASSUME TypeOK, Shape
  PROVE  /\ \A i, j \in Levels : stack[i].kind \in SweepKinds /\ stack[j].kind \in SweepKinds => i = j
         /\ \A i \in Levels : stack[i].kind \in SweepKinds /\ i # Len(stack) => Top.kind = "call"
         /\ stack # <<>> => Len(stack) \in Levels
         /\ AllCode => \A i \in Levels : stack[i].kind \notin SweepKinds
  <1>1. Len(stack) \in Nat /\ (stack # <<>> => Len(stack) \in Levels)
    BY LevelFacts DEF Levels
  <1>2. \A i, j \in Levels : i < j \/ j < i \/ i = j
    BY <1>1 DEF Levels
  <1>3. "call" \notin SweepKinds
    BY DEF SweepKinds
  <1>4. \A i, j \in Levels : stack[i].kind \in SweepKinds /\ stack[j].kind \in SweepKinds => i = j
    BY <1>2, <1>3 DEF Shape
  <1>5. \A i \in Levels : i # Len(stack) => i < Len(stack) /\ Len(stack) \in Levels
    BY <1>1 DEF Levels
  <1>6. \A i \in Levels : stack[i].kind \in SweepKinds /\ i # Len(stack) => Top.kind = "call"
    BY <1>5 DEF Shape, Top
  <1>7. AllCode => \A i \in Levels : stack[i].kind \notin SweepKinds
    BY DEF AllCode, CodeKinds, SweepKinds
  <1> QED BY <1>1, <1>4, <1>6, <1>7

SameSweeps ==
  /\ \A i \in Levels' : stack'[i].kind \in SweepKinds => i \in Levels /\ stack'[i] = stack[i]
  /\ \A i \in Levels : stack[i].kind \in SweepKinds => i \in Levels' /\ stack'[i] = stack[i]

LEMMA SweepsSame ==
  ASSUME TypeOK,
         \/ stack' = stack
         \/ \E f : f.kind \notin SweepKinds /\ Pushed(f)
         \/ PoppedOff /\ Top.kind \notin SweepKinds
         \/ SteppedDown /\ Top.kind \notin SweepKinds
         \/ \E f : f.kind \notin SweepKinds /\ Top.kind \notin SweepKinds /\ (SteppedInto(f) \/ Swapped(f))
  PROVE  SameSweeps
  <1>n. Len(stack) \in Nat
    BY LevelFacts
  <1>a. \A i \in Levels : i = Len(stack) \/ i \in 1..Len(stack)-1
    BY <1>n DEF Levels
  <1>1. CASE stack' = stack
    BY <1>1 DEF SameSweeps, Levels
  <1>2. ASSUME NEW f, f.kind \notin SweepKinds, Pushed(f) PROVE SameSweeps
    <2>1. /\ \A i \in Levels' : i \in Levels \/ i = Len(stack) + 1
          /\ \A i \in Levels : i \in Levels'
      BY <1>n, <1>2 DEF Pushed, Levels
    <2> QED BY <1>2, <2>1 DEF SameSweeps, Pushed
  <1>3. CASE PoppedOff /\ Top.kind \notin SweepKinds
    <2>1. /\ \A i \in Levels' : i \in Levels /\ i \in 1..Len(stack)-1
          /\ \A i \in 1..Len(stack)-1 : i \in Levels'
      BY <1>n, <1>3 DEF PoppedOff, Levels
    <2> QED BY <1>3, <1>a, <2>1 DEF SameSweeps, PoppedOff, Top
  <1>4. CASE SteppedDown /\ Top.kind \notin SweepKinds
    <2>1. Levels' = Levels
      BY <1>4 DEF SteppedDown, Levels
    <2> QED BY <1>4, <1>a, <2>1 DEF SameSweeps, SteppedDown, TopStepped, Top
  <1>5. ASSUME NEW f, f.kind \notin SweepKinds, Top.kind \notin SweepKinds, SteppedInto(f)
        PROVE  SameSweeps
    <2>1. /\ \A i \in Levels' : i \in Levels \/ i = Len(stack) + 1
          /\ \A i \in Levels : i \in Levels'
      BY <1>n, <1>5 DEF SteppedInto, Levels
    <2> QED BY <1>5, <1>a, <2>1 DEF SameSweeps, SteppedInto, TopStepped, Top
  <1>6. ASSUME NEW f, f.kind \notin SweepKinds, Top.kind \notin SweepKinds, Swapped(f)
        PROVE  SameSweeps
    <2>1. Levels' = Levels
      BY <1>6 DEF Swapped, Levels
    <2> QED BY <1>6, <1>a, <2>1 DEF SameSweeps, Swapped, Top
  <1> QED BY <1>1, <1>2, <1>3, <1>4, <1>5, <1>6

-----------------------------------------------------------------------------
(* The arrays of cleanups                                                  *)

\* Nothing is registered or called.
SameCleanups ==
  /\ cleanups' = cleanups /\ ran' = ran
  /\ \A c \in Cleanups : home'[c] = home[c]

LEMMA ArrayFacts ==
  ASSUME TypeOK
  PROVE  \A x \in Scopes : /\ cleanups[x] \in Seq(Cleanups) /\ Len(cleanups[x]) \in Nat
                           /\ \A k \in 1..Len(cleanups[x]) : cleanups[x][k] \in Cleanups
  <1>1. ASSUME NEW x \in Scopes PROVE cleanups[x] \in Seq(Cleanups) /\ Len(cleanups[x]) \in Nat
    BY LevelFacts DEF TypeOK
  <1>2. ASSUME NEW x \in Scopes, NEW k \in 1..Len(cleanups[x]) PROVE cleanups[x][k] \in Cleanups
    BY <1>1, ElementOfSeq
  <1> QED BY <1>1, <1>2

LEMMA OneArrayKept ==
  ASSUME OneArray, cleanups' = cleanups PROVE OneArray'
  BY DEF OneArray

LEMMA SweptKept ==
  ASSUME TypeOK, Swept, SameCleanups, SameSweeps
  PROVE  Swept'
  <1>1. \A x \in Scopes : \A k \in 1..Len(cleanups[x]) : cleanups[x][k] \in Cleanups
    BY ArrayFacts
  <1>2. \A i, x : (i \in Levels' /\ stack'[i].kind \in SweepKinds /\ stack'[i].of = x) <=> Sweeps(i, x)
    BY DEF SameSweeps, Sweeps
  <1>3. ASSUME NEW i \in Levels', stack'[i].kind \in SweepKinds
        PROVE  stack'[i].at <= Len(cleanups'[stack'[i].of])
    BY <1>3 DEF SameSweeps, Swept, SameCleanups
  <1>4. ASSUME NEW x \in Scopes, NEW k \in 1..Len(cleanups'[x])
        PROVE  /\ home'[cleanups'[x][k]] # None
               /\ ran'[cleanups'[x][k]] = 0 \/ \E i \in Levels' : Sweeps(i, x)'
               /\ \A i \in Levels' : Sweeps(i, x)' => (ran'[cleanups'[x][k]] = 0 <=> k <= stack'[i].at)
    <2>1. k \in 1..Len(cleanups[x]) /\ cleanups' = cleanups /\ ran' = ran
      BY <1>4 DEF SameCleanups
    <2>2. home'[cleanups[x][k]] = home[cleanups[x][k]]
      BY <1>1, <2>1 DEF SameCleanups
    <2>3. /\ home[cleanups[x][k]] # None
          /\ ran[cleanups[x][k]] = 0 \/ \E i \in Levels : Sweeps(i, x)
          /\ \A i \in Levels : Sweeps(i, x) => (ran[cleanups[x][k]] = 0 <=> k <= stack[i].at)
      BY <2>1 DEF Swept
    <2>4. \A i : Sweeps(i, x) => i \in Levels' /\ Sweeps(i, x)'
      BY DEF Sweeps, SameSweeps
    <2>5. \A i \in Levels' : Sweeps(i, x)' => Sweeps(i, x) /\ i \in Levels /\ stack'[i] = stack[i]
      BY DEF Sweeps, SameSweeps
    <2>6. \A i : Sweeps(i, x) => i \in Levels
      BY DEF Sweeps
    <2> QED BY <2>1, <2>2, <2>3, <2>4, <2>5, <2>6
  <1> QED BY <1>3, <1>4 DEF Swept

\* A loop over cleanups begins where there was none: none of them was called.
LEMMA SweptBegins ==
  ASSUME TypeOK, Swept, SameCleanups, \A i \in Levels : stack[i].kind \notin SweepKinds,
         NEW n \in Levels', stack'[n].of \in Scopes, stack'[n].at = Len(cleanups[stack'[n].of]),
         \A i \in Levels' : stack'[i].kind \in SweepKinds => i = n
  PROVE  Swept'
  <1>1. \A x \in Scopes : /\ Len(cleanups[x]) \in Nat
                          /\ \A k \in 1..Len(cleanups[x]) : cleanups[x][k] \in Cleanups
    BY ArrayFacts
  <1>2. ASSUME NEW i \in Levels', stack'[i].kind \in SweepKinds
        PROVE  stack'[i].at <= Len(cleanups'[stack'[i].of])
    <2>1. i = n
      BY <1>2
    <2>2. stack'[i].at = Len(cleanups'[stack'[i].of]) /\ Len(cleanups'[stack'[i].of]) \in Nat
      BY <1>1, <2>1 DEF SameCleanups
    <2> QED BY <2>2
  <1>3. ASSUME NEW x \in Scopes, NEW k \in 1..Len(cleanups'[x])
        PROVE  /\ home'[cleanups'[x][k]] # None
               /\ ran'[cleanups'[x][k]] = 0
               /\ \A i \in Levels' : Sweeps(i, x)' => (ran'[cleanups'[x][k]] = 0 <=> k <= stack'[i].at)
    <2>1. k \in 1..Len(cleanups[x]) /\ cleanups' = cleanups /\ ran' = ran
      BY <1>3 DEF SameCleanups
    <2>2. home'[cleanups[x][k]] = home[cleanups[x][k]]
      BY <1>1, <2>1 DEF SameCleanups
    <2>3. home[cleanups[x][k]] # None /\ ran[cleanups[x][k]] = 0
      BY <2>1 DEF Swept, Sweeps
    <2>4. \A i \in Levels' : Sweeps(i, x)' => stack'[i].at = Len(cleanups[x])
      BY DEF Sweeps
    <2>5. k <= Len(cleanups[x])
      BY <1>1, <2>1
    <2> QED BY <2>1, <2>2, <2>3, <2>4, <2>5
  <1> QED BY <1>2, <1>3 DEF Swept

\* What is to be called is still to be called.
LEMMA PendingKept ==
  ASSUME TypeOK, Pending, SameCleanups,
         \A x \in Scopes : \A k \in 1..Len(cleanups[x]) :
            ran[cleanups[x][k]] = 0 /\ WillSweep(x, k) => WillSweep(x, k)'
  PROVE  Pending'
  <1>1. ASSUME NEW c \in Cleanups, home'[c] # None, ran'[c] = 0
        PROVE  \E x \in Scopes : \E k \in 1..Len(cleanups'[x]) : cleanups'[x][k] = c /\ WillSweep(x, k)'
    <2>1. home[c] # None /\ ran[c] = 0 /\ cleanups' = cleanups
      BY <1>1 DEF SameCleanups
    <2>2. PICK x \in Scopes : \E k \in 1..Len(cleanups[x]) : cleanups[x][k] = c /\ WillSweep(x, k)
      BY <2>1 DEF Pending
    <2>3. PICK k \in 1..Len(cleanups[x]) : cleanups[x][k] = c /\ WillSweep(x, k)
      BY <2>2
    <2>4. WillSweep(x, k)'
      BY <2>1, <2>3
    <2> QED BY <2>1, <2>3, <2>4
  <1>2. \A c \in Cleanups : ran'[c] <= 1
    BY DEF Pending, SameCleanups
  <1> QED BY <1>1, <1>2 DEF Pending

\* The frames at work for x are still at work.
LEMMA WillKept ==
  ASSUME IInv, QInv, Silent(program), [Next]_vars, NEW x \in Scopes,
         \/ life'[x] \in {"creating", "live"}
         \/ life'[x] = life[x]
         \/ \E n \in Levels' : /\ stack'[n].of = x
                               /\ \/ stack'[n].kind \in {"children", "disposers"}
                                  \/ stack'[n].kind \in SweepKinds /\ stack'[n].at = Len(cleanups[x]),
         NEW k \in 1..Len(cleanups[x]), WillSweep(x, k),
         \A i \in Levels : stack[i].kind \in SweepKinds /\ stack[i].of = x /\ k <= stack[i].at =>
            i \in Levels' /\ stack'[i].kind \in SweepKinds /\ stack'[i].of = x /\ k <= stack'[i].at
  PROVE  WillSweep(x, k)'
  <1>1. Len(cleanups[x]) \in Nat /\ k <= Len(cleanups[x]) /\ "cleanups" \in SweepKinds
    <2>1. Len(cleanups[x]) \in Nat
      BY ArrayFacts DEF IInv
    <2> QED BY <2>1 DEF SweepKinds
  <1>2. CASE Active(x)
    BY <1>1, <1>2 DEF WillSweep, Active
  <1>3. ASSUME NEW i \in Levels, stack[i].of = x, stack[i].kind \in {"children", "disposers"}
        PROVE  WillSweep(x, k)'
    <2>1. /\ i \in Levels' /\ stack'[i].of = x
          /\ \/ stack'[i].kind \in {"children", "disposers"}
             \/ stack'[i].kind = "cleanups" /\ stack'[i].at = Len(cleanups[x])
      BY <1>3, LoopPending
    <2> QED BY <1>1, <2>1 DEF WillSweep
  <1>4. ASSUME NEW i \in Levels, stack[i].of = x, stack[i].kind \in SweepKinds, k <= stack[i].at
        PROVE  WillSweep(x, k)'
    BY <1>4 DEF WillSweep
  <1> QED BY <1>2, <1>3, <1>4 DEF WillSweep

\* What stops being active is disposed of.
Handed(x) ==
  \/ life'[x] \in {"creating", "live"}
  \/ life'[x] = life[x]
  \/ \E n \in Levels' : /\ stack'[n].of = x
                        /\ \/ stack'[n].kind \in {"children", "disposers"}
                           \/ stack'[n].kind \in SweepKinds /\ stack'[n].at = Len(cleanups[x])

LEMMA CleanSame ==
  ASSUME IInv, QInv, Silent(program), [Next]_vars, CInv, SameCleanups, SameSweeps,
         \A x \in Scopes : Handed(x)
  PROVE  CInv'
  <1>0. TypeOK /\ OneArray /\ Swept /\ Pending
    BY DEF IInv, CInv
  <1>1. OneArray' /\ Swept'
    BY <1>0, OneArrayKept, SweptKept DEF SameCleanups
  <1>2. ASSUME NEW x \in Scopes, NEW k \in 1..Len(cleanups[x]), WillSweep(x, k)
        PROVE  WillSweep(x, k)'
    BY <1>2, WillKept DEF SameSweeps, Handed
  <1>3. Pending'
    BY <1>0, <1>2, PendingKept
  <1> QED BY <1>1, <1>3 DEF CInv

LEMMA CleanBegins ==
  ASSUME IInv, QInv, Silent(program), [Next]_vars, CInv, SameCleanups,
         \A i \in Levels : stack[i].kind \notin SweepKinds,
         NEW n \in Levels', stack'[n].of \in Scopes, stack'[n].at = Len(cleanups[stack'[n].of]),
         \A i \in Levels' : stack'[i].kind \in SweepKinds => i = n,
         \A x \in Scopes : Handed(x)
  PROVE  CInv'
  <1>0. TypeOK /\ OneArray /\ Swept /\ Pending
    BY DEF IInv, CInv
  <1>1. OneArray' /\ Swept'
    BY <1>0, OneArrayKept, SweptBegins DEF SameCleanups
  <1>2. ASSUME NEW x \in Scopes, NEW k \in 1..Len(cleanups[x]), WillSweep(x, k)
        PROVE  WillSweep(x, k)'
    BY <1>2, WillKept DEF Handed
  <1>3. Pending'
    BY <1>0, <1>2, PendingKept
  <1> QED BY <1>1, <1>3 DEF CInv

\* One scope changes.
LEMMA HandedOne ==
  ASSUME TypeOK, NEW x \in Scopes, NEW v, life' = [life EXCEPT ![x] = v],
         \/ v \in {"creating", "live"}
         \/ \E n \in Levels' : /\ stack'[n].of = x
                               /\ \/ stack'[n].kind \in {"children", "disposers"}
                                  \/ stack'[n].kind \in SweepKinds /\ stack'[n].at = Len(cleanups[x])
  PROVE  \A y \in Scopes : Handed(y)
  <1>1. life'[x] = v /\ \A y \in Scopes : y # x => life'[y] = life[y]
    BY LifeSet
  <1> QED BY <1>1 DEF Handed

\* home changes for a scope that is created.
LEMMA HomeScope ==
  ASSUME TypeOK, NEW x \in Scopes, NEW v, home' = [home EXCEPT ![x] = v]
  PROVE  \A c \in Cleanups : home'[c] = home[c]
  <1>1. \A c \in Cleanups : c # x
    BY LifecycleAssumption DEF Scopes
  <1>2. \A c \in Cleanups : c \in Things
    BY DEF Things
  <1> QED BY <1>1, <1>2 DEF TypeOK

LEMMA CleanCreate ==
  ASSUME IInv, QInv, Silent(program), [Next]_vars, CInv,
         \/ \E o \in Owners : CreateRoot(o)
         \/ \E e \in Effects : RenderEffect(e) \/ DeferEffect(e)
  PROVE  CInv'
  <1>0. TypeOK
    BY DEF IInv
  <1>1. ASSUME NEW o \in Owners, CreateRoot(o) PROVE CInv'
    <2>1. /\ o \in Scopes /\ life' = [life EXCEPT ![o] = "live"] /\ cleanups' = cleanups /\ ran' = ran
          /\ home' = [home EXCEPT ![o] = Home]
      BY <1>1 DEF CreateRoot, Scopes
    <2>2. SameCleanups
      BY <1>0, <2>1, HomeScope DEF SameCleanups
    <2>3. SameSweeps
      <3>1. Pushed(Call("root", o, 0, owner)) /\ Call("root", o, 0, owner).kind \notin SweepKinds
        BY <1>1, UserMoves, CallFields DEF SweepKinds
      <3> QED BY <1>0, <3>1, SweepsSame
    <2>4. \A y \in Scopes : Handed(y)
      BY <1>0, <2>1, HandedOne
    <2> QED BY <2>2, <2>3, <2>4, CleanSame
  <1>2. ASSUME NEW e \in Effects, RenderEffect(e) PROVE CInv'
    <2>1. /\ e \in Scopes /\ life' = [life EXCEPT ![e] = "creating"] /\ cleanups' = cleanups /\ ran' = ran
          /\ home' = [home EXCEPT ![e] = Home]
      BY <1>2 DEF RenderEffect, Scopes
    <2>2. SameCleanups
      BY <1>0, <2>1, HomeScope DEF SameCleanups
    <2>3. SameSweeps
      <3>1. Pushed(Call("first", e, 0, tracking)) /\ Call("first", e, 0, tracking).kind \notin SweepKinds
        BY <1>2, UserMoves, CallFields DEF SweepKinds
      <3> QED BY <1>0, <3>1, SweepsSame
    <2>4. \A y \in Scopes : Handed(y)
      BY <1>0, <2>1, HandedOne
    <2> QED BY <2>2, <2>3, <2>4, CleanSame
  <1>3. ASSUME NEW e \in Effects, DeferEffect(e) PROVE CInv'
    <2>1. /\ e \in Scopes /\ life' = [life EXCEPT ![e] = "live"] /\ cleanups' = cleanups /\ ran' = ran
          /\ home' = [home EXCEPT ![e] = Home] /\ stack' = stack
      BY <1>3 DEF DeferEffect, Scopes
    <2>2. SameCleanups
      BY <1>0, <2>1, HomeScope DEF SameCleanups
    <2>3. SameSweeps
      BY <1>0, <2>1, SweepsSame
    <2>4. \A y \in Scopes : Handed(y)
      BY <1>0, <2>1, HandedOne
    <2> QED BY <2>2, <2>3, <2>4, CleanSame
  <1> QED BY <1>1, <1>2, <1>3

\* Calls and returns of code that registers nothing, and the loops that begin, or go on
\* with, a disposal.
LEMMA CleanPlain ==
  ASSUME IInv, QInv, Silent(program), [Next]_vars, CInv,
         \/ \E o \in Owners : RunWithOwner(o) \/ DisposeOwner(o)
         \/ OwnerReturn \/ FirstReturn \/ RunReturn \/ CleanupReturn \/ DisposeChild
         \/ OutOfRange \/ UNCHANGED vars
         \/ NextLoop /\ Top.kind = "children"
         \/ (Microtask \/ \E e \in Effects : Rerun(e)) /\ stack' = stack
  PROVE  CInv'
  <1>0. TypeOK /\ Len(stack) \in Nat
    BY LevelFacts DEF IInv
  <1>1. SameCleanups
    BY DEF SameCleanups, RunWithOwner, DisposeOwner, OwnerReturn, FirstReturn, RunReturn,
       CleanupReturn, DisposeChild, OutOfRange, vars, NextLoop, Microtask, Rerun, history
  <1>2. ASSUME life' = life PROVE \A x \in Scopes : Handed(x)
    BY <1>2 DEF Handed
  <1> SUFFICES SameSweeps /\ \A x \in Scopes : Handed(x)
    BY <1>1, CleanSame
  <1>3. ASSUME NEW o \in Owners, RunWithOwner(o)
        PROVE  SameSweeps /\ \A x \in Scopes : Handed(x)
    <2>1. Pushed(Call("enter", o, 0, owner)) /\ Call("enter", o, 0, owner).kind \notin SweepKinds
      BY <1>3, UserMoves, CallFields DEF SweepKinds
    <2> QED BY <1>0, <1>2, <1>3, <2>1, SweepsSame DEF RunWithOwner
  <1>4. ASSUME NEW o \in Owners, NEW n \in Levels', stack'[n] = FirstLoop(o),
               life' = [life EXCEPT ![o] = "disposed"]
        PROVE  \A x \in Scopes : Handed(x)
    <2>1. stack'[n].of = o /\ stack'[n].kind = "children" /\ o \in Scopes
      BY <1>4, CallFields DEF FirstLoop, Scopes
    <2> QED BY <1>0, <1>4, <2>1, HandedOne
  <1>5. ASSUME NEW o \in Owners, DisposeOwner(o)
        PROVE  SameSweeps /\ \A x \in Scopes : Handed(x)
    <2>1. Pushed(FirstLoop(o)) /\ FirstLoop(o).kind \notin SweepKinds
      BY <1>5, UserMoves, CallFields DEF FirstLoop, SweepKinds
    <2>2. Len(stack) + 1 \in Levels' /\ stack'[Len(stack) + 1] = FirstLoop(o)
      BY <1>0, <2>1 DEF Pushed, Levels
    <2> QED BY <1>0, <1>4, <1>5, <2>1, <2>2, SweepsSame DEF DisposeOwner
  <1>6. CASE OwnerReturn \/ RunReturn \/ CleanupReturn
    <2>1. PoppedOff /\ Top.kind \notin SweepKinds /\ life' = life
      BY <1>6, EngineMoves DEF OwnerReturn, RunReturn, CleanupReturn, Running, SweepKinds
    <2> QED BY <1>0, <1>2, <2>1, SweepsSame
  <1>7. CASE FirstReturn
    <2>1. PoppedOff /\ Top.kind \notin SweepKinds
      BY <1>7, EngineMoves DEF FirstReturn, Running, SweepKinds
    <2>2. Top.of \in Scopes /\ life' = [life EXCEPT ![Top.of] = "live"]
      BY <1>7, QuietReturn DEF FirstReturn, Scopes
    <2>3. ASSUME NEW e \in Scopes, life' = [life EXCEPT ![e] = "live"]
          PROVE  \A x \in Scopes : Handed(x)
      BY <1>0, <2>3, HandedOne
    <2> QED BY <1>0, <2>1, <2>2, <2>3, SweepsSame
  <1>8. CASE DisposeChild
    <2> DEFINE child == children[Top.of][Top.at]
    <2>0. child \in Owners /\ Top.kind \notin SweepKinds
      <3>1. Top.kind = "children" /\ stack # <<>>
        BY <1>8 DEF DisposeChild, Running
      <3>2. Top.of \in Owners
        BY <3>1, TopFacts DEF Sound
      <3>3. children[Top.of] \in Seq(Owners) /\ Top.at \in 1..Len(children[Top.of])
        BY <1>0, <1>8, <3>2 DEF DisposeChild, TypeOK
      <3> QED BY <3>1, <3>3, ElementOfSeq DEF SweepKinds
    <2>1. IF life[child] = "live" THEN SteppedInto(FirstLoop(child)) ELSE SteppedDown
      BY <1>8, EngineMoves
    <2>2. IF life[child] = "live" THEN life' = [life EXCEPT ![child] = "disposed"] ELSE life' = life
      BY <1>8 DEF DisposeChild
    <2> HIDE DEF child
    <2>3. CASE life[child] = "live"
      <3>1. SteppedInto(FirstLoop(child)) /\ FirstLoop(child).kind \notin SweepKinds
        BY <2>1, <2>3, CallFields DEF FirstLoop, SweepKinds
      <3>2. Len(stack) + 1 \in Levels' /\ stack'[Len(stack) + 1] = FirstLoop(child)
        BY <1>0, <3>1 DEF SteppedInto, Levels
      <3>3. \A x \in Scopes : Handed(x)
        BY <1>4, <2>0, <2>2, <2>3, <3>2
      <3> QED BY <1>0, <2>0, <3>1, <3>3, SweepsSame
    <2>4. CASE life[child] # "live"
      BY <1>0, <1>2, <2>0, <2>1, <2>2, <2>4, SweepsSame
    <2> QED BY <2>3, <2>4
  <1>9. CASE NextLoop /\ Top.kind = "children"
    <2> DEFINE f == Call("disposers", Top.of, Len(disposers[Top.of]), None)
    <2>1. Swapped(f) /\ f.kind \notin SweepKinds /\ Top.kind \notin SweepKinds /\ life' = life
      BY <1>9, EngineMoves, CallFields DEF NextLoop, SweepKinds
    <2> HIDE DEF f
    <2> QED BY <1>0, <1>2, <2>1, SweepsSame
  <1>10. CASE OutOfRange \/ UNCHANGED vars \/ ((Microtask \/ \E e \in Effects : Rerun(e)) /\ stack' = stack)
    <2>1. stack' = stack /\ life' = life
      BY <1>10 DEF OutOfRange, vars, Microtask, Rerun
    <2> QED BY <1>0, <1>2, <2>1, SweepsSame
  <1> QED BY <1>3, <1>5, <1>6, <1>7, <1>8, <1>9, <1>10

\* A loop over cleanups begins.
LEMMA CleanSweep ==
  ASSUME IInv, QInv, Silent(program), [Next]_vars, CInv,
         \/ (Microtask \/ \E e \in Effects : Rerun(e)) /\ stack' # stack
         \/ \E e \in Effects : DisposeEffect(e)
         \/ CallDisposer
         \/ NextLoop /\ Top.kind = "disposers"
  PROVE  CInv'
  <1>0. TypeOK /\ Shape /\ Len(stack) \in Nat
    BY LevelFacts DEF IInv, QInv
  <1>1. SameCleanups
    BY DEF SameCleanups, CallDisposer, DisposeEffect, NextLoop, Microtask, Rerun, history
  <1>2. /\ "clean" \in SweepKinds /\ "wipe" \in SweepKinds /\ "cleanups" \in SweepKinds
        /\ "disposers" \notin SweepKinds
    BY DEF SweepKinds
  <1>3. ASSUME \A i \in Levels : stack[i].kind \notin SweepKinds,
               NEW f, NEW x \in Scopes, f.kind \in SweepKinds, f.of = x, f.at = Len(cleanups[x]),
               Pushed(f) \/ ((SteppedInto(f) \/ Swapped(f)) /\ Top.kind = "disposers"),
               life' = life \/ life' = [life EXCEPT ![x] = "disposed"]
        PROVE  CInv'
    <2>1. PICK n \in Levels' : /\ stack'[n] = f
                               /\ \A i \in Levels' : i # n => /\ i \in Levels
                                                              /\ stack'[i].kind = stack[i].kind
      <3>1. CASE Pushed(f)
        <4>1. /\ Len(stack) + 1 \in Levels'
              /\ \A i \in Levels' : i # Len(stack) + 1 => i \in Levels
          BY <1>0, <3>1 DEF Pushed, Levels
        <4> QED BY <3>1, <4>1 DEF Pushed
      <3>2. CASE SteppedInto(f)
        <4>1. /\ Len(stack) + 1 \in Levels'
              /\ \A i \in Levels' : i # Len(stack) + 1 =>
                   i \in Levels /\ (i = Len(stack) \/ i \in 1..Len(stack)-1)
          BY <1>0, <3>2 DEF SteppedInto, Levels
        <4>2. \A i \in Levels : i = Len(stack) \/ i \in 1..Len(stack)-1 => stack'[i].kind = stack[i].kind
          BY <3>2 DEF SteppedInto, TopStepped, Top
        <4> QED BY <3>2, <4>1, <4>2 DEF SteppedInto
      <3>3. CASE Swapped(f)
        <4>1. /\ Len(stack) \in Levels'
              /\ \A i \in Levels' : i # Len(stack) => i \in Levels /\ i \in 1..Len(stack)-1
          BY <1>0, <3>3 DEF Swapped, Levels
        <4> QED BY <3>3, <4>1 DEF Swapped
      <3> QED BY <1>3, <3>1, <3>2, <3>3
    <2>2. \A y \in Scopes : Handed(y)
      <3>1. CASE life' = life
        BY <3>1 DEF Handed
      <3>2. CASE life' = [life EXCEPT ![x] = "disposed"]
        BY <1>0, <1>3, <2>1, <3>2, HandedOne
      <3> QED BY <1>3, <3>1, <3>2
    <2>3. \A i \in Levels' : stack'[i].kind \in SweepKinds => i = n
      BY <1>3, <2>1
    <2>4. stack'[n].of \in Scopes /\ stack'[n].at = Len(cleanups[stack'[n].of])
      BY <1>3, <2>1
    <2> QED BY <1>1, <1>3, <2>2, <2>3, <2>4, CleanBegins
  <1>4. stack # <<>> /\ Top.kind = "disposers" => \A i \in Levels : stack[i].kind \notin SweepKinds
    BY <1>0, <1>2, OneSweep DEF Top
  <1>5. CASE (Microtask \/ \E e \in Effects : Rerun(e)) /\ stack' # stack
    <2>1. \A i \in Levels : stack[i].kind \notin SweepKinds
      <3>1. CASE Microtask
        <4>1. Len(stack) = 0
          BY <1>0, <3>1, LevelFacts DEF Microtask
        <4> QED BY <4>1 DEF Levels
      <3>2. CASE \E e \in Effects : Rerun(e)
        BY <1>0, <3>2, UserStepFacts, OneSweep DEF UserStep
      <3> QED BY <1>5, <3>1, <3>2
    <2>2. PICK x \in Effects : Pushed(Call("clean", x, Len(cleanups[x]), None))
      <3>1. \E e \in Effects : TRUE
        <4>1. Microtask => Head(microtasks) \in Effects
          BY <1>0, HeadTailProperties DEF Microtask, TypeOK
        <4> QED BY <1>5, <4>1
      <3> QED BY <1>5, <3>1, UserMoves
    <2>3. life' = life /\ x \in Scopes
      BY <1>5 DEF Microtask, Rerun, Scopes
    <2> DEFINE f == Call("clean", x, Len(cleanups[x]), None)
    <2>4. Pushed(f) /\ f.kind \in SweepKinds /\ f.of = x /\ f.at = Len(cleanups[x])
      BY <1>2, <2>2, CallFields
    <2> HIDE DEF f
    <2> QED BY <1>3, <2>1, <2>3, <2>4
  <1>6. ASSUME NEW e \in Effects, DisposeEffect(e) PROVE CInv'
    <2>1. \A i \in Levels : stack[i].kind \notin SweepKinds
      BY <1>0, <1>6, UserStepFacts, OneSweep DEF UserStep
    <2> DEFINE f == Call("wipe", e, Len(cleanups[e]), None)
    <2>2. Pushed(f) /\ f.kind \in SweepKinds /\ f.of = e /\ f.at = Len(cleanups[e])
      BY <1>2, <1>6, UserMoves, CallFields
    <2>3. life' = [life EXCEPT ![e] = "disposed"] /\ e \in Scopes
      BY <1>6 DEF DisposeEffect, Scopes
    <2> HIDE DEF f
    <2> QED BY <1>3, <2>1, <2>2, <2>3
  <1>7. CASE CallDisposer
    <2> DEFINE e == disposers[Top.of][Top.at]
               f == Call("wipe", e, Len(cleanups[e]), None)
    <2>1. stack # <<>> /\ Top.kind = "disposers"
      BY <1>7 DEF CallDisposer, Running
    <2>2. e \in Scopes
      <3>1. Top.of \in Owners
        BY <2>1, TopFacts DEF Sound
      <3>2. disposers[Top.of] \in Seq(Effects) /\ Top.at \in 1..Len(disposers[Top.of])
        BY <1>0, <1>7, <3>1 DEF CallDisposer, TypeOK
      <3> QED BY <3>2, ElementOfSeq DEF Scopes
    <2>3. life' = [life EXCEPT ![e] = "disposed"] /\ SteppedInto(f)
      BY <1>7, EngineMoves DEF CallDisposer
    <2> HIDE DEF e
    <2>4. f.kind \in SweepKinds /\ f.of = e /\ f.at = Len(cleanups[e])
      BY <1>2, CallFields
    <2> HIDE DEF f
    <2> QED BY <1>3, <1>4, <2>1, <2>2, <2>3, <2>4
  <1>8. CASE NextLoop /\ Top.kind = "disposers"
    <2> DEFINE o == Top.of
               f == Call("cleanups", o, Len(cleanups[o]), None)
    <2>1. stack # <<>> /\ life' = life /\ Swapped(f)
      BY <1>8, EngineMoves DEF NextLoop, Running
    <2>2. o \in Scopes
      BY <1>8, <2>1, TopFacts DEF Sound, Scopes
    <2> HIDE DEF o
    <2>4. f.kind \in SweepKinds /\ f.of = o /\ f.at = Len(cleanups[o])
      BY <1>2, CallFields
    <2> HIDE DEF f
    <2> QED BY <1>3, <1>4, <1>8, <2>1, <2>2, <2>4
  <1> QED BY <1>5, <1>6, <1>7, <1>8

\* A cleanup that is called was not called before.
LEMMA CleanCall ==
  ASSUME IInv, QInv, Silent(program), [Next]_vars, CInv, CallCleanup
  PROVE  CInv'
  <1> DEFINE n == Len(stack)
             s == Top.of
             a == Top.at
             c == cleanups[s][a]
  <1>0. TypeOK /\ Shape /\ OneArray /\ Swept /\ Pending
    BY DEF IInv, QInv, CInv
  <1>1. /\ stack # <<>> /\ Top.kind \in SweepKinds /\ a \in 1..Len(cleanups[s])
        /\ cleanups' = cleanups /\ home' = home /\ life' = life
        /\ ran' = [ran EXCEPT ![c] = IF @ < 2 THEN @ + 1 ELSE @]
    BY DEF CallCleanup, Running, SweepKinds
  <1>2. /\ n \in Levels /\ n \in Nat /\ Top = stack[n] /\ s \in Scopes /\ Sweeps(n, s)
        /\ Len(cleanups[s]) \in Nat /\ c \in Cleanups
    <2>1. n \in Levels /\ n \in Nat /\ Top = stack[n]
      BY <1>0, <1>1, OneSweep, LevelFacts DEF Top
    <2>2. s \in Scopes
      BY <1>1, TopFacts DEF Sound, SweepKinds, Scopes
    <2> QED BY <1>0, <1>1, <2>1, <2>2, ArrayFacts DEF Sweeps
  <1>3. SteppedInto(Call("call", c, 0, None))
    BY EngineMoves
  <1>4. /\ n \in Levels' /\ stack'[n].kind = Top.kind /\ stack'[n].of = s /\ stack'[n].at = a - 1
        /\ \A i \in Levels' : stack'[i].kind \in SweepKinds => i = n
        /\ \A i \in Levels : stack[i].kind \in SweepKinds => i = n
    <2>1. \A i \in Levels' : \/ i \in Levels /\ (i = n \/ stack'[i] = stack[i])
                             \/ stack'[i].kind = "call"
      <3>1. \A i \in Levels' : (i \in Levels /\ (i = n \/ i \in 1..n-1)) \/ i = n + 1
        BY <1>2, <1>3 DEF SteppedInto, Levels
      <3> QED BY <1>3, <3>1, CallFields DEF SteppedInto, TopStepped
    <2>2. \A i \in Levels : stack[i].kind \in SweepKinds => i = n
      BY <1>0, <1>1, <1>2, OneSweep
    <2>3. n \in Levels'
      BY <1>2, <1>3 DEF SteppedInto, Levels
    <2>4. "call" \notin SweepKinds
      BY DEF SweepKinds
    <2> QED BY <1>3, <2>1, <2>2, <2>3, <2>4 DEF SteppedInto, TopStepped
  <1>5. ran[c] = 0
    <2>1. \A k \in 1..Len(cleanups[s]) : ran[cleanups[s][k]] = 0 <=> k <= stack[n].at
      BY <1>0, <1>2 DEF Swept
    <2>2. a <= stack[n].at
      BY <1>1, <1>2
    <2> QED BY <1>1, <2>1, <2>2
  <1>6. ran'[c] = 1 /\ \A d \in Cleanups : d # c => ran'[d] = ran[d]
    <2> HIDE DEF c
    <2> QED BY <1>0, <1>1, <1>2, <1>5 DEF TypeOK
  <1>7. a \in Nat /\ a - 1 <= Len(cleanups[s]) /\ \A k \in Nat : k # a => (k <= a <=> k <= a - 1)
    BY <1>1, <1>2
  <1>8. ~(a <= a - 1)
    BY <1>7
  <1> HIDE DEF n, s, a, c
  <1>9. \A x \in Scopes : \A k \in 1..Len(cleanups[x]) :
          /\ cleanups[x][k] \in Cleanups /\ k \in Nat
          /\ cleanups[x][k] = c => x = s /\ k = a
    BY <1>0, <1>1, <1>2, ArrayFacts DEF OneArray, c
  <1>10. OneArray'
    BY <1>0, <1>1, OneArrayKept
  <1>11. Swept'
    <2>1. ASSUME NEW i \in Levels', stack'[i].kind \in SweepKinds
          PROVE  stack'[i].at <= Len(cleanups'[stack'[i].of])
      BY <1>1, <1>4, <1>7, <2>1
    <2>2. ASSUME NEW x \in Scopes, NEW k \in 1..Len(cleanups'[x])
          PROVE  /\ home'[cleanups'[x][k]] # None
                 /\ ran'[cleanups'[x][k]] = 0 \/ \E i \in Levels' : Sweeps(i, x)'
                 /\ \A i \in Levels' : Sweeps(i, x)' => (ran'[cleanups'[x][k]] = 0 <=> k <= stack'[i].at)
      <3>1. /\ k \in 1..Len(cleanups[x]) /\ cleanups'[x][k] = cleanups[x][k] /\ k \in Nat
            /\ cleanups[x][k] \in Cleanups
        BY <1>1, <1>9, <2>2
      <3>2. home'[cleanups'[x][k]] # None
        BY <1>0, <1>1, <3>1 DEF Swept
      <3>3. CASE x # s
        <4>1. ran[cleanups[x][k]] = 0
          BY <1>0, <1>2, <1>4, <3>1, <3>3 DEF Swept, Sweeps, s
        <4>2. \A i \in Levels' : ~Sweeps(i, x)'
          BY <1>4, <3>3 DEF Sweeps
        <4> QED BY <1>6, <1>9, <3>1, <3>2, <3>3, <4>1, <4>2
      <3>4. CASE x = s
        <4>1. \E i \in Levels' : Sweeps(i, x)'
          <5>1. \A i : i = n => (Sweeps(i, x)' <=> i \in Levels' /\ stack'[i].kind \in SweepKinds /\ stack'[i].of = x)
            BY DEF Sweeps
          <5>2. stack'[n].kind \in SweepKinds
            BY <1>1, <1>4
          <5>3. \E i \in Levels' : i = n /\ Sweeps(i, x)'
            BY <1>4, <3>4, <5>1, <5>2
          <5> QED BY <5>3
        <4>2. ran'[cleanups[x][k]] = 0 <=> k <= a - 1
          <5>1. CASE k = a
            BY <1>6, <1>8, <3>4, <5>1 DEF c
          <5>2. CASE k # a
            <6>1. ran'[cleanups[x][k]] = ran[cleanups[x][k]]
              BY <1>6, <1>9, <3>1, <5>2
            <6>2. ran[cleanups[x][k]] = 0 <=> k <= a
              BY <1>0, <1>2, <3>1, <3>4 DEF Swept, a, s
            <6> QED BY <1>7, <3>1, <5>2, <6>1, <6>2
          <5> QED BY <5>1, <5>2
        <4>3. \A i \in Levels' : Sweeps(i, x)' => stack'[i].at = a - 1
          BY <1>4 DEF Sweeps
        <4> QED BY <3>1, <3>2, <4>1, <4>2, <4>3
      <3> QED BY <3>3, <3>4
    <2> QED BY <2>1, <2>2 DEF Swept
  <1>12. Pending'
    <2>1. ASSUME NEW d \in Cleanups PROVE ran'[d] <= 1
      BY <1>0, <1>6 DEF Pending
    <2>2. ASSUME NEW d \in Cleanups, home'[d] # None, ran'[d] = 0
          PROVE  \E x \in Scopes : \E k \in 1..Len(cleanups'[x]) : cleanups'[x][k] = d /\ WillSweep(x, k)'
      <3>1. d # c /\ ran[d] = 0 /\ home[d] # None
        BY <1>1, <1>6, <2>2
      <3>2. PICK x \in Scopes : \E k \in 1..Len(cleanups[x]) : cleanups[x][k] = d /\ WillSweep(x, k)
        BY <1>0, <3>1 DEF Pending
      <3>3. PICK k \in 1..Len(cleanups[x]) : cleanups[x][k] = d /\ WillSweep(x, k)
        BY <3>2
      <3>4. ~(x = s /\ k = a) /\ k \in Nat
        BY <1>9, <3>1, <3>3 DEF c
      <3>5. \A i \in Levels : stack[i].kind \in SweepKinds /\ stack[i].of = x /\ k <= stack[i].at =>
              i \in Levels' /\ stack'[i].kind \in SweepKinds /\ stack'[i].of = x /\ k <= stack'[i].at
        <4> SUFFICES ASSUME stack[n].of = x, k <= stack[n].at
                     PROVE  stack'[n].kind \in SweepKinds /\ stack'[n].of = x /\ k <= stack'[n].at
          BY <1>4
        <4>1. x = s /\ k <= a
          BY <1>2 DEF s, a
        <4>2. k <= a - 1
          BY <1>7, <3>4, <4>1
        <4> QED BY <1>1, <1>4, <4>1, <4>2
      <3>6. WillSweep(x, k)'
        BY <1>1, <3>3, <3>5, WillKept
      <3> QED BY <1>1, <3>3, <3>6
    <2> QED BY <2>1, <2>2 DEF Pending
  <1> QED BY <1>10, <1>11, <1>12 DEF CInv

\* An array that is cleared holds only cleanups that were called.
LEMMA CleanEnd ==
  ASSUME IInv, QInv, Silent(program), [Next]_vars, CInv, RunStart \/ WipeReturn \/ DisposeReturn
  PROVE  CInv'
  <1> DEFINE n == Len(stack)
             s == Top.of
  <1>0. TypeOK /\ Shape /\ OneArray /\ Swept /\ Pending
    BY DEF IInv, QInv, CInv
  <1>1. /\ stack # <<>> /\ Top.kind \in SweepKinds /\ Top.at = 0
        /\ cleanups' = [cleanups EXCEPT ![s] = <<>>] /\ home' = home /\ life' = life /\ ran' = ran
    BY DEF RunStart, WipeReturn, DisposeReturn, Running, SweepKinds, Wiped, history
  <1>2. n \in Levels /\ n \in Nat /\ Top = stack[n] /\ s \in Scopes /\ Sweeps(n, s)
    <2>1. n \in Levels /\ n \in Nat /\ Top = stack[n]
      BY <1>0, <1>1, OneSweep, LevelFacts DEF Top
    <2>2. s \in Scopes
      BY <1>1, TopFacts DEF Sound, SweepKinds, Scopes
    <2> QED BY <1>1, <2>1, <2>2 DEF Sweeps
  <1>3. PoppedOff \/ Swapped(Call("run", Top.of, 0, tracking))
    BY EngineMoves
  <1>4. /\ \A i \in Levels' : stack'[i].kind \notin SweepKinds
        /\ \A i \in Levels : stack[i].kind \in SweepKinds => i = n
    <2>1. \A i \in Levels : stack[i].kind \in SweepKinds => i = n
      BY <1>0, <1>1, <1>2, OneSweep
    <2>2. \A i \in Levels' : \/ i \in Levels /\ i # n /\ stack'[i] = stack[i]
                             \/ stack'[i].kind = "run"
      <3>1. CASE PoppedOff
        <4>1. \A i \in Levels' : i \in Levels /\ i # n /\ i \in 1..n-1
          BY <1>2, <3>1 DEF PoppedOff, Levels
        <4> QED BY <3>1, <4>1 DEF PoppedOff
      <3>2. CASE Swapped(Call("run", Top.of, 0, tracking))
        <4>1. \A i \in Levels' : i \in Levels /\ (i = n \/ (i # n /\ i \in 1..n-1))
          BY <1>2, <3>2 DEF Swapped, Levels
        <4> QED BY <3>2, <4>1, CallFields DEF Swapped
      <3> QED BY <1>3, <3>1, <3>2
    <2> QED BY <2>1, <2>2 DEF SweepKinds
  <1>5. \A k \in 1..Len(cleanups[s]) : ran[cleanups[s][k]] # 0
    <2>1. \A k \in 1..Len(cleanups[s]) : ran[cleanups[s][k]] = 0 <=> k <= 0
      BY <1>0, <1>1, <1>2 DEF Swept
    <2>2. Len(cleanups[s]) \in Nat
      BY <1>0, <1>2, ArrayFacts
    <2>3. \A k \in 1..Len(cleanups[s]) : ~(k <= 0)
      BY <2>2
    <2> QED BY <2>1, <2>3
  <1> HIDE DEF n, s
  <1>6. /\ \A y \in Scopes : y # s => cleanups'[y] = cleanups[y]
        /\ 1..Len(cleanups'[s]) = {}
    <2>1. cleanups'[s] = <<>> /\ \A y \in Scopes : y # s => cleanups'[y] = cleanups[y]
      BY <1>0, <1>1, <1>2 DEF TypeOK
    <2>2. Len(<<>>) = 0 /\ 1..0 = {}
      OBVIOUS
    <2> QED BY <2>1, <2>2
  <1>7. OneArray'
    BY <1>0, <1>6 DEF OneArray
  <1>8. Swept'
    <2>1. ASSUME NEW x \in Scopes, NEW k \in 1..Len(cleanups'[x])
          PROVE  home'[cleanups'[x][k]] # None /\ ran'[cleanups'[x][k]] = 0
      <3>1. x # s /\ cleanups'[x] = cleanups[x]
        BY <1>6
      <3>2. \A i \in Levels : ~Sweeps(i, x)
        BY <1>2, <1>4, <3>1 DEF Sweeps
      <3> QED BY <1>0, <1>1, <3>1, <3>2 DEF Swept
    <2>2. \A i \in Levels' : stack'[i].kind \in SweepKinds => stack'[i].at <= Len(cleanups'[stack'[i].of])
      BY <1>4
    <2>3. \A x : \A i \in Levels' : ~Sweeps(i, x)'
      BY <1>4 DEF Sweeps
    <2> QED BY <2>1, <2>2, <2>3 DEF Swept
  <1>9. Pending'
    <2>1. ASSUME NEW d \in Cleanups PROVE ran'[d] <= 1
      BY <1>0, <1>1 DEF Pending
    <2>2. ASSUME NEW d \in Cleanups, home'[d] # None, ran'[d] = 0
          PROVE  \E x \in Scopes : \E k \in 1..Len(cleanups'[x]) : cleanups'[x][k] = d /\ WillSweep(x, k)'
      <3>1. ran[d] = 0 /\ home[d] # None
        BY <1>1, <2>2
      <3>2. PICK x \in Scopes : \E k \in 1..Len(cleanups[x]) : cleanups[x][k] = d /\ WillSweep(x, k)
        BY <1>0, <3>1 DEF Pending
      <3>3. PICK k \in 1..Len(cleanups[x]) : cleanups[x][k] = d /\ WillSweep(x, k)
        BY <3>2
      <3>4. x # s
        BY <1>5, <3>1, <3>3
      <3>5. \A i \in Levels : ~(stack[i].kind \in SweepKinds /\ stack[i].of = x)
        BY <1>2, <1>4, <3>4 DEF s
      <3>6. WillSweep(x, k)'
        BY <1>1, <3>3, <3>5, WillKept
      <3> QED BY <1>6, <3>3, <3>4, <3>6
    <2> QED BY <2>1, <2>2 DEF Pending
  <1> QED BY <1>7, <1>8, <1>9 DEF CInv

\* A cleanup is registered with a scope that is active.
LEMMA CleanAdd ==
  ASSUME IInv, QInv, Silent(program), [Next]_vars, Contexts, CInv,
         NEW c \in Cleanups, OnCleanup(c) \/ OnOwnerCleanup(c)
  PROVE  CInv'
  <1>0. TypeOK /\ Shape /\ Creating /\ OneArray /\ Swept /\ Pending
    BY DEF IInv, QInv, CInv
  <1>1. AllCode
    BY <1>0, UserStepFacts DEF UserStep
  <1>2. PICK x \in Scopes \cup {None} : /\ AddCleanup(c, x)
                                        /\ x # None => x = owner \/ x = tracking
    <2>1. owner \in Scopes \cup {None} /\ tracking \in Scopes \cup {None}
      BY <1>0 DEF TypeOK, Scopes
    <2> QED BY <2>1 DEF OnCleanup, OnOwnerCleanup
  <1>3. home[c] = None /\ ran[c] = 0
    BY DEF OnCleanup, OnOwnerCleanup, Fresh
  <1>4. stack' = stack /\ life' = life /\ ran' = ran
    BY <1>2 DEF AddCleanup
  <1>5. CASE x = None
    <2>1. SameCleanups
      BY <1>2, <1>4, <1>5 DEF AddCleanup, SameCleanups
    <2>2. SameSweeps /\ \A y \in Scopes : Handed(y)
      BY <1>0, <1>4, SweepsSame DEF Handed
    <2> QED BY <2>1, <2>2, CleanSame
  <1>6. CASE x # None
    <2>1. /\ x \in Scopes /\ cleanups' = [cleanups EXCEPT ![x] = Append(@, c)]
          /\ home' = [home EXCEPT ![c] = Home]
      BY <1>2, <1>6 DEF AddCleanup
    <2>2. PICK j \in Levels : stack[j].kind \in CodeKinds /\ stack[j].of = x
      BY <1>2, <1>6 DEF Contexts, InForce, Levels, OwnerKinds, EffectKinds, CodeKinds
    <2>3. Active(x)
      <3>1. Alive
        BY DEF Contexts
      <3> QED BY <1>0, <2>2, <3>1, CodeFrames DEF Active
    <2>4. home'[c] # None
      <3>1. stack # <<>>
        BY <1>0, <2>2, LevelFacts DEF Levels
      <3>2. Len(stack) \in Levels
        BY <1>0, <3>1, OneSweep
      <3>3. Top.kind \in CodeKinds
        BY <1>1, <3>2 DEF AllCode, Top
      <3>4. Home = Top.of
        BY <1>0, <3>1, <3>3, InnermostTop DEF Home, CodeKinds
      <3>5. Top.of \in Scopes
        BY <3>1, <3>3, TopFacts DEF Sound, CodeKinds, OwnerKinds, EffectKinds, Scopes
      <3>6. home'[c] = Home
        BY <1>0, <2>1 DEF TypeOK, Things
      <3> QED BY <3>4, <3>5, <3>6, LifecycleAssumption DEF Things
    <2>5. \A d \in Cleanups : d # c => home'[d] = home[d]
      BY <1>0, <2>1 DEF TypeOK, Things
    <2> DEFINE m == Len(cleanups[x]) + 1
    <2>6. /\ \A y \in Scopes : y # x => cleanups'[y] = cleanups[y]
          /\ cleanups[x] \in Seq(Cleanups) /\ cleanups'[x] = Append(cleanups[x], c)
      BY <1>0, <2>1 DEF TypeOK
    <2>7. /\ \A k \in 1..Len(cleanups'[x]) : \/ k \in 1..Len(cleanups[x]) /\ cleanups'[x][k] = cleanups[x][k]
                                             \/ k = m /\ cleanups'[x][k] = c
          /\ m \in 1..Len(cleanups'[x]) /\ cleanups'[x][m] = c
          /\ \A k \in 1..Len(cleanups[x]) : k \in 1..Len(cleanups'[x]) /\ cleanups'[x][k] = cleanups[x][k]
      <3>1. /\ Len(cleanups[x]) \in Nat /\ Len(cleanups'[x]) = Len(cleanups[x]) + 1
            /\ \A k \in 1..Len(cleanups[x]) : cleanups'[x][k] = cleanups[x][k]
            /\ cleanups'[x][Len(cleanups[x]) + 1] = c
        BY <2>6, AppendProperties, LenProperties
      <3>2. /\ \A k \in 1..Len(cleanups'[x]) : k \in 1..Len(cleanups[x]) \/ k = m
            /\ m \in 1..Len(cleanups'[x])
            /\ \A k \in 1..Len(cleanups[x]) : k \in 1..Len(cleanups'[x])
        BY <3>1
      <3> QED BY <3>1, <3>2
    <2> HIDE DEF m
    <2>8. \A y \in Scopes : \A k \in 1..Len(cleanups[y]) : cleanups[y][k] # c /\ cleanups[y][k] \in Cleanups
      BY <1>0, <1>3, ArrayFacts DEF Swept
    <2>9. \A y \in Scopes : \A k \in 1..Len(cleanups'[y]) :
            \/ k \in 1..Len(cleanups[y]) /\ cleanups'[y][k] = cleanups[y][k]
            \/ y = x /\ k = m /\ cleanups'[y][k] = c
      BY <2>6, <2>7
    <2>10. OneArray'
      BY <1>0, <2>8, <2>9 DEF OneArray
    <2>11. \A i \in Levels : stack[i].kind \notin SweepKinds
      BY <1>0, <1>1, OneSweep
    <2>12. Swept'
      <3>1. Levels' = Levels
        BY <1>4 DEF Levels
      <3>2. ASSUME NEW y \in Scopes, NEW k \in 1..Len(cleanups'[y])
            PROVE  home'[cleanups'[y][k]] # None /\ ran'[cleanups'[y][k]] = 0
        <4>1. CASE k \in 1..Len(cleanups[y]) /\ cleanups'[y][k] = cleanups[y][k]
          <5>1. home[cleanups[y][k]] # None /\ ran[cleanups[y][k]] = 0
            BY <1>0, <2>11, <4>1 DEF Swept, Sweeps
          <5> QED BY <1>4, <2>5, <2>8, <4>1, <5>1
        <4>2. CASE cleanups'[y][k] = c
          BY <1>3, <1>4, <2>4, <4>2
        <4> QED BY <2>9, <4>1, <4>2
      <3>3. \A y : \A i \in Levels' : ~Sweeps(i, y)'
        BY <1>4, <2>11, <3>1 DEF Sweeps
      <3>4. \A i \in Levels' : stack'[i].kind \notin SweepKinds
        BY <1>4, <2>11, <3>1
      <3> QED BY <3>2, <3>3, <3>4 DEF Swept
    <2>13. Pending'
      <3>1. ASSUME NEW d \in Cleanups PROVE ran'[d] <= 1
        BY <1>0, <1>4 DEF Pending
      <3>2. ASSUME NEW d \in Cleanups, home'[d] # None, ran'[d] = 0
            PROVE  \E y \in Scopes : \E k \in 1..Len(cleanups'[y]) : cleanups'[y][k] = d /\ WillSweep(y, k)'
        <4>1. CASE d = c
          <5>2. \A k : k = m => WillSweep(x, k)'
            BY <1>4, <2>3 DEF WillSweep, Active
          <5>3. \E k \in 1..Len(cleanups'[x]) : k = m /\ cleanups'[x][k] = d
            BY <2>7, <4>1
          <5> QED BY <2>1, <5>2, <5>3
        <4>2. CASE d # c
          <5>1. ran[d] = 0 /\ home[d] # None
            BY <1>4, <2>5, <3>2, <4>2
          <5>2. PICK y \in Scopes : \E k \in 1..Len(cleanups[y]) : cleanups[y][k] = d /\ WillSweep(y, k)
            BY <1>0, <5>1 DEF Pending
          <5>3. PICK k \in 1..Len(cleanups[y]) : cleanups[y][k] = d /\ WillSweep(y, k)
            BY <5>2
          <5>4. k \in 1..Len(cleanups'[y]) /\ cleanups'[y][k] = d
            BY <2>6, <2>7, <5>3
          <5>5. WillSweep(y, k)'
            BY <1>4, <5>3 DEF WillSweep, Active, Levels
          <5> QED BY <5>4, <5>5
        <4> QED BY <4>1, <4>2
      <3> QED BY <3>1, <3>2 DEF Pending
    <2> QED BY <2>10, <2>12, <2>13 DEF CInv
  <1> QED BY <1>5, <1>6

-----------------------------------------------------------------------------
(* The invariant, and what disposal promises                               *)

LEMMA CleanStep ==
  ASSUME IInv, QInv, Silent(program), [Next]_vars, Contexts, CInv
  PROVE  CInv'
  <1>1. CASE \/ \E o \in Owners : CreateRoot(o)
             \/ \E e \in Effects : RenderEffect(e) \/ DeferEffect(e)
    BY <1>1, CleanCreate
  <1>2. CASE \/ \E o \in Owners : RunWithOwner(o) \/ DisposeOwner(o)
             \/ OwnerReturn \/ FirstReturn \/ RunReturn \/ CleanupReturn \/ DisposeChild
             \/ OutOfRange \/ UNCHANGED vars
    BY <1>2, CleanPlain
  <1>3. CASE Microtask \/ \E e \in Effects : Rerun(e)
    BY <1>3, CleanPlain, CleanSweep
  <1>4. CASE NextLoop
    <2>1. Top.kind \in {"children", "disposers"}
      BY <1>4 DEF NextLoop, Running
    <2> QED BY <1>4, <2>1, CleanPlain, CleanSweep
  <1>5. CASE CallDisposer \/ \E e \in Effects : DisposeEffect(e)
    BY <1>5, CleanSweep
  <1>6. CASE CallCleanup
    BY <1>6, CleanCall
  <1>7. CASE RunStart \/ WipeReturn \/ DisposeReturn
    BY <1>7, CleanEnd
  <1>8. CASE \E c \in Cleanups : OnCleanup(c) \/ OnOwnerCleanup(c)
    BY <1>8, CleanAdd
  <1> QED BY <1>1, <1>2, <1>3, <1>4, <1>5, <1>6, <1>7, <1>8 DEF Next, UserStep, EngineStep

\* No loop finds its array shorter than it was.
LEMMA NoPanic ==
  ASSUME IInv, QInv, Loops, Swept, ~panicked, [Next]_vars
  PROVE  ~panicked'
  <1>1. CASE OutOfRange
    <2>1. stack # <<>>
      BY <1>1 DEF OutOfRange, Running
    <2>2. Len(stack) \in Levels
      BY <2>1, OneSweep DEF IInv, QInv
    <2>3. LoopOK(Top) /\ (Top.kind \in SweepKinds => Top.at <= Len(cleanups[Top.of]))
      BY <2>2 DEF Loops, Swept, Top
    <2>4. Top \in Frame /\ Sound(Top)
      BY <2>1, TopFacts
    <2>5. /\ Top.at \in Nat
          /\ Top.kind \in SweepKinds => Len(cleanups[Top.of]) \in Nat
          /\ Top.kind \in {"children", "disposers"} =>
               Len(children[Top.of]) \in Nat /\ Len(disposers[Top.of]) \in Nat
      <3>1. Top.kind \in SweepKinds => Top.of \in Scopes
        BY <2>4 DEF Sound, SweepKinds, Scopes
      <3>2. Top.kind \in {"children", "disposers"} => Top.of \in Owners
        BY <2>4 DEF Sound
      <3>3. Top.at \in Nat
        BY <2>2, LevelFacts DEF IInv, Top
      <3> QED BY <3>1, <3>2, <3>3, LevelFacts DEF IInv
    <2>6. CASE Top.kind \in {"clean", "wipe", "cleanups"} /\ Top.at > Len(cleanups[Top.of])
      BY <2>3, <2>5, <2>6 DEF SweepKinds
    <2>7. CASE Top.kind = "children" /\ Top.at > Len(children[Top.of])
      BY <2>3, <2>5, <2>7 DEF LoopOK
    <2>8. CASE Top.kind = "disposers" /\ Top.at > Len(disposers[Top.of])
      BY <2>3, <2>5, <2>8 DEF LoopOK
    <2> QED BY <1>1, <2>6, <2>7, <2>8 DEF OutOfRange, Running
  <1>2. CASE ~OutOfRange
    BY <1>2 DEF Next, UserStep, EngineStep, vars, CreateRoot, RunWithOwner, DisposeOwner,
       RenderEffect, DeferEffect, Rerun, DisposeEffect, OnCleanup, OnOwnerCleanup, AddCleanup,
       OwnerReturn, FirstReturn, RunStart, RunReturn, Microtask, CallCleanup, CleanupReturn,
       WipeReturn, DisposeChild, CallDisposer, NextLoop, DisposeReturn
  <1> QED BY <1>1, <1>2

LEMMA OrderlyStutter ==
  ASSUME IInv, UNCHANGED vars
  PROVE  Orderly
  <1>1. Len(stack) \in Nat /\ stack' = stack
    BY LevelFacts DEF IInv, vars
  <1>2. \A f : ~Pushed(f)
    BY <1>1 DEF Pushed
  <1> QED BY <1>2, UserMoves DEF Orderly

LEMMA DisposalStep ==
  ASSUME IInv, QInv, DInv, Silent(program), [Next]_vars, [Orderly]_vars
  PROVE  IInv' /\ QInv' /\ DInv'
  <1>1. Orderly
    BY OrderlyStutter
  <1>2. IInv' /\ QInv'
    BY IInvStep, QuietStep
  <1>3. Contexts /\ Trees /\ Attached /\ Loops /\ CInv /\ Swept /\ ~panicked
    BY DEF DInv, CInv
  <1>4. Contexts' /\ Trees'
    BY <1>1, <1>3, ContextsStep, TreesStep
  <1>5. Attached' /\ Loops'
    BY <1>1, <1>3, AttachedStep, LoopsStep
  <1>6. CInv' /\ ~panicked'
    BY <1>3, CleanStep, NoPanic
  <1> QED BY <1>2, <1>4, <1>5, <1>6 DEF DInv

LEMMA DisposalInit ==
  ASSUME Init
  PROVE  DInv
  <1>1. Levels = {} /\ 1..Len(stack) = {}
    BY EmptySeq DEF Init, Levels
  <1>2. 1..0 = {}
    OBVIOUS
  <1>3. \A o \in Owners : 1..Len(disposers[o]) = {} /\ 1..Len(children[o]) = {}
    <2>1. \A o \in Owners : Len(disposers[o]) = 0 /\ Len(children[o]) = 0
      BY EmptySeq DEF Init
    <2> QED BY <1>2, <2>1
  <1>4. \A x \in Scopes : 1..Len(cleanups[x]) = {}
    <2>1. \A x \in Scopes : Len(cleanups[x]) = 0
      BY EmptySeq DEF Init
    <2> QED BY <1>2, <2>1
  <1>5. \A x \in Scopes : life[x] = "absent" /\ parent[x] = None
    BY DEF Init
  <1>6. Contexts
    BY <1>1 DEF Contexts, InForce, Remembered, Alive, Init
  <1>7. Trees
    BY <1>3, <1>5 DEF Trees, Scopes
  <1>8. Attached /\ Loops
    BY <1>1, <1>5 DEF Attached, Active, Loops
  <1>9. OneArray /\ Swept
    BY <1>1, <1>4 DEF OneArray, Swept
  <1>10. Pending
    <2>1. \A c \in Cleanups : home[c] = None /\ ran[c] = 0
      BY DEF Init, Things
    <2> QED BY <2>1 DEF Pending
  <1> QED BY <1>6, <1>7, <1>8, <1>9, <1>10 DEF DInv, CInv, Init

\* The invariant of disposal.
LEMMA DisposalInvariance ==
  ASSUME \A p \in Programs : Silent(p)
  PROVE  Spec /\ [][Orderly]_vars => [](IInv /\ QInv /\ DInv)
  <1>1. Init => IInv /\ QInv /\ DInv
    BY IInvInit, QuietInit, DisposalInit
  <1>2. IInv => Silent(program)
    BY DEF IInv, TypeOK
  <1>3. IInv /\ QInv /\ DInv /\ [Next]_vars /\ [Orderly]_vars => (IInv /\ QInv /\ DInv)'
    BY <1>2, DisposalStep
  <1> QED BY <1>1, <1>3, PTL DEF Spec

\* run_cleanups_rev clears the array it went through, and each array is gone through once
\* between two runs of its effect or when its scope is disposed: no cleanup function is
\* called twice, and one that was not called is kept by a scope that is alive.
THEOREM CleanupsOnce ==
  ASSUME \A p \in Programs : Silent(p)
  PROVE  Spec /\ [][Orderly]_vars => []CleanedOnce
  <1>1. IInv /\ QInv /\ DInv => CleanedOnce
    <2> SUFFICES ASSUME IInv, QInv, DInv PROVE CleanedOnce
      OBVIOUS
    <2>1. Pending /\ Creating /\ Trees /\ TypeOK
      BY DEF IInv, QInv, DInv, CInv
    <2>2. ASSUME stack = <<>>, NEW c \in Cleanups, home[c] # None, ran[c] = 0
          PROVE  \E x \in Scopes : life[x] = "live" /\ \E i \in DOMAIN cleanups[x] : cleanups[x][i] = c
      <3>1. PICK x \in Scopes : \E k \in 1..Len(cleanups[x]) : cleanups[x][k] = c /\ WillSweep(x, k)
        BY <2>1, <2>2 DEF Pending
      <3>2. PICK k \in 1..Len(cleanups[x]) : cleanups[x][k] = c /\ WillSweep(x, k)
        BY <3>1
      <3>3. Levels = {}
        BY <2>2, EmptySeq DEF Levels
      <3>4. Active(x)
        BY <3>2, <3>3 DEF WillSweep
      <3>5. life[x] = "live"
        BY <2>1, <3>3, <3>4 DEF Active, Creating, Trees, Scopes
      <3>6. k \in DOMAIN cleanups[x]
        BY <2>1, ArrayFacts, LenProperties
      <3> QED BY <3>2, <3>5, <3>6
    <2> QED BY <2>1, <2>2 DEF CleanedOnce, Pending
  <1> QED BY <1>1, DisposalInvariance, PTL

\* Owner::dispose reaches every owner and effect below it through children and disposers,
\* also those added while it runs: when control is back with the event loop nothing is at
\* work under a disposed owner.
THEOREM NothingLeftAlive ==
  ASSUME \A p \in Programs : Silent(p)
  PROVE  Spec /\ [][Orderly]_vars => []NothingOutlives
  <1>1. IInv /\ QInv /\ DInv => NothingOutlives
    <2> SUFFICES ASSUME IInv, QInv, DInv, stack = <<>> PROVE NothingOutlives
      BY DEF NothingOutlives
    <2>1. Levels = {}
      BY EmptySeq DEF Levels
    <2> QED BY <2>1 DEF NothingOutlives, DInv, Attached
  <1> QED BY <1>1, DisposalInvariance, PTL

\* Owner::dispose disposes children and effects before it calls the cleanup functions: none
\* of these finds something at work under the owner it belongs to.
THEOREM ChildrenBeforeCleanups ==
  ASSUME \A p \in Programs : Silent(p)
  PROVE  Spec /\ [][Orderly]_vars => []ChildrenFirst
  <1>1. IInv /\ QInv /\ DInv => ChildrenFirst
    <2> SUFFICES ASSUME IInv, QInv, DInv PROVE ChildrenFirst
      OBVIOUS
    <2>1. Creating /\ Trees /\ Loops /\ DOMAIN stack = Levels
      BY LevelFacts DEF IInv, QInv, DInv
    <2> QED BY <2>1, NothingUnder DEF ChildrenFirst
  <1> QED BY <1>1, DisposalInvariance, PTL

\* The loops of Owner::dispose and run_cleanups_rev count down over arrays that the functions
\* they call may shorten (a child takes itself out of its parent's children): none of them
\* reads past the end.
THEOREM NeverOutOfRange ==
  ASSUME \A p \in Programs : Silent(p)
  PROVE  Spec /\ [][Orderly]_vars => []~panicked
  <1>1. DInv => ~panicked
    BY DEF DInv
  <1> QED BY <1>1, DisposalInvariance, PTL
=============================================================================
