--------------------------- MODULE ReactiveProofs ---------------------------
(***************************************************************************)
(* Theorems about Reactive, for every program and every set of signals,    *)
(* memos and effects.                                                      *)
(*                                                                         *)
(* 1. IInv: types, agreement of the frames of the call stack, the queue.   *)
(* 2. LifeOK: an effect has one creating call; disposal is final.          *)
(* 3. BornOK: nothing refers to an effect before it is created.            *)
(* 4. OnceOK: the history of a flush; an effect runs once in it.           *)
(* 5. ComputeOK, ReadsOK: the functions of memos call only one another,    *)
(*    and subscribe to what they read.                                     *)
(* 6. Linked, Covered: whoever has used a signal hears of a write, and     *)
(*    whoever is outdated is reached; so the system settles.               *)
(***************************************************************************)
EXTENDS Reactive, SequenceTheorems, TLAPS

-----------------------------------------------------------------------------
(* The inductive invariant                                                 *)

\* The subscriber in force under a frame, and the batch depth before its call.
Under(f) == IF f.kind \in {"first", "body", "compute"} THEN f.of
            ELSE IF f.kind = "untrack" THEN None ELSE f.prev
Before(f) == IF f.kind = "batch" THEN f.depth - 1 ELSE f.depth

\* Frames agree with one another: what one remembers of its caller is what the frame
\* below it had put in force; c and d are what is in force now.
Chain(st, c, d) ==
  /\ st = <<>> => c = None /\ d = 0
  /\ st # <<>> => /\ c = Under(st[Len(st)]) /\ d = st[Len(st)].depth
                  /\ st[1].prev = None /\ Before(st[1]) = 0
  /\ \A i \in 1..Len(st)-1 :
        st[i+1].prev = Under(st[i]) /\ Before(st[i+1]) = st[i].depth

\* A frame is of something of the right kind, a subscriber loop stays in its array (sb
\* holds the arrays), and effects rerun, and flushes run, outside batches only.
Sound(f, sb) ==
  /\ f.kind \in {"first", "body"} => f.of \in Effects
  /\ f.kind = "compute" => f.of \in Memos
  /\ f.kind = "notify" => f.of \in Sources /\ f.at >= 1 /\ f.last <= Len(sb[f.of])
  /\ f.kind \in {"body", "flush"} => f.depth = 0
  /\ f.kind = "batch" => f.depth >= 1

HasFlush(st) == \E i \in 1..Len(st) : st[i].kind = "flush"

Shape(st, sb, c, d) ==
  /\ st \in Seq(Frame)
  /\ \A i \in 1..Len(st) : Sound(st[i], sb)
  /\ Chain(st, c, d)

StackOK == Shape(stack, subs, subscriber, batchDepth)
QueueOK == pending # <<>> => batchDepth > 0 \/ HasFlush(stack)

IInv == TypeOK /\ StackOK /\ QueueOK

-----------------------------------------------------------------------------
(* Stacks                                                                  *)

\* What the return of the innermost call does to a stack.
LEMMA PopFacts ==
  ASSUME NEW st \in Seq(Frame), st # <<>>
  PROVE  /\ SubSeq(st, 1, Len(st) - 1) \in Seq(Frame)
         /\ Len(SubSeq(st, 1, Len(st) - 1)) = Len(st) - 1
         /\ \A i \in 1..Len(st)-1 : SubSeq(st, 1, Len(st) - 1)[i] = st[i]
  <1> DEFINE n == Len(st) - 1
  <1>1. n \in Nat /\ 1 \in Int /\ n \in Int
    BY EmptySeq, LenProperties
  <1>2. \A i \in 1..n : st[i] \in Frame
    BY ElementOfSeq, <1>1
  <1> HIDE DEF n
  <1>3. /\ SubSeq(st, 1, n) \in Seq(Frame)
        /\ Len(SubSeq(st, 1, n)) = IF 1 <= n THEN n - 1 + 1 ELSE 0
        /\ \A i \in 1..n-1+1 : SubSeq(st, 1, n)[i] = st[1+i-1]
    BY <1>1, <1>2, SubSeqProperties
  <1>4. /\ SubSeq(st, 1, n) \in Seq(Frame)
        /\ Len(SubSeq(st, 1, n)) = n
        /\ \A i \in 1..n : SubSeq(st, 1, n)[i] = st[i]
    BY <1>1, <1>3
  <1> QED BY <1>4 DEF n

\* What one step of a loop does to a stack.
LEMMA AdvanceFacts ==
  ASSUME NEW st \in Seq(Frame), st # <<>>
  PROVE  /\ [st EXCEPT ![Len(st)].at = @ + 1] \in Seq(Frame)
         /\ Len([st EXCEPT ![Len(st)].at = @ + 1]) = Len(st)
         /\ \A i \in 1..Len(st)-1 : [st EXCEPT ![Len(st)].at = @ + 1][i] = st[i]
         /\ [st EXCEPT ![Len(st)].at = @ + 1][Len(st)]
              = [st[Len(st)] EXCEPT !.at = @ + 1]
  <1> DEFINE f == [st[Len(st)] EXCEPT !.at = @ + 1]
  <1>1. Len(st) \in 1..Len(st)
    BY EmptySeq, LenProperties
  <1>2. f \in Frame
    <2>1. st[Len(st)] \in Frame
      BY <1>1, ElementOfSeq
    <2>2. ASSUME NEW r \in Frame, NEW v \in Nat  PROVE [r EXCEPT !.at = v] \in Frame
      BY Z3 DEF Frame
    <2>3. st[Len(st)].at + 1 \in Nat
      BY <2>1 DEF Frame
    <2> QED BY <2>1, <2>2, <2>3
  <1>3. [st EXCEPT ![Len(st)].at = @ + 1] = [st EXCEPT ![Len(st)] = f]
    OBVIOUS
  <1> QED BY <1>1, <1>2, <1>3, ExceptSeq

\* A call that remembers what is in force keeps the frames in agreement.
LEMMA ChainPush ==
  ASSUME NEW st \in Seq(Frame), NEW c, NEW d, NEW f \in Frame,
         Chain(st, c, d), f.prev = c, Before(f) = d
  PROVE  Chain(Append(st, f), Under(f), f.depth)
  <1> DEFINE new == Append(st, f)
  <1>0. Len(st) \in Nat /\ (st # <<>> => Len(st) >= 1)
    BY EmptySeq, LenProperties
  <1>1. /\ Len(new) = Len(st) + 1 /\ new # <<>>
        /\ \A i \in 1..Len(st) : new[i] = st[i]
        /\ new[Len(new)] = f
    BY AppendProperties
  <1>2. new[1].prev = None /\ Before(new[1]) = 0
    <2>1. CASE st = <<>>
      BY <2>1, <1>1, EmptySeq DEF Chain
    <2>2. CASE st # <<>>
      BY <2>2, <1>0, <1>1 DEF Chain
    <2> QED BY <2>1, <2>2
  <1>3. ASSUME NEW i \in 1..Len(new)-1
        PROVE  new[i+1].prev = Under(new[i]) /\ Before(new[i+1]) = new[i].depth
    <2>1. CASE i < Len(st)
      BY <1>0, <1>1, <2>1 DEF Chain
    <2>2. CASE i = Len(st)
      <3>1. st # <<>> /\ new[i] = st[Len(st)] /\ new[i+1] = f
        BY <1>0, <1>1, <2>2, EmptySeq
      <3> QED BY <3>1 DEF Chain
    <2> QED BY <1>0, <1>1, <2>1, <2>2
  <1> HIDE DEF new
  <1>4. Chain(new, Under(f), f.depth)
    BY <1>1, <1>2, <1>3 DEF Chain
  <1> QED BY <1>4 DEF new

\* A return that restores what the frame remembers keeps the frames in agreement.
LEMMA ChainPop ==
  ASSUME NEW st \in Seq(Frame), NEW c, NEW d, st # <<>>, Chain(st, c, d)
  PROVE  Chain(SubSeq(st, 1, Len(st) - 1), st[Len(st)].prev, Before(st[Len(st)]))
  <1> DEFINE new == SubSeq(st, 1, Len(st) - 1)
  <1>0. Len(st) \in Nat /\ Len(st) >= 1
    BY EmptySeq, LenProperties
  <1>1. /\ new \in Seq(Frame) /\ Len(new) = Len(st) - 1
        /\ \A i \in 1..Len(st)-1 : new[i] = st[i]
    BY PopFacts
  <1> HIDE DEF new
  <1>2. CASE Len(st) = 1
    <2>1. new = <<>> /\ Len(new) = 0
      BY <1>1, <1>2, EmptySeq
    <2>2. st[Len(st)] = st[1]
      BY <1>2
    <2>3. Chain(new, st[Len(st)].prev, Before(st[Len(st)]))
      BY <2>1, <2>2 DEF Chain
    <2> QED BY <2>3 DEF new
  <1>3. CASE Len(st) > 1
    <2>1. /\ new # <<>> /\ Len(new) \in 1..Len(st)-1
          /\ Len(st) = Len(new) + 1
          /\ new[Len(new)] = st[Len(new)]
          /\ new[1] = st[1]
      BY <1>0, <1>1, <1>3, EmptySeq
    <2>2. /\ st[Len(st)].prev = Under(st[Len(new)])
          /\ Before(st[Len(st)]) = st[Len(new)].depth
      BY <2>1 DEF Chain
    <2>3. ASSUME NEW i \in 1..Len(new)-1
          PROVE  new[i+1].prev = Under(new[i]) /\ Before(new[i+1]) = new[i].depth
      <3>1. i \in 1..Len(st)-1 /\ new[i] = st[i] /\ new[i+1] = st[i+1]
        BY <1>0, <1>1, <2>1
      <3> QED BY <3>1 DEF Chain
    <2>4. Chain(new, st[Len(st)].prev, Before(st[Len(st)]))
      BY <2>1, <2>2, <2>3 DEF Chain
    <2> QED BY <2>4 DEF new
  <1>4. \A k \in Nat : k >= 1 => k = 1 \/ k > 1
    OBVIOUS
  <1> QED BY <1>0, <1>2, <1>3, <1>4, Zenon

\* A step of a subscriber loop keeps the frames in agreement.
LEMMA ChainAdvance ==
  ASSUME NEW st \in Seq(Frame), NEW c, NEW d, st # <<>>, Chain(st, c, d)
  PROVE  Chain([st EXCEPT ![Len(st)].at = @ + 1], c, d)
  <1> DEFINE new == [st EXCEPT ![Len(st)].at = @ + 1]
  <1>0. Len(st) \in Nat /\ Len(st) >= 1
    BY EmptySeq, LenProperties
  <1>1. /\ new \in Seq(Frame) /\ Len(new) = Len(st)
        /\ \A i \in 1..Len(st)-1 : new[i] = st[i]
        /\ new[Len(st)] = [st[Len(st)] EXCEPT !.at = @ + 1]
    BY AdvanceFacts
  <1> HIDE DEF new
  <1>2. ASSUME NEW i \in 1..Len(st)
        PROVE  /\ Under(new[i]) = Under(st[i]) /\ Before(new[i]) = Before(st[i])
               /\ new[i].prev = st[i].prev /\ new[i].depth = st[i].depth
    <2>1. CASE i \in 1..Len(st)-1
      BY <1>1, <2>1
    <2>2. CASE i = Len(st)
      <3>1. st[i] \in Frame
        BY ElementOfSeq
      <3> QED BY <1>1, <2>2, <3>1 DEF Under, Before, Frame
    <2> QED BY <1>0, <2>1, <2>2
  <1>3. new # <<>> /\ 1 \in 1..Len(st) /\ Len(st) \in 1..Len(st)
    BY <1>0, <1>1, EmptySeq
  <1>4. \A i \in 1..Len(st)-1 : i \in 1..Len(st) /\ i+1 \in 1..Len(st)
    BY <1>0
  <1>5. Chain(new, c, d)
    BY <1>1, <1>2, <1>3, <1>4 DEF Chain
  <1> QED BY <1>5 DEF new
\* A call of a sound frame.
LEMMA ShapePush ==
  ASSUME NEW st, NEW sb, NEW c, NEW d, NEW f \in Frame,
         Shape(st, sb, c, d), f.prev = c, Before(f) = d, Sound(f, sb)
  PROVE  /\ Shape(Append(st, f), sb, Under(f), f.depth)
         /\ HasFlush(st) \/ f.kind = "flush" => HasFlush(Append(st, f))
  <1>1. st \in Seq(Frame) /\ Len(st) \in Nat
    BY LenProperties DEF Shape
  <1>2. /\ Append(st, f) \in Seq(Frame)
        /\ Len(Append(st, f)) = Len(st) + 1
        /\ \A i \in 1..Len(st) : Append(st, f)[i] = st[i]
        /\ Append(st, f)[Len(st) + 1] = f
    BY <1>1, AppendProperties
  <1>3. Chain(Append(st, f), Under(f), f.depth)
    BY <1>1, ChainPush DEF Shape
  <1>4. ASSUME NEW i \in 1..Len(Append(st, f))
        PROVE  Sound(Append(st, f)[i], sb)
    <2>1. CASE i \in 1..Len(st)
      BY <1>2, <2>1 DEF Shape
    <2>2. CASE i = Len(st) + 1
      BY <1>2, <2>2
    <2> QED BY <1>1, <1>2, <2>1, <2>2
  <1>5. HasFlush(st) \/ f.kind = "flush" => HasFlush(Append(st, f))
    BY <1>1, <1>2 DEF HasFlush
  <1> QED BY <1>2, <1>3, <1>4, <1>5 DEF Shape

\* A return.
LEMMA ShapePop ==
  ASSUME NEW st, NEW sb, NEW c, NEW d, Shape(st, sb, c, d), st # <<>>
  PROVE  /\ Shape(SubSeq(st, 1, Len(st) - 1), sb, st[Len(st)].prev, Before(st[Len(st)]))
         /\ HasFlush(st) /\ st[Len(st)].kind # "flush"
              => HasFlush(SubSeq(st, 1, Len(st) - 1))
  <1>1. st \in Seq(Frame) /\ Len(st) \in Nat
    BY LenProperties DEF Shape
  <1>2. /\ SubSeq(st, 1, Len(st) - 1) \in Seq(Frame)
        /\ Len(SubSeq(st, 1, Len(st) - 1)) = Len(st) - 1
        /\ \A i \in 1..Len(st)-1 : SubSeq(st, 1, Len(st) - 1)[i] = st[i]
    BY <1>1, PopFacts
  <1>3. Chain(SubSeq(st, 1, Len(st) - 1), st[Len(st)].prev, Before(st[Len(st)]))
    BY <1>1, ChainPop DEF Shape
  <1>4. \A i \in 1..Len(st)-1 : i \in 1..Len(st)
    BY <1>1
  <1>5. \A i \in 1..Len(st)-1 : Sound(SubSeq(st, 1, Len(st) - 1)[i], sb)
    BY <1>2, <1>4 DEF Shape
  <1>6. HasFlush(st) /\ st[Len(st)].kind # "flush"
          => HasFlush(SubSeq(st, 1, Len(st) - 1))
    BY <1>1, <1>2 DEF HasFlush
  <1> QED BY <1>2, <1>3, <1>5, <1>6 DEF Shape

\* A step of a subscriber loop.
LEMMA ShapeAdvance ==
  ASSUME NEW st, NEW sb, NEW c, NEW d, Shape(st, sb, c, d), st # <<>>
  PROVE  /\ Shape([st EXCEPT ![Len(st)].at = @ + 1], sb, c, d)
         /\ HasFlush(st) => HasFlush([st EXCEPT ![Len(st)].at = @ + 1])
  <1> DEFINE new == [st EXCEPT ![Len(st)].at = @ + 1]
  <1>1. st \in Seq(Frame) /\ Len(st) \in Nat
    BY LenProperties DEF Shape
  <1>2. /\ new \in Seq(Frame) /\ Len(new) = Len(st)
        /\ \A i \in 1..Len(st)-1 : new[i] = st[i]
        /\ new[Len(st)] = [st[Len(st)] EXCEPT !.at = @ + 1]
    BY <1>1, AdvanceFacts
  <1>3. Chain(new, c, d)
    BY <1>1, ChainAdvance DEF Shape
  <1> HIDE DEF new
  <1>4. ASSUME NEW i \in 1..Len(st)
        PROVE  Sound(new[i], sb) /\ new[i].kind = st[i].kind
    <2>1. st[i] \in Frame /\ Sound(st[i], sb)
      BY <1>1, ElementOfSeq DEF Shape
    <2>2. CASE i \in 1..Len(st)-1
      BY <1>2, <2>1, <2>2
    <2>3. CASE i = Len(st)
      <3>1. ASSUME NEW r \in Frame, NEW v \in Nat, v >= 1, Sound(r, sb)
            PROVE  Sound([r EXCEPT !.at = v], sb) /\ [r EXCEPT !.at = v].kind = r.kind
        BY <3>1 DEF Sound, Frame
      <3>2. st[i].at \in Nat /\ st[i].at + 1 \in Nat /\ st[i].at + 1 >= 1
        BY <2>1 DEF Frame
      <3> QED BY <1>2, <2>1, <2>3, <3>1, <3>2
    <2> QED BY <1>1, <2>2, <2>3
  <1>5. HasFlush(st) => HasFlush(new)
    BY <1>2, <1>4 DEF HasFlush
  <1>6. Shape(new, sb, c, d)
    BY <1>2, <1>3, <1>4 DEF Shape
  <1> QED BY <1>5, <1>6 DEF new

\* Subscribing lengthens an array, which no loop in progress minds.
LEMMA ShapeGrow ==
  ASSUME NEW st, NEW sb, NEW c, NEW d, Shape(st, sb, c, d),
         sb \in [Sources -> Seq(Computations)],
         NEW y \in Sources, NEW x \in Computations
  PROVE  /\ [sb EXCEPT ![y] = Append(@, x)] \in [Sources -> Seq(Computations)]
         /\ Shape(st, [sb EXCEPT ![y] = Append(@, x)], c, d)
  <1> DEFINE new == [sb EXCEPT ![y] = Append(@, x)]
  <1>1. /\ new \in [Sources -> Seq(Computations)]
        /\ \A z \in Sources : Len(new[z]) \in Nat /\ Len(sb[z]) \in Nat
                              /\ Len(sb[z]) <= Len(new[z])
    OBVIOUS
  <1> HIDE DEF new
  <1>2. \A f \in Frame : Sound(f, sb) => Sound(f, new)
    BY <1>1 DEF Sound, Frame
  <1>3. \A i \in 1..Len(st) : st[i] \in Frame
    BY ElementOfSeq DEF Shape
  <1>4. Shape(st, new, c, d)
    BY <1>2, <1>3 DEF Shape
  <1> QED BY <1>1, <1>4 DEF new
-----------------------------------------------------------------------------
(* Calls and returns                                                       *)

\* The frame of a call remembers what is in force.
LEMMA CallFacts ==
  ASSUME TypeOK, NEW k \in FrameKinds, NEW x \in Sources \cup Effects \cup {None}
  PROVE  /\ Call(k, x) \in Frame
         /\ Call(k, x).kind = k /\ Call(k, x).of = x
         /\ Call(k, x).prev = subscriber
         /\ Call(k, x).depth = IF k = "batch" THEN batchDepth + 1 ELSE batchDepth
         /\ Before(Call(k, x)) = batchDepth
  BY DEF TypeOK, Call, Before, Frame

\* So does the frame of a subscriber loop, which starts inside its array.
LEMMA NotifyCallFacts ==
  ASSUME TypeOK, NEW y \in Sources
  PROVE  /\ NotifyCall(y) \in Frame
         /\ NotifyCall(y).kind = "notify"
         /\ NotifyCall(y).prev = subscriber
         /\ NotifyCall(y).depth = batchDepth
         /\ Before(NotifyCall(y)) = batchDepth
         /\ Under(NotifyCall(y)) = subscriber
         /\ Sound(NotifyCall(y), subs)
  <1>1. Len(subs[y]) \in Nat
    BY DEF TypeOK
  <1>2. NotifyCall(y) = [kind |-> "notify", of |-> y, at |-> 1, last |-> Len(subs[y]),
                         prev |-> subscriber, depth |-> batchDepth]
    BY DEF NotifyCall, Call
  <1>3. NotifyCall(y) \in Frame
    BY <1>1, <1>2 DEF TypeOK, Frame, FrameKinds
  <1> QED BY <1>1, <1>2, <1>3 DEF Before, Under, Sound

\* What the innermost frame is and what its return restores.
LEMMA ReturnFacts ==
  ASSUME IInv, stack # <<>>
  PROVE  /\ Top \in Frame /\ Sound(Top, subs)
         /\ subscriber = Under(Top) /\ batchDepth = Top.depth
         /\ Shape(Popped, subs, Top.prev, Before(Top))
         /\ HasFlush(stack) /\ Top.kind # "flush" => HasFlush(Popped)
         /\ Top.kind # "batch" => Before(Top) = batchDepth
         /\ Top.kind = "batch" => Before(Top) = batchDepth - 1 /\ batchDepth >= 1
         /\ Top.kind \in {"notify", "flush", "batch"} => Top.prev = subscriber
  <1>1. stack \in Seq(Frame) /\ Len(stack) \in 1..Len(stack)
    BY EmptySeq, LenProperties DEF IInv, StackOK, Shape
  <1>2. Top \in Frame /\ Sound(Top, subs)
    BY <1>1, ElementOfSeq DEF IInv, StackOK, Shape, Top
  <1>3. subscriber = Under(Top) /\ batchDepth = Top.depth
    BY DEF IInv, StackOK, Shape, Chain, Top
  <1>4. /\ Shape(Popped, subs, Top.prev, Before(Top))
        /\ HasFlush(stack) /\ Top.kind # "flush" => HasFlush(Popped)
    BY ShapePop DEF IInv, StackOK, Popped, Top
  <1> QED BY <1>2, <1>3, <1>4 DEF Before, Under, Sound

\* The history counter saturates.
LEMMA CountFacts ==
  ASSUME TypeOK, NEW e \in Effects, CountRun(e)
  PROVE  ran' \in [Effects -> 0..2]
  <1>1. ran \in [Effects -> 0..2] /\ ran[e] \in 0..2
    BY DEF TypeOK
  <1>2. CASE Flushing /\ ran[e] < 2
    <2>1. ran[e] + 1 \in 0..2
      BY <1>1, <1>2
    <2> QED BY <1>1, <1>2, <2>1 DEF CountRun
  <1>3. CASE ~(Flushing /\ ran[e] < 2)
    BY <1>1, <1>3 DEF CountRun
  <1> QED BY <1>2, <1>3

\* Running a subscriber outside a batch: an effect's function is called, a memo passes
\* its mark on, or nothing happens.
LEMMA RunFacts ==
  ASSUME IInv, batchDepth = 0, NEW calls, Shape(calls, subs, subscriber, 0),
         NEW x \in Computations, Run(x, calls)
  PROVE  /\ Shape(stack', subs, subscriber', 0)
         /\ HasFlush(calls) => HasFlush(stack')
         /\ subscriber' \in Computations \cup {None}
         /\ dirty' \in [Memos -> BOOLEAN]
         /\ sources' \in [Computations -> SUBSET Signals]
         /\ outdated' \subseteq Computations
         /\ ran' \in [Effects -> 0..2]
  <1>0. TypeOK
    BY DEF IInv
  <1>1. CASE x \in Effects /\ RunEffect(x, calls) /\ UNCHANGED dirty
    <2>1. CASE Active(x)
      <3>1. /\ stack' = Append(calls, Call("body", x)) /\ subscriber' = x
            /\ Restart(x) /\ CountRun(x)
        BY <1>1, <2>1 DEF RunEffect
      <3>2. /\ Call("body", x) \in Frame
            /\ Call("body", x).prev = subscriber /\ Before(Call("body", x)) = 0
            /\ Under(Call("body", x)) = x /\ Call("body", x).depth = 0
            /\ Sound(Call("body", x), subs)
        BY <1>0, <1>1, CallFacts DEF FrameKinds, Under, Sound
      <3>3. Shape(stack', subs, subscriber', 0) /\ (HasFlush(calls) => HasFlush(stack'))
        BY <3>1, <3>2, ShapePush
      <3>4. ran' \in [Effects -> 0..2]
        BY <1>1, <1>0, <3>1, CountFacts
      <3>5. /\ sources' \in [Computations -> SUBSET Signals]
            /\ outdated' \subseteq Computations
        BY <1>0, <3>1 DEF TypeOK, Restart
      <3>6. dirty' \in [Memos -> BOOLEAN]
        BY <1>0, <1>1 DEF TypeOK
      <3> QED BY <3>1, <3>3, <3>4, <3>5, <3>6
    <2>2. CASE ~Active(x)
      BY <1>0, <1>1, <2>2 DEF RunEffect, TypeOK
    <2> QED BY <2>1, <2>2
  <1>2. CASE x \in Memos /\ MarkDirty(x, calls)
             /\ UNCHANGED <<subscriber, sources, outdated, ran>>
    <2>1. /\ subscriber' = subscriber
          /\ subscriber' \in Computations \cup {None}
          /\ sources' \in [Computations -> SUBSET Signals]
          /\ outdated' \subseteq Computations
          /\ ran' \in [Effects -> 0..2]
          /\ dirty' \in [Memos -> BOOLEAN]
      BY <1>0, <1>2 DEF TypeOK, MarkDirty
    <2>2. CASE stack' = Append(calls, NotifyCall(x))
      <3>1. /\ NotifyCall(x) \in Frame /\ NotifyCall(x).prev = subscriber
            /\ NotifyCall(x).depth = 0 /\ Before(NotifyCall(x)) = 0
            /\ Under(NotifyCall(x)) = subscriber /\ Sound(NotifyCall(x), subs)
        BY <1>0, <1>2, NotifyCallFacts DEF Sources
      <3> QED BY <2>1, <2>2, <3>1, ShapePush
    <2>3. CASE stack' = calls
      BY <2>1, <2>3
    <2> QED BY <1>2, <2>2, <2>3 DEF MarkDirty
  <1> QED BY <1>1, <1>2 DEF Run
-----------------------------------------------------------------------------
(* The invariant is inductive                                              *)

\* Nothing is subscribed, queued or called at first.
LEMMA IInvInit == Init => IInv
  <1> SUFFICES ASSUME Init  PROVE IInv
    OBVIOUS
  <1>1. TypeOK
    <2>1. writes \in 0..MaxWrites
      BY ReactiveAssumption DEF Init
    <2>2. /\ stack \in Seq(Frame) /\ pending \in Seq(Computations)
          /\ microtasks \in Seq(Effects) /\ subs \in [Sources -> Seq(Computations)]
      BY EmptySeq DEF Init
    <2>3. /\ status \in [Effects -> {"absent", "creating", "live", "disposed"}]
          /\ dirty \in [Memos -> BOOLEAN] /\ sources \in [Computations -> SUBSET Signals]
          /\ outdated \subseteq Computations
      BY DEF Init
    <2>4. ran \in [Effects -> 0..2]
      BY DEF Init
    <2> QED BY <2>1, <2>2, <2>3, <2>4 DEF Init, TypeOK
  <1>2. StackOK
    BY EmptySeq DEF Init, StackOK, Shape, Chain
  <1>3. QueueOK
    BY DEF Init, QueueOK
  <1> QED BY <1>1, <1>2, <1>3 DEF IInv

\* A read subscribes the current subscriber, and disturbs no loop in progress.
LEMMA TrackFacts ==
  ASSUME IInv, NEW y \in Sources, Track(y)
  PROVE  /\ subs' \in [Sources -> Seq(Computations)]
         /\ \A st, c, d : Shape(st, subs, c, d) => Shape(st, subs', c, d)
  <1>1. CASE subs' = subs
    BY <1>1 DEF IInv, TypeOK
  <1>2. CASE subs' = [subs EXCEPT ![y] = Append(@, subscriber)] /\ subscriber # None
    <2>1. subs \in [Sources -> Seq(Computations)] /\ subscriber \in Computations
      BY <1>2 DEF IInv, TypeOK
    <2>2. ASSUME NEW st, NEW c, NEW d, Shape(st, subs, c, d)
          PROVE  subs' \in [Sources -> Seq(Computations)] /\ Shape(st, subs', c, d)
      BY <1>2, <2>1, <2>2, ShapeGrow
    <2>3. subs' \in [Sources -> Seq(Computations)]
      BY <2>2 DEF IInv, StackOK
    <2> QED BY <2>2, <2>3
  <1> QED BY <1>1, <1>2 DEF Track

\* A computation that uses a memo inherits what the memo derives from.
LEMMA AbsorbFacts ==
  ASSUME TypeOK, NEW c \in Computations \cup {None}, NEW m \in Memos, Absorb(c, m)
  PROVE  /\ sources' \in [Computations -> SUBSET Signals]
         /\ outdated' \subseteq Computations
  BY DEF TypeOK, Absorb, Computations

\* The reads of user code keep the invariant.
LEMMA ReadStep ==
  ASSUME IInv,
         \/ \E s \in Signals : Get(s)
         \/ \E m \in Memos : GetCached(m) \/ GetDirty(m)
  PROVE  IInv'
  <1>0. TypeOK /\ StackOK /\ QueueOK
    BY DEF IInv
  <1>1. ASSUME NEW s \in Signals, Get(s)  PROVE IInv'
    <2>1. s \in Sources /\ Track(s)
      BY <1>1 DEF Get, Sources
    <2>2. sources' \in [Computations -> SUBSET Signals]
      BY <1>0, <1>1 DEF Get, TypeOK
    <2>3. TypeOK'
      BY <1>0, <1>1, <2>1, <2>2, TrackFacts DEF Get, TypeOK
    <2>4. StackOK'
      BY <1>0, <1>1, <2>1, TrackFacts DEF Get, StackOK
    <2>5. QueueOK'
      BY <1>0, <1>1 DEF Get, QueueOK, HasFlush
    <2> QED BY <2>3, <2>4, <2>5 DEF IInv
  <1>2. ASSUME NEW m \in Memos, GetCached(m)  PROVE IInv'
    <2>1. m \in Sources /\ Track(m)
      BY <1>2 DEF GetCached, Sources
    <2>2. /\ sources' \in [Computations -> SUBSET Signals]
          /\ outdated' \subseteq Computations
      BY <1>0, <1>2, AbsorbFacts DEF GetCached, TypeOK
    <2>3. TypeOK'
      BY <1>0, <1>2, <2>1, <2>2, TrackFacts DEF GetCached, TypeOK
    <2>4. StackOK'
      BY <1>0, <1>2, <2>1, TrackFacts DEF GetCached, StackOK
    <2>5. QueueOK'
      BY <1>0, <1>2 DEF GetCached, QueueOK, HasFlush
    <2> QED BY <2>3, <2>4, <2>5 DEF IInv
  <1>3. ASSUME NEW m \in Memos, GetDirty(m)  PROVE IInv'
    <2>1. m \in Sources /\ m \in Computations /\ Track(m)
      BY <1>3 DEF GetDirty, Sources, Computations
    <2> DEFINE f == Call("compute", m)
    <2>2. /\ f \in Frame /\ f.prev = subscriber /\ Before(f) = batchDepth
          /\ Under(f) = m /\ f.depth = batchDepth /\ Sound(f, subs)
      BY <1>0, <2>1, CallFacts DEF FrameKinds, Under, Sound
    <2>3. stack' = Append(stack, f)
      BY <1>3 DEF GetDirty
    <2> HIDE DEF f
    <2>4. /\ Shape(stack', subs, m, batchDepth)
          /\ HasFlush(stack) => HasFlush(stack')
      BY <1>0, <2>2, <2>3, ShapePush DEF StackOK
    <2>5. StackOK'
      BY <1>3, <2>1, <2>4, TrackFacts DEF GetDirty, StackOK
    <2>6. /\ sources' \in [Computations -> SUBSET Signals]
          /\ outdated' \subseteq Computations
      BY <1>0, <1>3 DEF GetDirty, Restart, TypeOK
    <2>7. TypeOK'
      <3>1. stack' \in Seq(Frame)
        BY <2>4 DEF Shape
      <3> QED BY <1>0, <1>3, <2>1, <2>6, <3>1, TrackFacts DEF GetDirty, TypeOK
    <2>8. QueueOK'
      BY <1>0, <1>3, <2>4 DEF GetDirty, QueueOK
    <2> QED BY <2>5, <2>7, <2>8 DEF IInv
  <1> QED BY <1>1, <1>2, <1>3

\* A call that leaves the batch alone keeps the invariant, whatever else it records.
LEMMA CallStep ==
  ASSUME IInv, NEW k \in FrameKinds \ {"batch", "flush", "notify"},
         NEW x \in Sources \cup Effects \cup {None}, Sound(Call(k, x), subs),
         stack' = Append(stack, Call(k, x)), subscriber' = Under(Call(k, x)),
         UNCHANGED <<subs, batchDepth, pending>>
  PROVE  StackOK' /\ QueueOK'
  <1> DEFINE f == Call(k, x)
  <1>1. /\ f \in Frame /\ f.prev = subscriber /\ Before(f) = batchDepth
        /\ f.depth = batchDepth
    BY CallFacts DEF IInv
  <1> HIDE DEF f
  <1>2. /\ Shape(stack', subs, subscriber', batchDepth)
        /\ HasFlush(stack) => HasFlush(stack')
    BY <1>1, ShapePush DEF IInv, StackOK, f
  <1> QED BY <1>2 DEF IInv, StackOK, QueueOK

\* A return that leaves the batch alone, and restores the subscriber where the code
\* does, keeps the invariant.
LEMMA ReturnStep ==
  ASSUME IInv, stack # <<>>, Top.kind # "batch", stack' = Popped,
         subscriber' = Top.prev, UNCHANGED <<subs, batchDepth, pending>>,
         Top.kind = "flush" => pending = <<>>
  PROVE  /\ StackOK' /\ QueueOK'
         /\ stack' \in Seq(Frame) /\ subscriber' \in Computations \cup {None}
  <1>1. /\ Shape(stack', subs', subscriber', batchDepth')
        /\ HasFlush(stack) /\ Top.kind # "flush" => HasFlush(stack')
    BY ReturnFacts
  <1>2. Top \in Frame
    BY ReturnFacts
  <1>3. Top.prev \in Computations \cup {None}
    BY <1>2 DEF Frame
  <1>4. QueueOK'
    BY <1>1 DEF IInv, QueueOK
  <1> QED BY <1>1, <1>3, <1>4 DEF StackOK, Shape

\* Writes and notification keep the invariant.
LEMMA WriteStep ==
  ASSUME IInv, (\E s \in Signals : Set(s)) \/ NotifyNext \/ NotifyReturn
  PROVE  IInv'
  <1>0. TypeOK /\ StackOK /\ QueueOK
    BY DEF IInv
  <1>1. ASSUME NEW s \in Signals, Set(s)  PROVE IInv'
    <2>1. s \in Sources
      BY DEF Sources
    <2>2. stack' = Append(stack, NotifyCall(s)) /\ UNCHANGED <<subs, subscriber, batchDepth>>
      BY <1>1 DEF Set
    <2>3. /\ Shape(stack', subs', subscriber', batchDepth')
          /\ HasFlush(stack) => HasFlush(stack')
      BY <1>0, <2>1, <2>2, NotifyCallFacts, ShapePush DEF StackOK
    <2>4. outdated' \subseteq Computations /\ writes' \in 0..MaxWrites /\ rewrote' \in BOOLEAN
      <3>1. writes \in 0..MaxWrites /\ writes < MaxWrites /\ writes' = writes + 1
        BY <1>0, <1>1 DEF Set, TypeOK
      <3>2. writes' \in 0..MaxWrites
        BY <3>1, ReactiveAssumption
      <3> QED BY <1>0, <1>1, <3>2 DEF Set, TypeOK, Flushing
    <2>5. TypeOK'
      BY <1>0, <1>1, <2>3, <2>4 DEF Set, TypeOK, Shape
    <2>6. StackOK' /\ QueueOK'
      BY <1>0, <1>1, <2>3 DEF Set, StackOK, QueueOK
    <2> QED BY <2>5, <2>6 DEF IInv
  <1>2. CASE NotifyNext
    <2> DEFINE calls == [stack EXCEPT ![Len(stack)].at = @ + 1]
               x == subs[Top.of][Top.at]
    <2>1. stack # <<>> /\ Top.kind = "notify" /\ Top.at <= Top.last
      BY <1>2 DEF NotifyNext, Running
    <2>2. x \in Computations
      <3>1. /\ Top \in Frame /\ Top.of \in Sources /\ Top.at >= 1
            /\ Top.last <= Len(subs[Top.of])
        BY <2>1, ReturnFacts DEF Sound
      <3>2. subs[Top.of] \in Seq(Computations) /\ Top.at \in Nat /\ Top.last \in Nat
        BY <1>0, <3>1 DEF TypeOK, Frame
      <3>3. Top.at \in 1..Len(subs[Top.of])
        BY <2>1, <3>1, <3>2
      <3> QED BY <3>2, <3>3, ElementOfSeq
    <2>3. /\ Shape(calls, subs, subscriber, batchDepth)
          /\ HasFlush(stack) => HasFlush(calls)
      BY <1>0, <2>1, ShapeAdvance DEF StackOK
    <2> HIDE DEF calls, x
    <2>4. Schedule(x, calls) /\ UNCHANGED <<program, subs, status, batchDepth, microtasks,
                                             writes, rewrote>>
      BY <1>2 DEF NotifyNext, calls, x
    <2>5. CASE Batching
      <3>1. /\ pending' = IF Queued(x) THEN pending ELSE Append(pending, x)
            /\ stack' = calls /\ UNCHANGED <<dirty, subscriber, sources, outdated, ran>>
        BY <2>4, <2>5 DEF Schedule
      <3>2. pending' \in Seq(Computations)
        BY <1>0, <2>2, <3>1, AppendProperties DEF TypeOK
      <3>3. StackOK' /\ stack' \in Seq(Frame)
        BY <2>3, <2>4, <3>1 DEF StackOK, Shape
      <3>4. TypeOK'
        BY <1>0, <2>4, <3>1, <3>2, <3>3 DEF TypeOK
      <3>5. QueueOK'
        BY <2>4, <2>5 DEF QueueOK, Batching
      <3> QED BY <3>3, <3>4, <3>5 DEF IInv
    <2>6. CASE ~Batching
      <3>1. Run(x, calls) /\ pending' = pending
        BY <2>4, <2>6 DEF Schedule
      <3>2. batchDepth = 0
        BY <1>0, <2>6 DEF Batching, TypeOK
      <3>3. /\ Shape(stack', subs, subscriber', 0)
            /\ HasFlush(calls) => HasFlush(stack')
            /\ subscriber' \in Computations \cup {None}
            /\ dirty' \in [Memos -> BOOLEAN]
            /\ sources' \in [Computations -> SUBSET Signals]
            /\ outdated' \subseteq Computations
            /\ ran' \in [Effects -> 0..2]
        BY <2>2, <2>3, <3>1, <3>2, RunFacts
      <3>4. StackOK' /\ stack' \in Seq(Frame)
        BY <2>4, <3>2, <3>3 DEF StackOK, Shape
      <3>5. TypeOK'
        BY <1>0, <2>4, <3>1, <3>3, <3>4 DEF TypeOK
      <3>6. QueueOK'
        BY <1>0, <2>3, <2>4, <3>1, <3>3 DEF QueueOK
      <3> QED BY <3>4, <3>5, <3>6 DEF IInv
    <2> QED BY <2>5, <2>6
  <1>3. CASE NotifyReturn
    <2>1. /\ stack # <<>> /\ Top.kind = "notify" /\ stack' = Popped
          /\ UNCHANGED <<program, subs, dirty, status, subscriber, batchDepth, pending,
                         microtasks, history>>
      BY <1>3 DEF NotifyReturn, Running
    <2>2. subscriber' = Top.prev
      BY <2>1, ReturnFacts
    <2>3. StackOK' /\ QueueOK' /\ stack' \in Seq(Frame)
      BY <2>1, <2>2, ReturnStep
    <2>4. TypeOK'
      BY <1>0, <2>1, <2>3 DEF TypeOK, history
    <2> QED BY <2>3, <2>4 DEF IInv
  <1> QED BY <1>1, <1>2, <1>3

\* Batches and the flush that ends the outermost one keep the invariant.
LEMMA BatchStep ==
  ASSUME IInv, BatchStart \/ BatchEnd \/ FlushNext \/ FlushReturn
  PROVE  IInv'
  <1>0. TypeOK /\ StackOK /\ QueueOK
    BY DEF IInv
  <1>1. CASE BatchStart
    <2> DEFINE f == Call("batch", None)
    <2>1. /\ f \in Frame /\ f.prev = subscriber /\ Before(f) = batchDepth
          /\ f.depth = batchDepth + 1 /\ Under(f) = subscriber /\ Sound(f, subs)
      <3>1. batchDepth \in Nat
        BY <1>0 DEF TypeOK
      <3> QED BY <1>0, <3>1, CallFacts DEF FrameKinds, Under, Sound
    <2>2. stack' = Append(stack, f) /\ batchDepth' = batchDepth + 1
      BY <1>1 DEF BatchStart
    <2> HIDE DEF f
    <2>3. Shape(stack', subs, subscriber, batchDepth + 1)
      BY <1>0, <2>1, <2>2, ShapePush DEF StackOK
    <2>4. StackOK' /\ TypeOK'
      BY <1>0, <1>1, <2>2, <2>3 DEF BatchStart, StackOK, Shape, TypeOK, history
    <2>5. QueueOK'
      BY <1>0, <2>2 DEF QueueOK, TypeOK
    <2> QED BY <2>4, <2>5 DEF IInv
  <1>2. CASE BatchEnd
    <2>1. /\ stack # <<>> /\ Top.kind = "batch" /\ batchDepth' = batchDepth - 1
          /\ UNCHANGED <<program, subs, dirty, status, subscriber, pending, microtasks,
                         history>>
      BY <1>2 DEF BatchEnd, Running
    <2>2. /\ Shape(Popped, subs, subscriber, batchDepth - 1)
          /\ HasFlush(stack) => HasFlush(Popped)
          /\ batchDepth >= 1
      BY <2>1, ReturnFacts
    <2>3. batchDepth' \in Nat
      BY <1>0, <2>1, <2>2 DEF TypeOK
    <2>4. CASE Outermost(batchDepth')
      <3> DEFINE f == [Call("flush", None) EXCEPT !.depth = 0]
      <3>1. f = [kind |-> "flush", of |-> None, at |-> 1, last |-> 0,
                 prev |-> subscriber, depth |-> 0]
        BY DEF Call
      <3>2. /\ f \in Frame /\ f.kind = "flush" /\ f.prev = subscriber /\ Before(f) = 0
            /\ f.depth = 0 /\ Under(f) = subscriber /\ Sound(f, subs)
        BY <1>0, <3>1 DEF TypeOK, Frame, FrameKinds, Before, Under, Sound
      <3>3. stack' = Append(Popped, f) /\ batchDepth' = 0
        BY <1>2, <2>4 DEF BatchEnd, Outermost
      <3> HIDE DEF f
      <3>4. Shape(Popped, subs, subscriber, 0)
        BY <2>1, <2>2, <3>3
      <3>5. Shape(stack', subs, subscriber, 0) /\ HasFlush(stack')
        BY <3>2, <3>3, <3>4, ShapePush
      <3>6. StackOK' /\ QueueOK' /\ stack' \in Seq(Frame)
        BY <2>1, <3>3, <3>5 DEF StackOK, QueueOK, Shape
      <3>7. TypeOK'
        BY <1>0, <2>1, <2>3, <3>6 DEF TypeOK, history
      <3> QED BY <3>6, <3>7 DEF IInv
    <2>5. CASE ~Outermost(batchDepth')
      <3>1. stack' = Popped
        BY <1>2, <2>5 DEF BatchEnd
      <3>2. StackOK' /\ stack' \in Seq(Frame)
        BY <2>1, <2>2, <3>1 DEF StackOK, Shape
      <3>3. QueueOK'
        BY <2>3, <2>5 DEF QueueOK, Outermost
      <3>4. TypeOK'
        BY <1>0, <2>1, <2>3, <3>2 DEF TypeOK, history
      <3> QED BY <3>2, <3>3, <3>4 DEF IInv
    <2> QED BY <2>4, <2>5
  <1>3. CASE FlushNext
    <2>1. /\ stack # <<>> /\ Top.kind = "flush" /\ pending # <<>>
          /\ pending' = Tail(pending) /\ Run(Head(pending), stack)
          /\ UNCHANGED <<program, subs, status, batchDepth, microtasks, writes, rewrote>>
      BY <1>3 DEF FlushNext, Running
    <2>2. batchDepth = 0 /\ HasFlush(stack)
      <3>1. Top.depth = 0 /\ batchDepth = Top.depth
        BY <2>1, ReturnFacts DEF Sound
      <3>2. Len(stack) \in 1..Len(stack)
        BY <1>0, <2>1, EmptySeq, LenProperties DEF StackOK, Shape
      <3> QED BY <2>1, <3>1, <3>2 DEF HasFlush, Top
    <2>3. Head(pending) \in Computations /\ pending' \in Seq(Computations)
      BY <1>0, <2>1, HeadTailProperties DEF TypeOK
    <2>4. /\ Shape(stack', subs, subscriber', 0) /\ HasFlush(stack')
          /\ subscriber' \in Computations \cup {None}
          /\ dirty' \in [Memos -> BOOLEAN]
          /\ sources' \in [Computations -> SUBSET Signals]
          /\ outdated' \subseteq Computations
          /\ ran' \in [Effects -> 0..2]
      BY <1>0, <2>1, <2>2, <2>3, RunFacts DEF StackOK
    <2>5. StackOK' /\ QueueOK' /\ stack' \in Seq(Frame)
      BY <2>1, <2>2, <2>4 DEF StackOK, QueueOK, Shape
    <2>6. TypeOK'
      BY <1>0, <2>1, <2>3, <2>4, <2>5 DEF TypeOK
    <2> QED BY <2>5, <2>6 DEF IInv
  <1>4. CASE FlushReturn
    <2>1. /\ stack # <<>> /\ Top.kind = "flush" /\ pending = <<>> /\ stack' = Popped
          /\ UNCHANGED <<program, subs, dirty, status, subscriber, batchDepth, pending,
                         microtasks, writes, sources, outdated>>
      BY <1>4 DEF FlushReturn, Running
    <2>2. subscriber' = Top.prev
      BY <2>1, ReturnFacts
    <2>3. StackOK' /\ QueueOK' /\ stack' \in Seq(Frame)
      BY <2>1, <2>2, ReturnStep
    <2>4. ran' \in [Effects -> 0..2] /\ rewrote' \in BOOLEAN
      <3>1. \/ UNCHANGED <<ran, rewrote>>
            \/ ran' = [e \in Effects |-> 0] /\ rewrote' = FALSE
        BY <1>4 DEF FlushReturn
      <3>2. [e \in Effects |-> 0] \in [Effects -> 0..2]
        OBVIOUS
      <3> QED BY <1>0, <3>1, <3>2 DEF TypeOK
    <2>5. TypeOK'
      BY <1>0, <2>1, <2>3, <2>4 DEF TypeOK
    <2> QED BY <2>3, <2>5 DEF IInv
  <1> QED BY <1>1, <1>2, <1>3, <1>4

\* Memo computations and untracked scopes keep the invariant.
LEMMA ScopeStep ==
  ASSUME IInv, ComputeReturn \/ Untracked \/ UntrackedReturn
  PROVE  IInv'
  <1>0. TypeOK
    BY DEF IInv
  <1>1. CASE ComputeReturn
    <2>1. /\ stack # <<>> /\ Top.kind = "compute" /\ stack' = Popped
          /\ subscriber' = Top.prev /\ Absorb(Top.prev, Top.of)
          /\ dirty' = [dirty EXCEPT ![Top.of] = FALSE]
          /\ UNCHANGED <<program, subs, status, batchDepth, pending, microtasks,
                         writes, ran, rewrote>>
      BY <1>1 DEF ComputeReturn, Running
    <2>2. StackOK' /\ QueueOK' /\ stack' \in Seq(Frame)
          /\ subscriber' \in Computations \cup {None}
      BY <2>1, ReturnStep
    <2>3. Top.of \in Memos
      BY <2>1, ReturnFacts DEF Sound
    <2>4. /\ sources' \in [Computations -> SUBSET Signals]
          /\ outdated' \subseteq Computations
      BY <1>0, <2>1, <2>2, <2>3, AbsorbFacts
    <2>5. TypeOK'
      BY <1>0, <2>1, <2>2, <2>3, <2>4 DEF TypeOK
    <2> QED BY <2>2, <2>5 DEF IInv
  <1>2. CASE Untracked
    <2>1. Sound(Call("untrack", None), subs) /\ Under(Call("untrack", None)) = None
      BY DEF Sound, Under, Call
    <2>2. /\ stack' = Append(stack, Call("untrack", None)) /\ subscriber' = None
          /\ UNCHANGED <<program, subs, dirty, status, batchDepth, pending, microtasks,
                         history>>
      BY <1>2 DEF Untracked
    <2>3. StackOK' /\ QueueOK'
      BY <2>1, <2>2, CallStep DEF FrameKinds
    <2>4. TypeOK'
      BY <1>0, <2>2, <2>3 DEF TypeOK, StackOK, Shape, history
    <2> QED BY <2>3, <2>4 DEF IInv
  <1>3. CASE UntrackedReturn
    <2>1. /\ stack # <<>> /\ Top.kind = "untrack" /\ stack' = Popped
          /\ subscriber' = Top.prev
          /\ UNCHANGED <<program, subs, dirty, status, batchDepth, pending, microtasks,
                         history>>
      BY <1>3 DEF UntrackedReturn, Running
    <2>2. StackOK' /\ QueueOK' /\ stack' \in Seq(Frame)
          /\ subscriber' \in Computations \cup {None}
      BY <2>1, ReturnStep
    <2>3. TypeOK'
      BY <1>0, <2>1, <2>2 DEF TypeOK, history
    <2> QED BY <2>2, <2>3 DEF IInv
  <1> QED BY <1>1, <1>2, <1>3

\* Creating, running and disposing effects keeps the invariant.
LEMMA EffectStep ==
  ASSUME IInv,
         \/ \E e \in Effects : RenderEffect(e) \/ DeferEffect(e) \/ Dispose(e)
         \/ FirstReturn \/ BodyReturn \/ Microtask
  PROVE  IInv'
  <1>0. TypeOK /\ StackOK /\ QueueOK
    BY DEF IInv
  <1>1. ASSUME NEW e \in Effects, RenderEffect(e)  PROVE IInv'
    <2>1. Sound(Call("first", e), subs) /\ Under(Call("first", e)) = e
      BY DEF Sound, Under, Call
    <2>2. /\ stack' = Append(stack, Call("first", e)) /\ subscriber' = e
          /\ status' = [status EXCEPT ![e] = "creating"] /\ CountRun(e)
          /\ UNCHANGED <<program, subs, dirty, batchDepth, pending, microtasks,
                         writes, sources, outdated, rewrote>>
      BY <1>1 DEF RenderEffect
    <2>3. StackOK' /\ QueueOK'
      BY <2>1, <2>2, CallStep DEF FrameKinds
    <2>4. ran' \in [Effects -> 0..2]
      BY <1>0, <2>2, CountFacts
    <2>5. TypeOK'
      BY <1>0, <2>2, <2>3, <2>4 DEF TypeOK, StackOK, Shape, Computations
    <2> QED BY <2>3, <2>5 DEF IInv
  <1>2. ASSUME NEW e \in Effects, DeferEffect(e)  PROVE IInv'
    <2>1. microtasks' \in Seq(Effects)
      BY <1>0, <1>2, AppendProperties DEF DeferEffect, TypeOK
    <2>2. TypeOK'
      BY <1>0, <1>2, <2>1 DEF DeferEffect, TypeOK, history
    <2>3. StackOK' /\ QueueOK'
      BY <1>0, <1>2 DEF DeferEffect, StackOK, QueueOK, HasFlush
    <2> QED BY <2>2, <2>3 DEF IInv
  <1>3. ASSUME NEW e \in Effects, Dispose(e)  PROVE IInv'
    <2>1. TypeOK'
      BY <1>0, <1>3 DEF Dispose, TypeOK, history
    <2>2. StackOK' /\ QueueOK'
      BY <1>0, <1>3 DEF Dispose, StackOK, QueueOK, HasFlush
    <2> QED BY <2>1, <2>2 DEF IInv
  <1>4. CASE FirstReturn \/ BodyReturn
    <2>1. /\ stack # <<>> /\ Top.kind \in {"first", "body"} /\ stack' = Popped
          /\ subscriber' = Top.prev
          /\ UNCHANGED <<program, subs, dirty, batchDepth, pending, microtasks, history>>
      BY <1>4 DEF FirstReturn, BodyReturn, Running
    <2>2. StackOK' /\ QueueOK' /\ stack' \in Seq(Frame)
          /\ subscriber' \in Computations \cup {None}
      BY <2>1, ReturnStep
    <2>3. status' \in [Effects -> {"absent", "creating", "live", "disposed"}]
      BY <1>0, <1>4 DEF FirstReturn, BodyReturn, TypeOK
    <2>4. TypeOK'
      BY <1>0, <2>1, <2>2, <2>3 DEF TypeOK, history
    <2> QED BY <2>2, <2>4 DEF IInv
  <1>5. CASE Microtask
    <2>1. /\ stack = <<>> /\ microtasks # <<>> /\ microtasks' = Tail(microtasks)
          /\ RunEffect(Head(microtasks), stack)
          /\ UNCHANGED <<program, subs, dirty, status, batchDepth, pending, writes, rewrote>>
      BY <1>5 DEF Microtask
    <2>2. Head(microtasks) \in Effects /\ microtasks' \in Seq(Effects)
      BY <1>0, <2>1, HeadTailProperties DEF TypeOK
    <2>3. batchDepth = 0
      BY <1>0, <2>1 DEF StackOK, Shape, Chain
    <2>4. Head(microtasks) \in Computations /\ Run(Head(microtasks), stack)
      BY <2>1, <2>2 DEF Run, Computations
    <2>5. /\ Shape(stack', subs, subscriber', 0)
          /\ HasFlush(stack) => HasFlush(stack')
          /\ subscriber' \in Computations \cup {None}
          /\ sources' \in [Computations -> SUBSET Signals]
          /\ outdated' \subseteq Computations
          /\ ran' \in [Effects -> 0..2]
      BY <1>0, <2>3, <2>4, RunFacts DEF StackOK
    <2>6. StackOK' /\ QueueOK' /\ stack' \in Seq(Frame)
      BY <1>0, <2>1, <2>3, <2>5 DEF StackOK, QueueOK, Shape
    <2>7. TypeOK'
      BY <1>0, <2>1, <2>2, <2>5, <2>6 DEF TypeOK
    <2> QED BY <2>6, <2>7 DEF IInv
  <1> QED BY <1>1, <1>2, <1>3, <1>4, <1>5

\* So does every step.
LEMMA IInvStep == IInv /\ [Next]_vars => IInv'
  <1> SUFFICES ASSUME IInv, [Next]_vars  PROVE IInv'
    OBVIOUS
  <1>1. CASE UserStep
    BY <1>1, ReadStep, WriteStep, BatchStep, ScopeStep, EffectStep DEF UserStep
  <1>2. CASE EngineStep
    BY <1>2, WriteStep, BatchStep, ScopeStep, EffectStep DEF EngineStep
  <1>3. CASE UNCHANGED vars
    BY <1>3 DEF vars, IInv, TypeOK, StackOK, QueueOK, HasFlush
  <1> QED BY <1>1, <1>2, <1>3 DEF Next

-----------------------------------------------------------------------------
(* Theorems                                                                *)

\* The invariant holds in every reachable state.
THEOREM Invariance == Spec => []IInv
  BY IInvInit, IInvStep, PTL DEF Spec

\* Only effects and memos are ever subscribed, queued or current, and every variable
\* has its type, whatever the program.
THEOREM TypeCorrect == Spec => []TypeOK
  <1>1. IInv => TypeOK
    BY DEF IInv
  <1> QED BY <1>1, Invariance, PTL

\* Whatever nesting of calls, runs and batches came before, the empty stack means an
\* untracked context, no open batch and no forgotten effect.
THEOREM ContextRestored == Spec => []Drained
  <1>1. IInv => Drained
    BY EmptySeq DEF IInv, StackOK, Shape, Chain, QueueOK, HasFlush, Drained
  <1> QED BY <1>1, Invariance, PTL

\* No effect reruns while a batch is open.
THEOREM BatchesDefer == Spec => []NoRerunInBatch
  <1>1. IInv => NoRerunInBatch
    BY LenProperties DEF IInv, StackOK, Shape, Sound, NoRerunInBatch
  <1> QED BY <1>1, Invariance, PTL

-----------------------------------------------------------------------------
(* Disposal                                                                *)
(*                                                                         *)
(* FirstReturn makes the effect it created live whatever its status, so    *)
(* that disposal is final rests on the creating call: the effect it        *)
(* created is still being created, and has no other such call.             *)

\* An effect with a creating call on the stack has one, and is being created.
Creating(st, life) ==
  \A i \in 1..Len(st) : st[i].kind = "first" =>
    /\ life[st[i].of] = "creating"
    /\ \A k \in 1..Len(st) : st[k].kind = "first" /\ st[k].of = st[i].of => k = i

LifeOK == Creating(stack, status)

\* Every creating call on the stack new is there on the stack st, at the same place.
Kept(st, new) ==
  \A i \in 1..Len(new) : new[i].kind = "first" =>
    i \in 1..Len(st) /\ st[i].kind = "first" /\ st[i].of = new[i].of

\* The step neither revives a disposed effect nor calls its function.
Final(e) == status[e] = "disposed" =>
  /\ status'[e] = "disposed"
  /\ Len(stack') > Len(stack) => stack'[Len(stack')].of # e

\* Fewer creating calls, and a change to an effect that is not being created, leave
\* the others as they are.
LEMMA CreatingKept ==
  ASSUME NEW st, NEW new, NEW life, Creating(st, life), Kept(st, new)
  PROVE  Creating(new, life)
  BY DEF Creating, Kept

LEMMA CreatingUpdate ==
  ASSUME NEW st, NEW life, Creating(st, life), NEW e, life[e] # "creating", NEW v
  PROVE  Creating(st, [life EXCEPT ![e] = v])
  BY DEF Creating

\* A call that creates nothing.
LEMMA KeptPush ==
  ASSUME NEW st, NEW calls \in Seq(Frame), Kept(st, calls),
         NEW f \in Frame, f.kind # "first"
  PROVE  /\ Kept(st, Append(calls, f))
         /\ Len(Append(calls, f)) = Len(calls) + 1
         /\ Append(calls, f)[Len(Append(calls, f))] = f
  <1>1. /\ Len(Append(calls, f)) = Len(calls) + 1 /\ Len(calls) \in Nat
        /\ \A i \in 1..Len(calls) : Append(calls, f)[i] = calls[i]
        /\ Append(calls, f)[Len(calls) + 1] = f
    BY AppendProperties, LenProperties
  <1> QED BY <1>1 DEF Kept

\* A return, and one step of a loop.
LEMMA KeptPop ==
  ASSUME IInv, stack # <<>>
  PROVE  Kept(stack, Popped) /\ Len(Popped) <= Len(stack)
  <1>1. stack \in Seq(Frame) /\ Len(stack) \in Nat
    BY LenProperties DEF IInv, TypeOK
  <1>2. /\ Len(Popped) = Len(stack) - 1
        /\ \A i \in 1..Len(stack)-1 : Popped[i] = stack[i]
    BY <1>1, PopFacts DEF Popped
  <1> QED BY <1>1, <1>2 DEF Kept

LEMMA KeptAdvance ==
  ASSUME IInv, stack # <<>>
  PROVE  /\ Kept(stack, [stack EXCEPT ![Len(stack)].at = @ + 1])
         /\ [stack EXCEPT ![Len(stack)].at = @ + 1] \in Seq(Frame)
         /\ Len([stack EXCEPT ![Len(stack)].at = @ + 1]) = Len(stack)
  <1> DEFINE new == [stack EXCEPT ![Len(stack)].at = @ + 1]
  <1>1. stack \in Seq(Frame) /\ Len(stack) \in Nat
    BY LenProperties DEF IInv, TypeOK
  <1>2. /\ new \in Seq(Frame) /\ Len(new) = Len(stack)
        /\ \A i \in 1..Len(stack)-1 : new[i] = stack[i]
        /\ new[Len(stack)] = [stack[Len(stack)] EXCEPT !.at = @ + 1]
    BY <1>1, AdvanceFacts
  <1>3. /\ [stack[Len(stack)] EXCEPT !.at = @ + 1].kind = stack[Len(stack)].kind
        /\ [stack[Len(stack)] EXCEPT !.at = @ + 1].of = stack[Len(stack)].of
    <2>1. stack[Len(stack)] \in Frame
      BY <1>1, ElementOfSeq, EmptySeq, LenProperties
    <2> QED BY <2>1 DEF Frame
  <1> HIDE DEF new
  <1>4. \A i \in 1..Len(stack) : i \in 1..Len(stack)-1 \/ i = Len(stack)
    BY <1>1
  <1>5. Kept(stack, new)
    BY <1>2, <1>3, <1>4 DEF Kept
  <1> QED BY <1>2, <1>5 DEF new

\* The dirtied memo, the written signal, the memo being computed: none is an effect.
LEMMA Apart ==
  ASSUME NEW e \in Effects
  PROVE  e \notin Sources /\ e \notin Memos /\ e # None
  BY ReactiveAssumption DEF Sources

-----------------------------------------------------------------------------
(* Steps, and the status of effects                                        *)

\* Running a subscriber calls the function of no disposed effect.
LEMMA RunFinal ==
  ASSUME IInv, NEW calls \in Seq(Frame), Kept(stack, calls), Len(calls) = Len(stack),
         NEW x \in Computations, Run(x, calls), status' = status
  PROVE  Kept(stack, stack') /\ \A e \in Effects : Final(e)
  <1>0. TypeOK /\ Len(calls) \in Nat
    BY LenProperties DEF IInv
  <1>1. CASE stack' = calls
    BY <1>0, <1>1 DEF Final
  <1>2. CASE x \in Effects /\ Active(x) /\ stack' = Append(calls, Call("body", x))
    <2>1. /\ Call("body", x) \in Frame /\ Call("body", x).kind = "body"
          /\ Call("body", x).of = x
      BY <1>0, <1>2, CallFacts DEF FrameKinds
    <2>2. Kept(stack, stack') /\ stack'[Len(stack')] = Call("body", x)
      BY <1>2, <2>1, KeptPush
    <2> QED BY <1>2, <2>1, <2>2 DEF Final, Active
  <1>3. CASE x \in Memos /\ stack' = Append(calls, NotifyCall(x))
    <2>1. /\ NotifyCall(x) \in Frame /\ NotifyCall(x).kind = "notify"
          /\ NotifyCall(x).of = x
      BY <1>0, <1>3, NotifyCallFacts DEF Sources, NotifyCall, Call
    <2>2. Kept(stack, stack') /\ stack'[Len(stack')] = NotifyCall(x)
      BY <1>3, <2>1, KeptPush
    <2> QED BY <1>3, <2>1, <2>2, Apart DEF Final
  <1> QED BY <1>1, <1>2, <1>3 DEF Run, RunEffect, MarkDirty

\* A call of a function of something that is not an effect.
LEMMA CallFinal ==
  ASSUME IInv, NEW f \in Frame, f.kind # "first", f.of \notin Effects,
         stack' = Append(stack, f), status' = status
  PROVE  Kept(stack, stack') /\ \A e \in Effects : Final(e)
  <1>1. stack \in Seq(Frame) /\ Kept(stack, stack)
    BY DEF IInv, TypeOK, Kept
  <1> QED BY <1>1, KeptPush DEF Final

\* Steps that neither create, finish creating nor dispose an effect.
LEMMA QuietStep ==
  ASSUME IInv,
         \/ \E s \in Signals : Get(s) \/ Set(s)
         \/ \E m \in Memos : GetCached(m) \/ GetDirty(m)
         \/ BatchStart \/ Untracked \/ NotifyNext \/ NotifyReturn \/ FlushNext
         \/ FlushReturn \/ BatchEnd \/ ComputeReturn \/ UntrackedReturn \/ Microtask
  PROVE  status' = status /\ Kept(stack, stack') /\ \A e \in Effects : Final(e)
  <1>0. /\ TypeOK /\ stack \in Seq(Frame) /\ Len(stack) \in Nat /\ Kept(stack, stack)
        /\ None \notin Effects
    BY LenProperties, ReactiveAssumption DEF IInv, TypeOK, Kept
  <1>1. CASE (\E s \in Signals : Get(s)) \/ \E m \in Memos : GetCached(m)
    BY <1>0, <1>1 DEF Get, GetCached, Final
  <1>2. ASSUME NEW s \in Signals, Set(s)
        PROVE  status' = status /\ Kept(stack, stack') /\ \A e \in Effects : Final(e)
    <2>1. /\ NotifyCall(s) \in Frame /\ NotifyCall(s).kind = "notify"
          /\ NotifyCall(s).of = s /\ s \notin Effects
      BY <1>0, NotifyCallFacts, Apart DEF Sources, NotifyCall, Call
    <2> QED BY <1>2, <2>1, CallFinal DEF Set
  <1>3. ASSUME NEW m \in Memos, GetDirty(m)
        PROVE  status' = status /\ Kept(stack, stack') /\ \A e \in Effects : Final(e)
    <2>1. /\ Call("compute", m) \in Frame /\ Call("compute", m).kind = "compute"
          /\ Call("compute", m).of = m /\ m \notin Effects
      BY <1>0, CallFacts, Apart DEF Sources, FrameKinds
    <2> QED BY <1>3, <2>1, CallFinal DEF GetDirty
  <1>4. ASSUME NEW k \in {"batch", "untrack"}, stack' = Append(stack, Call(k, None)),
               status' = status
        PROVE  status' = status /\ Kept(stack, stack') /\ \A e \in Effects : Final(e)
    <2>1. Call(k, None) \in Frame /\ Call(k, None).kind = k /\ Call(k, None).of = None
      BY <1>0, CallFacts DEF FrameKinds
    <2> QED BY <1>0, <1>4, <2>1, CallFinal
  <1>5. CASE BatchStart \/ Untracked
    BY <1>4, <1>5 DEF BatchStart, Untracked
  <1>6. ASSUME stack # <<>>, stack' = Popped, status' = status
        PROVE  status' = status /\ Kept(stack, stack') /\ \A e \in Effects : Final(e)
    <2>1. Kept(stack, stack') /\ Len(stack') <= Len(stack) /\ Len(stack') \in Nat
      BY <1>0, <1>6, KeptPop, PopFacts, EmptySeq DEF Popped
    <2> QED BY <1>0, <1>6, <2>1 DEF Final
  <1>7. CASE NotifyReturn \/ FlushReturn \/ ComputeReturn \/ UntrackedReturn
    BY <1>6, <1>7 DEF NotifyReturn, FlushReturn, ComputeReturn, UntrackedReturn, Running,
                      history
  <1>8. CASE BatchEnd
    <2>1. stack # <<>> /\ status' = status
      BY <1>8 DEF BatchEnd, Running
    <2>2. CASE stack' = Popped
      BY <1>6, <2>1, <2>2
    <2>3. CASE stack' = Append(Popped, [Call("flush", None) EXCEPT !.depth = 0])
      <3> DEFINE f == [Call("flush", None) EXCEPT !.depth = 0]
      <3>1. f = [kind |-> "flush", of |-> None, at |-> 1, last |-> 0,
                 prev |-> subscriber, depth |-> 0]
        BY DEF Call
      <3>2. f \in Frame /\ f.kind = "flush" /\ f.of = None
        BY <1>0, <3>1 DEF TypeOK, Frame, FrameKinds
      <3> HIDE DEF f
      <3>3. /\ Kept(stack, Popped) /\ Popped \in Seq(Frame)
            /\ Len(Popped) = Len(stack) - 1
        BY <1>0, <2>1, KeptPop, PopFacts DEF Popped
      <3>4. Kept(stack, stack') /\ stack'[Len(stack')] = f
        BY <2>3, <3>2, <3>3, KeptPush DEF f
      <3> QED BY <1>0, <2>1, <3>2, <3>4 DEF Final
    <2> QED BY <1>8, <2>2, <2>3 DEF BatchEnd
  <1>9. CASE NotifyNext
    <2> DEFINE calls == [stack EXCEPT ![Len(stack)].at = @ + 1]
               x == subs[Top.of][Top.at]
    <2>1. stack # <<>> /\ Top.kind = "notify" /\ Top.at <= Top.last /\ status' = status
      BY <1>9 DEF NotifyNext, Running
    <2>2. x \in Computations
      <3>1. /\ Top \in Frame /\ Top.of \in Sources /\ Top.at >= 1
            /\ Top.last <= Len(subs[Top.of])
        BY <2>1, ReturnFacts DEF Sound
      <3>2. subs[Top.of] \in Seq(Computations) /\ Top.at \in Nat /\ Top.last \in Nat
        BY <1>0, <3>1 DEF TypeOK, Frame
      <3>3. Top.at \in 1..Len(subs[Top.of])
        BY <2>1, <3>1, <3>2
      <3> QED BY <3>2, <3>3, ElementOfSeq
    <2>3. calls \in Seq(Frame) /\ Kept(stack, calls) /\ Len(calls) = Len(stack)
      BY <2>1, KeptAdvance
    <2> HIDE DEF calls, x
    <2>4. Schedule(x, calls)
      BY <1>9 DEF NotifyNext, calls, x
    <2>5. CASE stack' = calls
      BY <1>0, <2>1, <2>3, <2>5 DEF Final
    <2>6. CASE Run(x, calls)
      BY <2>1, <2>2, <2>3, <2>6, RunFinal
    <2> QED BY <2>1, <2>4, <2>5, <2>6 DEF Schedule
  <1>10. CASE FlushNext
    <2>1. Head(pending) \in Computations /\ Run(Head(pending), stack) /\ status' = status
      BY <1>0, <1>10, HeadTailProperties DEF FlushNext, TypeOK
    <2> QED BY <1>0, <2>1, RunFinal
  <1>11. CASE Microtask
    <2>1. Head(microtasks) \in Effects /\ status' = status
      BY <1>0, <1>11, HeadTailProperties DEF Microtask, TypeOK
    <2>2. CASE stack' = stack
      BY <1>0, <2>1, <2>2 DEF Final
    <2>3. CASE /\ Active(Head(microtasks))
               /\ stack' = Append(stack, Call("body", Head(microtasks)))
      <3>1. /\ Call("body", Head(microtasks)) \in Frame
            /\ Call("body", Head(microtasks)).kind = "body"
            /\ Call("body", Head(microtasks)).of = Head(microtasks)
        BY <1>0, <2>1, CallFacts DEF FrameKinds
      <3>2. Kept(stack, stack') /\ stack'[Len(stack')] = Call("body", Head(microtasks))
        BY <1>0, <2>3, <3>1, KeptPush
      <3> QED BY <2>1, <2>3, <3>1, <3>2 DEF Final, Active
    <2> QED BY <1>11, <2>2, <2>3 DEF Microtask, RunEffect
  <1> QED BY <1>1, <1>2, <1>3, <1>5, <1>7, <1>8, <1>9, <1>10, <1>11

\* A creating call begins.
LEMMA CreateStep ==
  ASSUME IInv, LifeOK, NEW e \in Effects, RenderEffect(e)
  PROVE  LifeOK' /\ \A x \in Effects : Final(x)
  <1>1. /\ stack \in Seq(Frame) /\ status[e] = "absent"
        /\ status \in [Effects -> {"absent", "creating", "live", "disposed"}]
        /\ stack' = Append(stack, Call("first", e))
        /\ status' = [status EXCEPT ![e] = "creating"]
    BY DEF IInv, TypeOK, RenderEffect
  <1> DEFINE f == Call("first", e)
  <1>2. f \in Frame /\ f.kind = "first" /\ f.of = e
    BY CallFacts DEF IInv, FrameKinds
  <1> HIDE DEF f
  <1>3. /\ Len(stack') = Len(stack) + 1 /\ Len(stack) \in Nat
        /\ \A i \in 1..Len(stack) : stack'[i] = stack[i]
        /\ stack'[Len(stack) + 1] = f
    BY <1>1, <1>2, AppendProperties, LenProperties DEF f
  <1>4. \A i \in 1..Len(stack) : stack[i].kind = "first" =>
          stack[i].of # e /\ stack[i].of \in Effects
    <2>1. \A i \in 1..Len(stack) : stack[i].kind = "first" => stack[i].of \in Effects
      BY DEF IInv, StackOK, Shape, Sound
    <2> QED BY <1>1, <2>1 DEF LifeOK, Creating
  <1>5. \A i \in 1..Len(stack') : i \in 1..Len(stack) \/ i = Len(stack) + 1
    BY <1>3
  <1>6. LifeOK'
    <2> SUFFICES ASSUME NEW i \in 1..Len(stack'), stack'[i].kind = "first"
                 PROVE  /\ status'[stack'[i].of] = "creating"
                        /\ \A k \in 1..Len(stack') :
                             stack'[k].kind = "first" /\ stack'[k].of = stack'[i].of
                               => k = i
      BY DEF LifeOK, Creating
    <2>1. CASE i \in 1..Len(stack)
      BY <1>1, <1>2, <1>3, <1>4, <1>5, <2>1 DEF LifeOK, Creating
    <2>2. CASE i = Len(stack) + 1
      BY <1>1, <1>2, <1>3, <1>4, <1>5, <2>2
    <2> QED BY <1>5, <2>1, <2>2
  <1> QED BY <1>1, <1>2, <1>3, <1>6 DEF Final

\* A creating call, or a later run, ends.
LEMMA FinishStep ==
  ASSUME IInv, LifeOK, FirstReturn \/ BodyReturn
  PROVE  LifeOK' /\ \A e \in Effects : Final(e)
  <1>1. /\ stack # <<>> /\ stack \in Seq(Frame) /\ stack' = Popped
        /\ Len(stack) \in 1..Len(stack) /\ Len(stack) \in Nat
        /\ status \in [Effects -> {"absent", "creating", "live", "disposed"}]
    BY EmptySeq, LenProperties DEF IInv, TypeOK, FirstReturn, BodyReturn, Running
  <1>2. /\ Kept(stack, stack') /\ Len(stack') = Len(stack) - 1
        /\ \A i \in 1..Len(stack)-1 : stack'[i] = stack[i]
    BY <1>1, KeptPop, PopFacts DEF Popped
  <1>3. Creating(stack', status)
    BY <1>2, CreatingKept DEF LifeOK
  <1>4. Top.kind \in {"first", "body"} => Top.of \in Effects
    BY <1>1, ReturnFacts DEF Sound
  <1>5. CASE FirstReturn
    <2>1. Top.kind = "first" /\ status' = [status EXCEPT ![Top.of] = "live"]
      BY <1>5 DEF FirstReturn, Running
    <2>2. /\ status[Top.of] = "creating"
          /\ \A k \in 1..Len(stack) :
               stack[k].kind = "first" /\ stack[k].of = Top.of => k = Len(stack)
      BY <1>1, <2>1 DEF LifeOK, Creating, Top
    <2>3. \A i \in 1..Len(stack') : stack'[i].kind = "first" => stack'[i].of # Top.of
      <3>1. \A i \in 1..Len(stack)-1 : i \in 1..Len(stack) /\ i # Len(stack)
        BY <1>1
      <3> QED BY <1>2, <2>2, <3>1
    <2>4. LifeOK'
      BY <1>3, <2>1, <2>3 DEF LifeOK, Creating
    <2>5. \A e \in Effects : Final(e)
      BY <1>1, <1>2, <1>4, <2>1, <2>2 DEF Final
    <2> QED BY <2>4, <2>5
  <1>6. CASE BodyReturn
    <2>1. /\ Top.kind = "body"
          /\ \/ status' = status
             \/ status[Top.of] = "live" /\ status' = [status EXCEPT ![Top.of] = "disposed"]
      BY <1>6 DEF BodyReturn, Running
    <2>2. LifeOK'
      BY <1>3, <2>1, CreatingUpdate DEF LifeOK
    <2>3. \A e \in Effects : Final(e)
      BY <1>1, <1>2, <1>4, <2>1 DEF Final
    <2> QED BY <2>2, <2>3
  <1> QED BY <1>5, <1>6

\* An effect is deferred or disposed.
LEMMA StatusStep ==
  ASSUME IInv, LifeOK, NEW e \in Effects, DeferEffect(e) \/ Dispose(e)
  PROVE  LifeOK' /\ \A x \in Effects : Final(x)
  <1>1. /\ stack' = stack /\ Len(stack) \in Nat
        /\ status \in [Effects -> {"absent", "creating", "live", "disposed"}]
        /\ status[e] \in {"absent", "live"}
        /\ \/ status[e] = "absent" /\ status' = [status EXCEPT ![e] = "live"]
           \/ status' = [status EXCEPT ![e] = "disposed"]
    BY LenProperties DEF IInv, TypeOK, DeferEffect, Dispose
  <1>2. LifeOK'
    BY <1>1, CreatingUpdate DEF LifeOK
  <1>3. \A x \in Effects : Final(x)
    BY <1>1 DEF Final
  <1> QED BY <1>2, <1>3

\* Every step keeps the invariant and revives nothing.
LEMMA LifeStep == IInv /\ LifeOK /\ [Next]_vars => LifeOK' /\ \A e \in Effects : Final(e)
  <1> SUFFICES ASSUME IInv, LifeOK, [Next]_vars
               PROVE  LifeOK' /\ \A e \in Effects : Final(e)
    OBVIOUS
  <1>1. CASE \/ \E s \in Signals : Get(s) \/ Set(s)
             \/ \E m \in Memos : GetCached(m) \/ GetDirty(m)
             \/ BatchStart \/ Untracked \/ NotifyNext \/ NotifyReturn \/ FlushNext
             \/ FlushReturn \/ BatchEnd \/ ComputeReturn \/ UntrackedReturn \/ Microtask
    <2>1. status' = status /\ Kept(stack, stack') /\ \A e \in Effects : Final(e)
      BY <1>1, QuietStep
    <2> QED BY <2>1, CreatingKept DEF LifeOK
  <1>2. CASE \E e \in Effects : RenderEffect(e) \/ DeferEffect(e) \/ Dispose(e)
    BY <1>2, CreateStep, StatusStep
  <1>3. CASE FirstReturn \/ BodyReturn
    BY <1>3, FinishStep
  <1>4. CASE UNCHANGED vars
    <2>1. Len(stack) \in Nat
      BY LenProperties DEF IInv, TypeOK
    <2> QED BY <1>4, <2>1 DEF vars, LifeOK, Final
  <1> QED BY <1>1, <1>2, <1>3, <1>4 DEF Next, UserStep, EngineStep

\* An effect under a creating call has one such call and is being created, whatever
\* its function and the runs it sets off create or dispose meanwhile.
THEOREM CreatedOnce == Spec => []LifeOK
  <1>1. Init => LifeOK
    BY EmptySeq DEF Init, LifeOK, Creating
  <1> QED BY <1>1, IInvInit, IInvStep, LifeStep, PTL DEF Spec

\* A disposed effect stays disposed and its function is never called again, for every
\* program: no subscriber array, loop, queue or microtask that still holds it matters.
THEOREM DisposalIsFinal == Spec => DisposedNeverRuns
  <1>1. IInv /\ LifeOK /\ [Next]_vars => [\A e \in Effects : Final(e)]_vars
    BY LifeStep
  <1>2. Spec => [][\A e \in Effects : Final(e)]_vars
    BY <1>1, Invariance, CreatedOnce, PTL DEF Spec
  <1> QED BY <1>2 DEF DisposedNeverRuns, Final

-----------------------------------------------------------------------------
(* What the stack, the arrays and the queue hold                           *)

\* Every frame of a stack after a call is one that was there or that of the call.
LEMMA PushedFrames ==
  ASSUME NEW st \in Seq(Frame), NEW f \in Frame
  PROVE  /\ Append(st, f) \in Seq(Frame)
         /\ Len(st) \in Nat /\ Len(Append(st, f)) = Len(st) + 1
         /\ \A i \in 1..Len(st) : Append(st, f)[i] = st[i]
         /\ Append(st, f)[Len(st) + 1] = f
         /\ \A i \in 1..Len(Append(st, f)) : i \in 1..Len(st) \/ i = Len(st) + 1
         /\ \A i \in 1..Len(st) : i \in 1..Len(Append(st, f))
         /\ Len(st) + 1 \in 1..Len(Append(st, f))
  <1>1. /\ Append(st, f) \in Seq(Frame) /\ Len(st) \in Nat
        /\ Len(Append(st, f)) = Len(st) + 1
        /\ \A i \in 1..Len(st) : Append(st, f)[i] = st[i]
        /\ Append(st, f)[Len(st) + 1] = f
    BY AppendProperties, LenProperties
  <1> QED BY <1>1

\* What a return leaves of it.
LEMMA PoppedFrames ==
  ASSUME NEW st \in Seq(Frame), st # <<>>
  PROVE  /\ SubSeq(st, 1, Len(st) - 1) \in Seq(Frame)
         /\ Len(st) \in Nat /\ Len(st) \in 1..Len(st) /\ st[Len(st)] \in Frame
         /\ Len(SubSeq(st, 1, Len(st) - 1)) = Len(st) - 1
         /\ \A i \in 1..Len(SubSeq(st, 1, Len(st) - 1)) :
              i \in 1..Len(st) /\ i # Len(st) /\ SubSeq(st, 1, Len(st) - 1)[i] = st[i]
         /\ \A i \in 1..Len(st) : i \in 1..Len(SubSeq(st, 1, Len(st) - 1)) \/ i = Len(st)
  <1>1. Len(st) \in Nat /\ Len(st) \in 1..Len(st)
    BY EmptySeq, LenProperties
  <1>2. st[Len(st)] \in Frame
    BY <1>1, ElementOfSeq
  <1>3. /\ SubSeq(st, 1, Len(st) - 1) \in Seq(Frame)
        /\ Len(SubSeq(st, 1, Len(st) - 1)) = Len(st) - 1
        /\ \A i \in 1..Len(st)-1 : SubSeq(st, 1, Len(st) - 1)[i] = st[i]
    BY PopFacts
  <1> QED BY <1>1, <1>2, <1>3

\* The stack after one step of the innermost loop.
Advanced(st) == [st EXCEPT ![Len(st)].at = @ + 1]

\* Only the place of that loop is another.
LEMMA AdvancedFrames ==
  ASSUME NEW st \in Seq(Frame), st # <<>>
  PROVE  /\ Advanced(st) \in Seq(Frame) /\ Len(Advanced(st)) = Len(st)
         /\ Len(st) \in Nat /\ Len(st) \in 1..Len(st)
         /\ \A i \in 1..Len(st) :
              /\ st[i] \in Frame
              /\ Advanced(st)[i].kind = st[i].kind /\ Advanced(st)[i].of = st[i].of
              /\ Advanced(st)[i].prev = st[i].prev /\ Advanced(st)[i].last = st[i].last
              /\ Advanced(st)[i].at = IF i = Len(st) THEN st[i].at + 1 ELSE st[i].at
  <1>1. Len(st) \in Nat /\ Len(st) \in 1..Len(st)
    BY EmptySeq, LenProperties
  <1>2. /\ Advanced(st) \in Seq(Frame) /\ Len(Advanced(st)) = Len(st)
        /\ \A i \in 1..Len(st)-1 : Advanced(st)[i] = st[i]
        /\ Advanced(st)[Len(st)] = [st[Len(st)] EXCEPT !.at = @ + 1]
    BY AdvanceFacts DEF Advanced
  <1>3. ASSUME NEW i \in 1..Len(st)
        PROVE  /\ st[i] \in Frame
               /\ Advanced(st)[i].kind = st[i].kind /\ Advanced(st)[i].of = st[i].of
               /\ Advanced(st)[i].prev = st[i].prev /\ Advanced(st)[i].last = st[i].last
               /\ Advanced(st)[i].at = IF i = Len(st) THEN st[i].at + 1 ELSE st[i].at
    <2>1. st[i] \in Frame
      BY ElementOfSeq
    <2>2. CASE i = Len(st)
      BY <1>2, <2>1, <2>2 DEF Frame
    <2>3. CASE i # Len(st)
      <3>1. i \in 1..Len(st)-1
        BY <1>1, <2>3
      <3> QED BY <1>2, <2>1, <2>3, <3>1
    <2> QED BY <2>2, <2>3
  <1> QED BY <1>1, <1>2, <1>3

\* The frame of a call, and of a subscriber loop, field by field.
LEMMA CallIs ==
  ASSUME TypeOK, NEW k \in FrameKinds, NEW x \in Sources \cup Effects \cup {None}
  PROVE  /\ Call(k, x) \in Frame
         /\ Call(k, x).kind = k /\ Call(k, x).of = x /\ Call(k, x).prev = subscriber
  BY CallFacts

LEMMA NotifyCallIs ==
  ASSUME TypeOK, NEW y \in Sources
  PROVE  /\ NotifyCall(y) \in Frame
         /\ NotifyCall(y).kind = "notify" /\ NotifyCall(y).of = y
         /\ NotifyCall(y).prev = subscriber
         /\ NotifyCall(y).at = 1 /\ NotifyCall(y).last = Len(subs[y])
  <1>1. NotifyCall(y) = [kind |-> "notify", of |-> y, at |-> 1, last |-> Len(subs[y]),
                         prev |-> subscriber, depth |-> batchDepth]
    BY DEF NotifyCall, Call
  <1> QED BY <1>1, NotifyCallFacts

\* The frame of a flush, as batch_end calls it.
FlushCall == [Call("flush", None) EXCEPT !.depth = 0]

LEMMA FlushCallIs ==
  ASSUME TypeOK
  PROVE  /\ FlushCall \in Frame /\ FlushCall.kind = "flush" /\ FlushCall.of = None
         /\ FlushCall.prev = subscriber
  <1>1. FlushCall = [kind |-> "flush", of |-> None, at |-> 1, last |-> 0,
                     prev |-> subscriber, depth |-> 0]
    BY DEF FlushCall, Call
  <1> QED BY <1>1 DEF TypeOK, Frame, FrameKinds

\* The three outcomes of running a subscriber outside a batch.
Called(x, calls) ==
  /\ x \in Effects /\ Active(x)
  /\ stack' = Append(calls, Call("body", x)) /\ subscriber' = x
  /\ Restart(x) /\ CountRun(x) /\ dirty' = dirty
Passed(x, calls) ==
  /\ x \in Memos /\ ~dirty[x]
  /\ stack' = Append(calls, NotifyCall(x)) /\ dirty' = [dirty EXCEPT ![x] = TRUE]
  /\ UNCHANGED <<subscriber, sources, outdated, ran>>
Ignored(x, calls) ==
  /\ x \in Effects => ~Active(x)
  /\ x \in Memos => dirty[x]
  /\ stack' = calls /\ UNCHANGED <<dirty, subscriber, sources, outdated, ran>>

\* There are no others.
LEMMA RunCases ==
  ASSUME NEW x \in Computations, NEW calls, Run(x, calls)
  PROVE  Called(x, calls) \/ Passed(x, calls) \/ Ignored(x, calls)
  <1>1. CASE x \in Effects /\ RunEffect(x, calls) /\ UNCHANGED dirty
    BY <1>1, Apart DEF RunEffect, Called, Ignored
  <1>2. CASE x \in Memos /\ MarkDirty(x, calls) /\ UNCHANGED <<subscriber, sources, outdated, ran>>
    <2>1. x \notin Effects
      BY <1>2, Apart
    <2> QED BY <1>2, <2>1 DEF MarkDirty, Passed, Ignored
  <1> QED BY <1>1, <1>2 DEF Run

\* The subscriber that the innermost loop has come to.
NotifySubscriber == subs[Top.of][Top.at]

\* The loop over subscribers takes one and queues it or runs it ...
LEMMA NotifyFacts ==
  ASSUME IInv, NotifyNext
  PROVE  /\ stack # <<>> /\ Top.kind = "notify" /\ Top.of \in Sources
         /\ Top.at \in 1..Len(subs[Top.of]) /\ Top.at <= Top.last
         /\ Top.last \in Nat /\ Top.last <= Len(subs[Top.of])
         /\ NotifySubscriber \in Computations
         /\ UNCHANGED <<program, subs, status, batchDepth, microtasks, writes, rewrote>>
         /\ \/ /\ pending' = IF Queued(NotifySubscriber) THEN pending
                             ELSE Append(pending, NotifySubscriber)
               /\ stack' = Advanced(stack)
               /\ UNCHANGED <<dirty, subscriber, sources, outdated, ran>>
            \/ /\ Run(NotifySubscriber, Advanced(stack))
               /\ pending' = pending
  <1>1. stack # <<>> /\ Top.kind = "notify" /\ Top.at <= Top.last
    BY DEF NotifyNext, Running
  <1>2. /\ Top \in Frame /\ Top.of \in Sources /\ Top.at >= 1
        /\ Top.last <= Len(subs[Top.of])
    BY <1>1, ReturnFacts DEF Sound
  <1>3. subs[Top.of] \in Seq(Computations) /\ Top.at \in Nat /\ Top.last \in Nat
    BY <1>2 DEF IInv, TypeOK, Frame
  <1>4. Len(subs[Top.of]) \in Nat
    BY <1>3, LenProperties
  <1>5. Top.at \in 1..Len(subs[Top.of])
    BY <1>1, <1>2, <1>3, <1>4
  <1>6. NotifySubscriber \in Computations
    BY <1>3, <1>5, ElementOfSeq DEF NotifySubscriber
  <1>7. /\ Schedule(NotifySubscriber, Advanced(stack))
        /\ UNCHANGED <<program, subs, status, batchDepth, microtasks, writes, rewrote>>
    BY DEF NotifyNext, NotifySubscriber, Advanced
  <1> QED BY <1>1, <1>2, <1>3, <1>5, <1>6, <1>7 DEF Schedule

\* ... a flush runs the head of the queue ...
LEMMA FlushFacts ==
  ASSUME IInv, FlushNext
  PROVE  /\ stack # <<>> /\ Top.kind = "flush" /\ pending # <<>>
         /\ Head(pending) \in Computations /\ Run(Head(pending), stack)
         /\ UNCHANGED <<program, subs, status, batchDepth, microtasks, writes, rewrote>>
         /\ pending' = Tail(pending) /\ pending' \in Seq(Computations)
         /\ Len(pending) \in Nat /\ Len(pending') = Len(pending) - 1
         /\ Len(pending) >= 1 /\ pending[1] = Head(pending)
         /\ \A i \in 1..Len(pending') : pending'[i] = pending[i+1]
  <1>1. pending \in Seq(Computations) /\ pending # <<>>
    BY DEF IInv, TypeOK, FlushNext
  <1>2. /\ Head(pending) \in Computations /\ Tail(pending) \in Seq(Computations)
        /\ Len(pending) \in Nat /\ Len(Tail(pending)) = Len(pending) - 1
        /\ Len(pending) >= 1 /\ pending[1] = Head(pending)
        /\ \A i \in 1..Len(Tail(pending)) : Tail(pending)[i] = pending[i+1]
    BY <1>1, HeadTailProperties, EmptySeq, LenProperties
  <1> QED BY <1>1, <1>2 DEF FlushNext, Running

\* ... and a microtask runs the effect it holds.
LEMMA MicrotaskFacts ==
  ASSUME IInv, Microtask
  PROVE  /\ stack = <<>> /\ Head(microtasks) \in Effects
         /\ Head(microtasks) \in Computations /\ Run(Head(microtasks), stack)
         /\ UNCHANGED <<program, subs, dirty, status, batchDepth, pending, writes, rewrote>>
  <1>1. Head(microtasks) \in Effects
    BY HeadTailProperties DEF IInv, TypeOK, Microtask
  <1> QED BY <1>1 DEF Microtask, Run, Computations

-----------------------------------------------------------------------------
(* Effects that are not created yet                                        *)

\* If x is an effect, it was created.
KnownIn(x, life) == x \in Effects => life[x] # "absent"
\* Frames are about, and remember, effects that were created, as does c.
Born(st, c, life) ==
  /\ KnownIn(c, life)
  /\ \A i \in 1..Len(st) : KnownIn(st[i].of, life) /\ KnownIn(st[i].prev, life)

\* Nothing is known of an effect before it is created.
Untouched(e) ==
  /\ \A y \in Sources : ~Subscribed(e, y)
  /\ ~Queued(e) /\ sources[e] = {} /\ e \notin outdated /\ ran[e] = 0

\* Nothing refers to an effect before it is created.
BornOK ==
  /\ Born(stack, subscriber, status)
  /\ \A e \in Effects : status[e] = "absent" => Untouched(e)

\* Calls, returns, steps of a loop and changes of status keep frames about such effects.
LEMMA BornPush ==
  ASSUME NEW st \in Seq(Frame), NEW c, NEW life, Born(st, c, life), NEW f \in Frame,
         KnownIn(f.of, life), KnownIn(f.prev, life), NEW d, KnownIn(d, life)
  PROVE  Born(Append(st, f), d, life)
  BY PushedFrames DEF Born

LEMMA BornPop ==
  ASSUME NEW st \in Seq(Frame), st # <<>>, NEW c, NEW life, Born(st, c, life)
  PROVE  /\ Born(SubSeq(st, 1, Len(st) - 1), c, life)
         /\ Born(SubSeq(st, 1, Len(st) - 1), st[Len(st)].prev, life)
         /\ KnownIn(st[Len(st)].prev, life)
  BY PoppedFrames DEF Born

LEMMA BornAdvance ==
  ASSUME NEW st \in Seq(Frame), st # <<>>, NEW c, NEW life, Born(st, c, life)
  PROVE  Born(Advanced(st), c, life)
  BY AdvancedFrames DEF Born

LEMMA BornUpdate ==
  ASSUME NEW st, NEW c, NEW life, Born(st, c, life), NEW life2,
         \A e \in Effects : life[e] # "absent" => life2[e] # "absent"
  PROVE  Born(st, c, life2)
  BY DEF Born, KnownIn

\* No step makes an effect absent.
LEMMA CreatedStays ==
  ASSUME IInv, [Next]_vars, NEW e \in Effects, status[e] # "absent"
  PROVE  status'[e] # "absent"
  <1>0. status \in [Effects -> {"absent", "creating", "live", "disposed"}]
    BY DEF IInv, TypeOK
  <1>1. CASE UserStep
    BY <1>0, <1>1 DEF UserStep, Get, Set, GetCached, GetDirty, RenderEffect, DeferEffect,
                 Dispose, BatchStart, Untracked
  <1>2. CASE EngineStep
    BY <1>0, <1>2 DEF EngineStep, NotifyNext, NotifyReturn, FlushNext, FlushReturn, BatchEnd,
                 ComputeReturn, UntrackedReturn, FirstReturn, BodyReturn, Microtask
  <1>3. CASE UNCHANGED vars
    BY <1>3 DEF vars
  <1> QED BY <1>1, <1>2, <1>3 DEF Next

\* Running a subscriber that was created.
LEMMA RunBorn ==
  ASSUME TypeOK, NEW x \in Computations, NEW calls \in Seq(Frame), Run(x, calls),
         Born(calls, subscriber, status), status' = status
  PROVE  Born(stack', subscriber', status')
  <1>1. CASE Called(x, calls)
    <2>1. /\ Call("body", x) \in Frame /\ Call("body", x).of = x
          /\ Call("body", x).prev = subscriber
      BY <1>1, CallIs DEF Called, FrameKinds
    <2>2. KnownIn(x, status) /\ KnownIn(subscriber, status)
      BY <1>1 DEF Called, Active, KnownIn, Born
    <2> QED BY <1>1, <2>1, <2>2, BornPush DEF Called
  <1>2. CASE Passed(x, calls)
    <2>1. /\ NotifyCall(x) \in Frame /\ NotifyCall(x).of = x
          /\ NotifyCall(x).prev = subscriber
      BY <1>2, NotifyCallIs DEF Passed, Sources
    <2>2. KnownIn(x, status) /\ KnownIn(subscriber, status)
      BY <1>2, Apart DEF Passed, KnownIn, Born
    <2> QED BY <1>2, <2>1, <2>2, BornPush DEF Passed
  <1>3. CASE Ignored(x, calls)
    BY <1>3 DEF Ignored
  <1> QED BY <1>1, <1>2, <1>3, RunCases

\* Frames and subscriber stay about effects that were created.
LEMMA BornStep ==
  ASSUME IInv, Born(stack, subscriber, status), [Next]_vars
  PROVE  Born(stack', subscriber', status')
  <1>0. TypeOK /\ stack \in Seq(Frame) /\ KnownIn(subscriber, status) /\ KnownIn(None, status)
        /\ status \in [Effects -> {"absent", "creating", "live", "disposed"}]
    BY ReactiveAssumption DEF IInv, TypeOK, Born, KnownIn
  <1>1. Born(stack, subscriber, status')
    BY CreatedStays, BornUpdate
  <1>2. CASE stack' = stack /\ subscriber' = subscriber
    BY <1>1, <1>2
  <1>3. ASSUME stack # <<>>, stack' = Popped, subscriber' = subscriber \/ subscriber' = Top.prev
        PROVE  Born(stack', subscriber', status')
    BY <1>0, <1>1, <1>3, BornPop DEF Popped, Top
  <1>4. ASSUME NEW f \in Frame, stack' = Append(stack, f), f.prev = subscriber,
               KnownIn(f.of, status'), subscriber' = subscriber \/ subscriber' = f.of
        PROVE  Born(stack', subscriber', status')
    <2>1. KnownIn(subscriber, status')
      BY <1>1 DEF Born
    <2> QED BY <1>0, <1>1, <1>4, <2>1, BornPush
  <1>5. CASE (\E s \in Signals : Get(s)) \/ (\E m \in Memos : GetCached(m))
             \/ (\E e \in Effects : DeferEffect(e) \/ Dispose(e)) \/ UNCHANGED vars
    BY <1>2, <1>5 DEF Get, GetCached, DeferEffect, Dispose, vars
  <1>6. CASE NotifyReturn \/ FlushReturn \/ ComputeReturn \/ UntrackedReturn
             \/ FirstReturn \/ BodyReturn
    BY <1>3, <1>6 DEF NotifyReturn, FlushReturn, ComputeReturn, UntrackedReturn, FirstReturn,
                 BodyReturn, Running
  <1>7. ASSUME NEW s \in Signals, Set(s)  PROVE Born(stack', subscriber', status')
    <2>1. KnownIn(s, status') /\ s \in Sources
      BY Apart DEF KnownIn, Sources
    <2> QED BY <1>0, <1>4, <1>7, <2>1, NotifyCallIs DEF Set
  <1>8. ASSUME NEW m \in Memos, GetDirty(m)  PROVE Born(stack', subscriber', status')
    <2>1. KnownIn(m, status') /\ m \in Sources
      BY Apart DEF KnownIn, Sources
    <2> QED BY <1>0, <1>4, <1>8, <2>1, CallIs DEF GetDirty, FrameKinds
  <1>9. ASSUME NEW e \in Effects, RenderEffect(e)  PROVE Born(stack', subscriber', status')
    <2>1. KnownIn(e, status')
      BY <1>0, <1>9 DEF KnownIn, RenderEffect
    <2>2. /\ Call("first", e) \in Frame /\ Call("first", e).of = e
          /\ Call("first", e).prev = subscriber
      BY <1>0, CallIs DEF FrameKinds
    <2>3. stack' = Append(stack, Call("first", e)) /\ subscriber' = e
      BY <1>9 DEF RenderEffect
    <2> QED BY <1>4, <2>1, <2>2, <2>3
  <1>10. CASE BatchStart \/ Untracked
    <2>1. KnownIn(None, status')
      BY ReactiveAssumption DEF KnownIn
    <2>2. ASSUME NEW k \in FrameKinds
          PROVE  /\ Call(k, None) \in Frame /\ Call(k, None).of = None
                 /\ Call(k, None).prev = subscriber
      BY <1>0, CallIs
    <2> QED BY <1>4, <1>10, <2>1, <2>2 DEF BatchStart, Untracked, FrameKinds
  <1>11. CASE BatchEnd
    <2>1. /\ stack # <<>> /\ subscriber' = subscriber /\ status' = status
          /\ stack' = Popped \/ stack' = Append(Popped, FlushCall)
      BY <1>11 DEF BatchEnd, Running, FlushCall
    <2>2. Popped \in Seq(Frame) /\ Born(Popped, subscriber, status)
      BY <1>0, <1>1, <2>1, PoppedFrames, BornPop DEF Popped
    <2> QED BY <1>0, <2>1, <2>2, FlushCallIs, BornPush
  <1>12. CASE NotifyNext
    <2>1. /\ NotifySubscriber \in Computations /\ stack # <<>> /\ status' = status
          /\ \/ stack' = Advanced(stack) /\ subscriber' = subscriber
             \/ Run(NotifySubscriber, Advanced(stack))
      BY <1>12, NotifyFacts
    <2>2. Advanced(stack) \in Seq(Frame) /\ Born(Advanced(stack), subscriber, status)
      BY <1>0, <1>1, <2>1, AdvancedFrames, BornAdvance
    <2> QED BY <1>0, <2>1, <2>2, RunBorn
  <1>13. CASE FlushNext
    BY <1>0, <1>13, FlushFacts, RunBorn
  <1>14. CASE Microtask
    BY <1>0, <1>14, MicrotaskFacts, RunBorn
  <1> QED BY <1>5, <1>6, <1>7, <1>8, <1>9, <1>10, <1>11, <1>12, <1>13, <1>14
          DEF Next, UserStep, EngineStep

\* Subscribing adds the subscriber, if any, and nobody else.
LEMMA TrackAdds ==
  ASSUME IInv, NEW y \in Sources, Track(y)
  PROVE  /\ \A x, z : z \in Sources /\ Subscribed(x, z) => Subscribed(x, z)'
         /\ \A x, z : z \in Sources /\ Subscribed(x, z)' =>
              Subscribed(x, z) \/ (z = y /\ x = subscriber /\ subscriber # None)
         /\ \A x : x = subscriber /\ x # None => Subscribed(x, y)'
         /\ \A z \in Sources : /\ Len(subs[z]) \in Nat /\ Len(subs[z]) <= Len(subs'[z])
                              /\ \A i \in 1..Len(subs[z]) : subs'[z][i] = subs[z][i]
  <1>0. /\ subs \in [Sources -> Seq(Computations)]
        /\ \A z \in Sources : Len(subs[z]) \in Nat /\ DOMAIN subs[z] = 1..Len(subs[z])
    BY LenProperties DEF IInv, TypeOK
  <1>1. CASE subs' = subs /\ (subscriber = None \/ Subscribed(subscriber, y))
    <2>1. \A x, z : Subscribed(x, z)' <=> Subscribed(x, z)
      BY <1>1 DEF Subscribed
    <2>2. \A x : x = subscriber /\ x # None => Subscribed(x, y)'
      BY <1>1, <2>1
    <2> QED BY <1>0, <1>1, <2>1, <2>2
  <1>2. CASE subs' = [subs EXCEPT ![y] = Append(@, subscriber)] /\ subscriber # None
    <2>1. subscriber \in Computations
      BY <1>2 DEF IInv, TypeOK
    <2>2. /\ subs'[y] = Append(subs[y], subscriber)
          /\ \A z \in Sources : z # y => subs'[z] = subs[z]
      BY <1>0, <1>2
    <2>3. /\ DOMAIN subs'[y] = 1..Len(subs'[y]) /\ Len(subs'[y]) = Len(subs[y]) + 1
          /\ \A i \in 1..Len(subs[y]) : subs'[y][i] = subs[y][i]
          /\ subs'[y][Len(subs[y]) + 1] = subscriber
      BY <1>0, <2>1, <2>2, AppendProperties, LenProperties
    <2>4. \A i \in DOMAIN subs'[y] : i \in DOMAIN subs[y] \/ i = Len(subs[y]) + 1
      BY <1>0, <2>3
    <2>5. \A i \in DOMAIN subs[y] : i \in DOMAIN subs'[y]
      BY <1>0, <2>3
    <2>6. Len(subs[y]) + 1 \in DOMAIN subs'[y]
      BY <1>0, <2>3
    <2>7. \A x : Subscribed(x, y) => Subscribed(x, y)'
      BY <1>0, <2>3, <2>5 DEF Subscribed
    <2>8. \A x : Subscribed(x, y)' => Subscribed(x, y) \/ x = subscriber
      BY <1>0, <2>3, <2>4 DEF Subscribed
    <2>9. \A x : x = subscriber => Subscribed(x, y)'
      BY <2>3, <2>6 DEF Subscribed
    <2>10. \A x, z : z \in Sources /\ z # y => (Subscribed(x, z)' <=> Subscribed(x, z))
      BY <2>2 DEF Subscribed
    <2>11. \A z \in Sources : /\ Len(subs[z]) \in Nat /\ Len(subs[z]) <= Len(subs'[z])
                              /\ \A i \in 1..Len(subs[z]) : subs'[z][i] = subs[z][i]
      BY <1>0, <2>2, <2>3
    <2> QED BY <1>2, <2>7, <2>8, <2>9, <2>10, <2>11
  <1> QED BY <1>1, <1>2 DEF Track

\* The queue before and after one more entry.
LEMMA QueueAdds ==
  ASSUME TypeOK, NEW x \in Computations,
         pending' = IF Queued(x) THEN pending ELSE Append(pending, x)
  PROVE  /\ \A z : Queued(z) => Queued(z)'
         /\ \A z : Queued(z)' => Queued(z) \/ z = x
         /\ Queued(x)'
         /\ (\A i, j \in 1..Len(pending) : pending[i] = pending[j] => i = j)
              => \A i, j \in 1..Len(pending') : pending'[i] = pending'[j] => i = j
  <1>0. pending \in Seq(Computations) /\ Len(pending) \in Nat /\ DOMAIN pending = 1..Len(pending)
    BY LenProperties DEF TypeOK
  <1>1. CASE Queued(x)
    <2>1. pending' = pending
      BY <1>1
    <2> QED BY <1>1, <2>1 DEF Queued
  <1>2. CASE ~Queued(x)
    <2>1. /\ DOMAIN pending' = 1..Len(pending') /\ Len(pending') = Len(pending) + 1
          /\ \A i \in 1..Len(pending) : pending'[i] = pending[i]
          /\ pending'[Len(pending) + 1] = x
      BY <1>0, <1>2, AppendProperties, LenProperties
    <2>2. /\ \A i \in DOMAIN pending' : i \in DOMAIN pending \/ i = Len(pending) + 1
          /\ \A i \in DOMAIN pending : i \in DOMAIN pending'
          /\ Len(pending) + 1 \in DOMAIN pending'
      BY <1>0, <2>1
    <2>3. \A i \in DOMAIN pending : pending[i] # x
      BY <1>2 DEF Queued
    <2>4. ASSUME \A i, j \in 1..Len(pending) : pending[i] = pending[j] => i = j
          PROVE  \A i, j \in 1..Len(pending') : pending'[i] = pending'[j] => i = j
      BY <1>0, <2>1, <2>2, <2>3, <2>4
    <2>5. (\A z : Queued(z) => Queued(z)') /\ (\A z : Queued(z)' => Queued(z) \/ z = x) /\ Queued(x)'
      BY <1>0, <2>1, <2>2 DEF Queued
    <2> QED BY <2>4, <2>5
  <1> QED BY <1>1, <1>2

\* The queue after its oldest entry is taken.
LEMMA QueueTakes ==
  ASSUME IInv, FlushNext
  PROVE  /\ \A z : Queued(z)' => Queued(z)
         /\ \A z : Queued(z) => Queued(z)' \/ z = Head(pending)
         /\ Queued(Head(pending))
         /\ (\A i, j \in 1..Len(pending) : pending[i] = pending[j] => i = j)
              => /\ \A i, j \in 1..Len(pending') : pending'[i] = pending'[j] => i = j
                 /\ \A z : z = Head(pending) => ~Queued(z)'
  <1>0. /\ DOMAIN pending = 1..Len(pending) /\ DOMAIN pending' = 1..Len(pending')
        /\ Len(pending) \in Nat /\ Len(pending') = Len(pending) - 1
        /\ Len(pending) >= 1 /\ pending[1] = Head(pending)
        /\ \A i \in 1..Len(pending') : pending'[i] = pending[i+1]
    <2>1. pending \in Seq(Computations) /\ pending' \in Seq(Computations)
      BY FlushFacts DEF IInv, TypeOK
    <2> QED BY <2>1, FlushFacts, LenProperties
  <1>1. /\ \A i \in 1..Len(pending') : i+1 \in 1..Len(pending) /\ i+1 # 1
        /\ \A i \in 1..Len(pending) : i = 1 \/ (i-1 \in 1..Len(pending') /\ i-1+1 = i)
        /\ 1 \in 1..Len(pending)
    BY <1>0
  <1>2. \A z : Queued(z)' => Queued(z)
    BY <1>0, <1>1 DEF Queued
  <1>3. \A z : Queued(z) => Queued(z)' \/ z = Head(pending)
    <2> SUFFICES ASSUME NEW z, NEW i \in 1..Len(pending), pending[i] = z,
                        z # Head(pending)
                 PROVE  Queued(z)'
      BY <1>0 DEF Queued
    <2>1. i - 1 \in 1..Len(pending') /\ i - 1 + 1 = i
      BY <1>0, <1>1
    <2>2. pending'[i-1] = pending[i]
      BY <1>0, <2>1
    <2> QED BY <1>0, <2>1, <2>2 DEF Queued
  <1>4. Queued(Head(pending))
    BY <1>0, <1>1 DEF Queued
  <1>5. ASSUME \A i, j \in 1..Len(pending) : pending[i] = pending[j] => i = j
        PROVE  \A i, j \in 1..Len(pending') : pending'[i] = pending'[j] => i = j
    BY <1>0, <1>1, <1>5
  <1>6. ASSUME \A i, j \in 1..Len(pending) : pending[i] = pending[j] => i = j
        PROVE  \A z : z = Head(pending) => ~Queued(z)'
    BY <1>0, <1>1, <1>6 DEF Queued
  <1> QED BY <1>2, <1>3, <1>4, <1>5, <1>6

\* What a run of x does to the record of another effect.
LEMMA RunSpares ==
  ASSUME TypeOK, NEW x \in Computations, NEW calls, Run(x, calls), NEW e \in Effects, e # x
  PROVE  /\ sources'[e] = sources[e] /\ (e \in outdated' <=> e \in outdated)
         /\ ran'[e] = ran[e]
  <1>0. /\ e \in Computations /\ sources \in [Computations -> SUBSET Signals]
        /\ ran \in [Effects -> 0..2]
    BY DEF TypeOK, Computations
  <1>1. CASE Called(x, calls)
    BY <1>0, <1>1 DEF Called, Restart, CountRun
  <1>2. CASE Passed(x, calls) \/ Ignored(x, calls)
    BY <1>2 DEF Passed, Ignored
  <1> QED BY <1>1, <1>2, RunCases

\* An effect that is not created stays untouched.
LEMMA UntouchedStep ==
  ASSUME IInv, BornOK, [Next]_vars, NEW e \in Effects, status'[e] = "absent"
  PROVE  Untouched(e)'
  <1>0. /\ TypeOK /\ stack \in Seq(Frame) /\ e \in Computations /\ e # None
        /\ sources \in [Computations -> SUBSET Signals] /\ ran \in [Effects -> 0..2]
        /\ status \in [Effects -> {"absent", "creating", "live", "disposed"}]
    BY Apart DEF IInv, TypeOK, Computations
  <1>1. status[e] = "absent" /\ Untouched(e) /\ subscriber # e
    <2>1. status[e] = "absent"
      BY CreatedStays
    <2> QED BY <2>1 DEF BornOK, Born, KnownIn
  <1>2. stack # <<>> => Top.prev # e /\ Top.of # e
    <2>1. stack # <<>> => Len(stack) \in 1..Len(stack)
      BY <1>0, PoppedFrames
    <2> QED BY <1>1, <2>1 DEF BornOK, Born, KnownIn, Top
  <1>3. ASSUME UNCHANGED <<subs, pending>>, sources'[e] = sources[e],
               e \in outdated' => e \in outdated, ran'[e] = ran[e]
        PROVE  Untouched(e)'
    BY <1>1, <1>3 DEF Untouched, Subscribed, Queued
  <1>4. ASSUME NEW y \in Sources, Track(y), pending' = pending, sources'[e] = sources[e],
               e \in outdated' => e \in outdated, ran'[e] = ran[e]
        PROVE  Untouched(e)'
    <2>1. \A z \in Sources : ~Subscribed(e, z)'
      BY <1>1, <1>4, TrackAdds DEF Untouched
    <2>2. ~Queued(e)'
      BY <1>1, <1>4 DEF Untouched, Queued
    <2> QED BY <1>1, <1>4, <2>1, <2>2 DEF Untouched
  <1>5. ASSUME NEW s \in Signals, Get(s)  PROVE Untouched(e)'
    <2>1. s \in Sources /\ sources'[e] = sources[e]
      BY <1>0, <1>1, <1>5 DEF Get, Sources
    <2> QED BY <1>4, <1>5, <2>1 DEF Get
  <1>6. ASSUME NEW m \in Memos, GetCached(m) \/ GetDirty(m)  PROVE Untouched(e)'
    <2>1. m \in Sources /\ m # e
      BY Apart DEF Sources
    <2>2. sources'[e] = sources[e] /\ (e \in outdated' => e \in outdated)
      BY <1>0, <1>1, <1>6, <2>1 DEF GetCached, GetDirty, Absorb, Restart
    <2> QED BY <1>4, <1>6, <2>1, <2>2 DEF GetCached, GetDirty
  <1>7. CASE ComputeReturn
    <2>1. stack # <<>> /\ Absorb(Top.prev, Top.of) /\ UNCHANGED <<subs, pending, ran>>
      BY <1>7 DEF ComputeReturn, Running
    <2>2. sources'[e] = sources[e] /\ (e \in outdated' => e \in outdated)
      BY <1>0, <1>1, <1>2, <2>1 DEF Absorb
    <2> QED BY <1>3, <2>1, <2>2
  <1>8. ASSUME NEW s \in Signals, Set(s)  PROVE Untouched(e)'
    <2>1. e \in outdated' => e \in outdated
      BY <1>1, <1>8 DEF Set, Untouched
    <2> QED BY <1>3, <1>8, <2>1 DEF Set
  <1>9. CASE NotifyNext
    <2>1. /\ NotifySubscriber \in Computations /\ NotifySubscriber # e /\ subs' = subs
      <3>1. /\ Top.of \in Sources /\ Top.at \in 1..Len(subs[Top.of])
            /\ NotifySubscriber \in Computations /\ subs' = subs
        BY <1>9, NotifyFacts
      <3>2. Top.at \in DOMAIN subs[Top.of]
        BY <1>0, <3>1, LenProperties DEF TypeOK
      <3>3. Subscribed(NotifySubscriber, Top.of)
        BY <3>2 DEF Subscribed, NotifySubscriber
      <3> QED BY <1>1, <3>1, <3>3 DEF Untouched
    <2>2. \A z \in Sources : ~Subscribed(e, z)'
      BY <1>1, <2>1 DEF Untouched, Subscribed
    <2>3. CASE /\ pending' = IF Queued(NotifySubscriber) THEN pending
                             ELSE Append(pending, NotifySubscriber)
               /\ UNCHANGED <<dirty, subscriber, sources, outdated, ran>>
      <3>1. ~Queued(e)'
        BY <1>0, <1>1, <2>1, <2>3, QueueAdds DEF Untouched
      <3> QED BY <1>1, <2>2, <2>3, <3>1 DEF Untouched
    <2>4. CASE Run(NotifySubscriber, Advanced(stack)) /\ pending' = pending
      BY <1>0, <1>3, <2>1, <2>4, RunSpares
    <2> QED BY <1>9, <2>3, <2>4, NotifyFacts
  <1>10. CASE FlushNext
    <2>1. /\ Head(pending) \in Computations /\ Head(pending) # e /\ Run(Head(pending), stack)
          /\ subs' = subs
      BY <1>1, <1>10, FlushFacts, QueueTakes DEF Untouched
    <2>2. sources'[e] = sources[e] /\ (e \in outdated' => e \in outdated) /\ ran'[e] = ran[e]
      BY <1>0, <2>1, RunSpares
    <2>3. ~Queued(e)'
      BY <1>1, <1>10, QueueTakes DEF Untouched
    <2>4. \A z \in Sources : ~Subscribed(e, z)'
      BY <1>1, <2>1 DEF Untouched, Subscribed
    <2> QED BY <1>1, <2>2, <2>3, <2>4 DEF Untouched
  <1>11. CASE Microtask
    <2>1. CASE Head(microtasks) = e
      <3>1. /\ UNCHANGED <<subs, pending>> /\ UNCHANGED <<subscriber, sources, outdated, ran>>
        BY <1>1, <1>11, <2>1 DEF Microtask, RunEffect, Active
      <3> QED BY <1>3, <3>1
    <2>2. CASE Head(microtasks) # e
      BY <1>0, <1>3, <1>11, <2>2, MicrotaskFacts, RunSpares
    <2> QED BY <2>1, <2>2
  <1>12. CASE FlushReturn
    <2>1. ran'[e] = ran[e]
      BY <1>1, <1>12 DEF FlushReturn, Untouched
    <2> QED BY <1>3, <1>12, <2>1 DEF FlushReturn
  <1>13. ASSUME NEW x \in Effects, RenderEffect(x) \/ DeferEffect(x) \/ Dispose(x)
         PROVE  Untouched(e)'
    <2>1. CASE RenderEffect(x)
      <3>1. x # e
        BY <1>0, <2>1 DEF RenderEffect
      <3>2. ran'[e] = ran[e]
        BY <1>0, <2>1, <3>1 DEF RenderEffect, CountRun
      <3> QED BY <1>3, <2>1, <3>2 DEF RenderEffect
    <2>2. CASE DeferEffect(x) \/ Dispose(x)
      BY <1>3, <2>2 DEF DeferEffect, Dispose, history
    <2> QED BY <1>13, <2>1, <2>2
  <1>14. CASE \/ Untracked \/ UntrackedReturn \/ NotifyReturn \/ BatchStart \/ BatchEnd
              \/ FirstReturn \/ BodyReturn \/ UNCHANGED vars
    BY <1>3, <1>14 DEF Untracked, UntrackedReturn, NotifyReturn, BatchStart, BatchEnd,
                       FirstReturn, BodyReturn, history, vars
  <1> QED BY <1>5, <1>6, <1>7, <1>8, <1>9, <1>10, <1>11, <1>12, <1>13, <1>14
          DEF Next, UserStep, EngineStep

\* The invariant holds at first and is kept.
LEMMA BornOKInit == Init => BornOK
  BY EmptySeq, ReactiveAssumption
  DEF Init, BornOK, Born, KnownIn, Untouched, Subscribed, Queued, Computations, Sources

LEMMA BornOKStep == IInv /\ BornOK /\ [Next]_vars => BornOK'
  BY BornStep, UntouchedStep DEF BornOK

-----------------------------------------------------------------------------
(* Runs in a flush                                                         *)

\* The loops that run above a flush are those of memos: an effect such a loop
\* reaches reads a memo.
Loops(st) ==
  \A i \in 1..Len(st) :
    st[i].kind = "notify" /\ (\E j \in 1..i : st[j].kind = "flush") => st[i].of \in Memos

\* An effect that a memo, not only the flush, may run.
MayRepeat(e) == \E m \in Memos : Subscribed(e, m)

\* The history is reset between flushes, the queue holds nothing twice, and, as long as no
\* effect of the flush has written a signal, whatever has run and reads no memo has run
\* once and is not in the queue again.
OnceOK ==
  /\ ~HasFlush(stack) => ~rewrote /\ \A e \in Effects : ran[e] = 0
  /\ \A i, j \in 1..Len(pending) : pending[i] = pending[j] => i = j
  /\ ~rewrote =>
       /\ Loops(stack)
       /\ \A e \in Effects : MayRepeat(e) \/ ran[e] = 0 \/ (ran[e] = 1 /\ ~Queued(e))

\* Calls, returns and steps of a loop, and what they do to the flushes in progress.
LEMMA LoopsPush ==
  ASSUME NEW st \in Seq(Frame), NEW f \in Frame,
         f.kind = "notify" /\ HasFlush(st) => f.of \in Memos
  PROVE  /\ Loops(st) => Loops(Append(st, f))
         /\ HasFlush(Append(st, f)) <=> HasFlush(st) \/ f.kind = "flush"
  <1>1. HasFlush(Append(st, f)) <=> HasFlush(st) \/ f.kind = "flush"
    BY PushedFrames DEF HasFlush
  <1>2. ASSUME Loops(st), NEW i \in 1..Len(Append(st, f)), Append(st, f)[i].kind = "notify",
               NEW j \in 1..i, Append(st, f)[j].kind = "flush"
        PROVE  Append(st, f)[i].of \in Memos
    <2>1. CASE i \in 1..Len(st)
      <3>1. j \in 1..Len(st)
        BY <2>1, PushedFrames
      <3> QED BY <1>2, <2>1, <3>1, PushedFrames DEF Loops
    <2>2. CASE i = Len(st) + 1
      <3>1. j # i
        BY <1>2
      <3>2. j \in 1..Len(st)
        BY <2>2, <3>1, PushedFrames
      <3> QED BY <1>2, <2>2, <3>2, PushedFrames DEF HasFlush
    <2> QED BY <2>1, <2>2, PushedFrames
  <1> QED BY <1>1, <1>2 DEF Loops

LEMMA LoopsPop ==
  ASSUME NEW st \in Seq(Frame), st # <<>>
  PROVE  /\ Loops(st) => Loops(SubSeq(st, 1, Len(st) - 1))
         /\ st[Len(st)].kind # "flush"
              => (HasFlush(SubSeq(st, 1, Len(st) - 1)) <=> HasFlush(st))
  <1> DEFINE new == SubSeq(st, 1, Len(st) - 1)
  <1>1. /\ Len(st) \in Nat /\ Len(new) = Len(st) - 1
        /\ \A i \in 1..Len(new) : i \in 1..Len(st) /\ new[i] = st[i]
        /\ \A i \in 1..Len(st) : i \in 1..Len(new) \/ i = Len(st)
    BY PoppedFrames
  <1> HIDE DEF new
  <1>2. \A i \in 1..Len(new) : \A j \in 1..i : j \in 1..Len(new)
    BY <1>1
  <1>3. Loops(st) => Loops(new)
    BY <1>1, <1>2 DEF Loops
  <1>4. st[Len(st)].kind # "flush" => (HasFlush(new) <=> HasFlush(st))
    BY <1>1 DEF HasFlush
  <1> QED BY <1>3, <1>4 DEF new

LEMMA LoopsAdvance ==
  ASSUME NEW st \in Seq(Frame), st # <<>>
  PROVE  /\ Loops(st) => Loops(Advanced(st))
         /\ HasFlush(Advanced(st)) <=> HasFlush(st)
  <1>1. /\ Len(st) \in Nat /\ Len(Advanced(st)) = Len(st)
        /\ \A i \in 1..Len(st) : /\ Advanced(st)[i].kind = st[i].kind
                                 /\ Advanced(st)[i].of = st[i].of
    BY AdvancedFrames
  <1>2. \A i \in 1..Len(st) : \A j \in 1..i : j \in 1..Len(st)
    BY <1>1
  <1> QED BY <1>1, <1>2 DEF Loops, HasFlush

\* The model's own word for it.
LEMMA FlushingIs == TypeOK => (Flushing <=> HasFlush(stack))
  BY LenProperties DEF TypeOK, Flushing, HasFlush

\* Running subscriber x keeps the count, if x was not counted and is not queued, or a
\* memo may run it again.
LEMMA OnceRun ==
  ASSUME IInv, OnceOK, NEW x \in Computations, NEW calls \in Seq(Frame), Run(x, calls),
         Loops(stack) => Loops(calls), HasFlush(calls) <=> HasFlush(stack),
         subs' = subs, rewrote' = rewrote,
         \A i, j \in 1..Len(pending') : pending'[i] = pending'[j] => i = j,
         \A z : Queued(z)' => Queued(z),
         ~rewrote /\ HasFlush(stack) /\ x \in Effects =>
           MayRepeat(x) \/ (ran[x] = 0 /\ \A z : z = x => ~Queued(z)')
  PROVE  OnceOK'
  <1>0. TypeOK /\ ran \in [Effects -> 0..2]
    BY DEF IInv, TypeOK
  <1>1. \A e \in Effects : MayRepeat(e) => MayRepeat(e)'
    BY DEF MayRepeat, Subscribed
  <1>2. CASE Called(x, calls)
    <2>1. /\ x \in Effects /\ stack' = Append(calls, Call("body", x))
          /\ Call("body", x) \in Frame /\ Call("body", x).kind = "body"
      BY <1>0, <1>2, CallIs DEF Called, FrameKinds
    <2>2. /\ Loops(stack) => Loops(stack')
          /\ HasFlush(stack') <=> HasFlush(stack)
      BY <2>1, LoopsPush
    <2>3. CASE ~HasFlush(stack)
      <3>1. ran' = ran
        BY <1>0, <1>2, <2>3, FlushingIs DEF Called, CountRun
      <3>2. ~rewrote /\ \A e \in Effects : ran'[e] = 0
        BY <2>3, <3>1 DEF OnceOK
      <3> QED BY <2>2, <2>3, <3>2 DEF OnceOK
    <2>4. CASE HasFlush(stack)
      <3>1. \A e \in Effects : ran'[e] = ran[e] \/ (e = x /\ ran[x] < 2 /\ ran'[x] = ran[x] + 1)
        BY <1>0, <1>2 DEF Called, CountRun
      <3>2. ASSUME ~rewrote, NEW e \in Effects
            PROVE  MayRepeat(e)' \/ ran'[e] = 0 \/ (ran'[e] = 1 /\ ~Queued(e)')
        <4>1. CASE e = x
          BY <1>1, <2>1, <2>4, <3>1, <3>2, <4>1
        <4>2. CASE e # x
          BY <1>1, <3>1, <3>2, <4>2 DEF OnceOK
        <4> QED BY <4>1, <4>2
      <3> QED BY <2>2, <2>4, <3>2 DEF OnceOK
    <2> QED BY <2>3, <2>4
  <1>3. ASSUME ran' = ran, Loops(stack) => Loops(stack'), HasFlush(stack') <=> HasFlush(stack)
        PROVE  OnceOK'
    BY <1>1, <1>3 DEF OnceOK
  <1>4. CASE Passed(x, calls)
    <2>1. /\ x \in Memos /\ stack' = Append(calls, NotifyCall(x)) /\ ran' = ran
          /\ NotifyCall(x) \in Frame /\ NotifyCall(x).kind = "notify"
          /\ NotifyCall(x).of = x
      BY <1>0, <1>4, NotifyCallIs DEF Passed, Sources
    <2> QED BY <1>3, <2>1, LoopsPush
  <1>5. CASE Ignored(x, calls)
    BY <1>3, <1>5 DEF Ignored
  <1> QED BY <1>2, <1>4, <1>5, RunCases

\* A loop above a flush is at a subscriber of a memo.
LEMMA OnceNotify == ASSUME IInv, OnceOK, NotifyNext PROVE OnceOK'
  <1>0. TypeOK /\ stack \in Seq(Frame)
    BY DEF IInv, TypeOK
  <1>1. /\ stack # <<>> /\ Top.kind = "notify" /\ Top.of \in Sources
        /\ Top.at \in 1..Len(subs[Top.of]) /\ NotifySubscriber \in Computations
        /\ subs' = subs /\ rewrote' = rewrote
    BY NotifyFacts
  <1>2. /\ Advanced(stack) \in Seq(Frame)
        /\ Loops(stack) => Loops(Advanced(stack))
        /\ HasFlush(Advanced(stack)) <=> HasFlush(stack)
    BY <1>0, <1>1, LoopsAdvance, AdvancedFrames
  <1>3. ASSUME ~rewrote, HasFlush(stack), NotifySubscriber \in Effects
        PROVE  MayRepeat(NotifySubscriber)
    <2>1. Len(stack) \in Nat /\ Len(stack) \in 1..Len(stack)
      BY <1>0, <1>1, AdvancedFrames
    <2>2. Top.of \in Memos
      BY <1>1, <1>3, <2>1 DEF OnceOK, Loops, HasFlush, Top
    <2>3. Top.at \in DOMAIN subs[Top.of]
      BY <1>0, <1>1, LenProperties DEF TypeOK
    <2> QED BY <2>2, <2>3 DEF MayRepeat, Subscribed, NotifySubscriber
  <1>4. CASE /\ pending' = IF Queued(NotifySubscriber) THEN pending
                           ELSE Append(pending, NotifySubscriber)
             /\ stack' = Advanced(stack)
             /\ UNCHANGED <<dirty, subscriber, sources, outdated, ran>>
    <2>1. /\ \A z : Queued(z)' => Queued(z) \/ z = NotifySubscriber
          /\ \A i, j \in 1..Len(pending') : pending'[i] = pending'[j] => i = j
      BY <1>0, <1>1, <1>4, QueueAdds DEF OnceOK
    <2>2. \A e \in Effects : MayRepeat(e) => MayRepeat(e)'
      BY <1>1 DEF MayRepeat, Subscribed
    <2>3. ASSUME ~rewrote, NEW e \in Effects
          PROVE  MayRepeat(e)' \/ ran'[e] = 0 \/ (ran'[e] = 1 /\ ~Queued(e)')
      <3>1. CASE HasFlush(stack)
        BY <1>3, <1>4, <2>1, <2>2, <2>3, <3>1 DEF OnceOK
      <3>2. CASE ~HasFlush(stack)
        BY <1>4, <3>2 DEF OnceOK
      <3> QED BY <3>1, <3>2
    <2> QED BY <1>1, <1>2, <1>4, <2>1, <2>3 DEF OnceOK
  <1>5. CASE Run(NotifySubscriber, Advanced(stack)) /\ pending' = pending
    <2>1. \A z : Queued(z)' => Queued(z)
      BY <1>5 DEF Queued
    <2>2. \A i, j \in 1..Len(pending') : pending'[i] = pending'[j] => i = j
      BY <1>5 DEF OnceOK
    <2> QED BY <1>1, <1>2, <1>3, <1>5, <2>1, <2>2, OnceRun
  <1> QED BY <1>4, <1>5, NotifyFacts

\* A flush runs what it takes from the queue, where it is no more.
LEMMA OnceFlush == ASSUME IInv, OnceOK, FlushNext PROVE OnceOK'
  <1>1. /\ Head(pending) \in Computations /\ Run(Head(pending), stack)
        /\ subs' = subs /\ rewrote' = rewrote
    BY FlushFacts
  <1>2. /\ \A z : Queued(z)' => Queued(z)
        /\ Queued(Head(pending))
        /\ \A i, j \in 1..Len(pending') : pending'[i] = pending'[j] => i = j
        /\ \A z : z = Head(pending) => ~Queued(z)'
    BY QueueTakes DEF OnceOK
  <1>3. ~rewrote /\ Head(pending) \in Effects =>
          MayRepeat(Head(pending)) \/ ran[Head(pending)] = 0
    BY <1>2 DEF OnceOK
  <1>4. stack \in Seq(Frame)
    BY DEF IInv, TypeOK
  <1> QED BY <1>1, <1>2, <1>3, <1>4, OnceRun

\* The invariant holds at first and is kept.
LEMMA OnceOKInit == Init => OnceOK
  BY EmptySeq DEF Init, OnceOK, Loops, HasFlush

LEMMA OnceOKStep == IInv /\ BornOK /\ OnceOK /\ [Next]_vars => OnceOK'
  <1> SUFFICES ASSUME IInv, BornOK, OnceOK, [Next]_vars PROVE OnceOK'
    OBVIOUS
  <1>0. /\ TypeOK /\ stack \in Seq(Frame) /\ Memos \subseteq Sources /\ Signals \subseteq Sources
        /\ ran \in [Effects -> 0..2]
    BY DEF IInv, TypeOK, Sources
  <1>1. ASSUME Loops(stack) => Loops(stack'), HasFlush(stack') <=> HasFlush(stack),
               UNCHANGED <<pending, ran, rewrote>>,
               \A x, z : z \in Sources /\ Subscribed(x, z) => Subscribed(x, z)'
        PROVE  OnceOK'
    <2>1. \A e \in Effects : MayRepeat(e) => MayRepeat(e)'
      BY <1>0, <1>1 DEF MayRepeat
    <2>2. \A z : Queued(z)' <=> Queued(z)
      BY <1>1 DEF Queued
    <2> QED BY <1>1, <2>1, <2>2 DEF OnceOK
  <1>2. subs' = subs => \A x, z : z \in Sources /\ Subscribed(x, z) => Subscribed(x, z)'
    BY DEF Subscribed
  <1>3. ASSUME UNCHANGED <<subs, pending, ran, rewrote, stack>>  PROVE OnceOK'
    BY <1>1, <1>2, <1>3
  <1>4. ASSUME stack # <<>>, Top.kind # "flush", stack' = Popped,
               UNCHANGED <<subs, pending, ran, rewrote>>
        PROVE  OnceOK'
    BY <1>0, <1>1, <1>2, <1>4, LoopsPop DEF Popped, Top
  <1>5. ASSUME NEW f \in Frame, stack' = Append(stack, f), f.kind \in {"batch", "untrack"},
               UNCHANGED <<subs, pending, ran, rewrote>>
        PROVE  OnceOK'
    BY <1>0, <1>1, <1>2, <1>5, LoopsPush
  <1>6. ASSUME NEW s \in Signals, Get(s)  PROVE OnceOK'
    BY <1>0, <1>1, <1>6, TrackAdds DEF Get
  <1>7. ASSUME NEW m \in Memos, GetCached(m)  PROVE OnceOK'
    BY <1>0, <1>1, <1>7, TrackAdds DEF GetCached
  <1>8. ASSUME NEW m \in Memos, GetDirty(m)  PROVE OnceOK'
    <2>1. Call("compute", m) \in Frame /\ Call("compute", m).kind = "compute"
      BY <1>0, CallIs DEF FrameKinds
    <2>2. stack' = Append(stack, Call("compute", m)) /\ UNCHANGED <<pending, ran, rewrote>>
          /\ Track(m)
      BY <1>8 DEF GetDirty
    <2> QED BY <1>0, <1>1, <2>1, <2>2, TrackAdds, LoopsPush
  <1>9. ASSUME NEW s \in Signals, Set(s)  PROVE OnceOK'
    <2>1. /\ NotifyCall(s) \in Frame /\ NotifyCall(s).kind = "notify"
      BY <1>0, NotifyCallIs
    <2>2. /\ stack' = Append(stack, NotifyCall(s)) /\ UNCHANGED <<subs, pending, ran>>
          /\ rewrote' = (rewrote \/ Flushing)
      BY <1>9 DEF Set
    <2>3. CASE HasFlush(stack)
      <3>1. rewrote'
        BY <1>0, <2>2, <2>3, FlushingIs
      <3>2. HasFlush(stack')
        BY <1>0, <2>1, <2>2, <2>3, PushedFrames DEF HasFlush
      <3> QED BY <2>2, <3>1, <3>2 DEF OnceOK
    <2>4. CASE ~HasFlush(stack)
      <3>1. rewrote' = rewrote
        <4>1. ~Flushing
          BY <1>0, <2>4, FlushingIs
        <4>2. rewrote \in BOOLEAN
          BY <1>0 DEF TypeOK
        <4> QED BY <2>2, <4>1, <4>2, Zenon
      <3>2. (Loops(stack) => Loops(stack')) /\ (HasFlush(stack') <=> HasFlush(stack))
        BY <1>0, <2>1, <2>2, <2>4, LoopsPush
      <3> QED BY <1>1, <1>2, <2>2, <3>1, <3>2
    <2> QED BY <2>3, <2>4
  <1>10. CASE BatchStart \/ Untracked
    <2>1. \A k \in {"batch", "untrack"} : Call(k, None) \in Frame /\ Call(k, None).kind = k
      BY <1>0, CallIs DEF FrameKinds
    <2> QED BY <1>5, <1>10, <2>1 DEF BatchStart, Untracked, history
  <1>11. CASE BatchEnd
    <2>1. /\ stack # <<>> /\ Top.kind = "batch" /\ UNCHANGED <<subs, pending, ran, rewrote>>
          /\ stack' = Popped \/ stack' = Append(Popped, FlushCall)
      BY <1>11 DEF BatchEnd, Running, FlushCall, history
    <2>2. CASE stack' = Popped
      BY <1>4, <2>1, <2>2
    <2>3. CASE stack' = Append(Popped, FlushCall)
      <3>1. Popped \in Seq(Frame) /\ (Loops(stack) => Loops(Popped))
            /\ (HasFlush(Popped) <=> HasFlush(stack))
        BY <1>0, <2>1, LoopsPop, PoppedFrames DEF Popped, Top
      <3>2. HasFlush(stack') /\ (Loops(stack) => Loops(stack'))
        BY <1>0, <2>3, <3>1, FlushCallIs, LoopsPush
      <3>3. \A e \in Effects : MayRepeat(e) => MayRepeat(e)'
        BY <2>1 DEF MayRepeat, Subscribed
      <3>4. \A z : Queued(z)' <=> Queued(z)
        BY <2>1 DEF Queued
      <3> QED BY <2>1, <3>2, <3>3, <3>4 DEF OnceOK
    <2> QED BY <2>1, <2>2, <2>3
  <1>12. CASE NotifyReturn \/ ComputeReturn \/ UntrackedReturn \/ FirstReturn \/ BodyReturn
    BY <1>4, <1>12 DEF NotifyReturn, ComputeReturn, UntrackedReturn, FirstReturn, BodyReturn,
                       Running, history
  <1>13. CASE FlushReturn
    <2>1. /\ stack # <<>> /\ stack' = Popped /\ UNCHANGED <<subs, pending>> /\ pending = <<>>
          /\ \/ HasFlush(Popped) /\ UNCHANGED <<ran, rewrote>>
             \/ (\A e \in Effects : ran'[e] = 0) /\ rewrote' = FALSE /\ ~HasFlush(Popped)
      <3>1. Popped \in Seq(Frame) /\ \A i \in 1..Len(Popped) : Popped[i] = stack[i]
        BY <1>0, <1>13, PoppedFrames DEF FlushReturn, Running, Popped
      <3>2. HasFlush(Popped) <=> \E i \in DOMAIN Popped : stack[i].kind = "flush"
        BY <3>1, LenProperties DEF HasFlush
      <3> QED BY <1>13, <3>2 DEF FlushReturn, Running
    <2>2. Loops(stack) => Loops(stack')
      BY <1>0, <2>1, LoopsPop DEF Popped
    <2>3. \A e \in Effects : MayRepeat(e) => MayRepeat(e)'
      BY <2>1 DEF MayRepeat, Subscribed
    <2>4. \A z : Queued(z)' <=> Queued(z)
      BY <2>1 DEF Queued
    <2>5. CASE HasFlush(Popped) /\ UNCHANGED <<ran, rewrote>>
      BY <2>1, <2>2, <2>3, <2>4, <2>5 DEF OnceOK
    <2>6. CASE (\A e \in Effects : ran'[e] = 0) /\ rewrote' = FALSE /\ ~HasFlush(Popped)
      <3>1. Loops(stack')
        <4>1. Popped \in Seq(Frame) /\ Len(Popped) \in Nat
          BY <1>0, <2>1, PoppedFrames, LenProperties DEF Popped
        <4>2. \A i \in 1..Len(Popped) : \A j \in 1..i : j \in 1..Len(Popped)
          BY <4>1
        <4> QED BY <2>1, <2>6, <4>2 DEF Loops, HasFlush
      <3> QED BY <2>1, <2>6, <3>1 DEF OnceOK
    <2> QED BY <2>1, <2>5, <2>6
  <1>14. ASSUME NEW e \in Effects, RenderEffect(e)  PROVE OnceOK'
    <2>1. /\ Call("first", e) \in Frame /\ Call("first", e).kind = "first"
          /\ stack' = Append(stack, Call("first", e)) /\ CountRun(e)
          /\ UNCHANGED <<subs, pending, rewrote>>
      BY <1>0, <1>14, CallIs DEF FrameKinds, RenderEffect
    <2>2. (Loops(stack) => Loops(stack')) /\ (HasFlush(stack') <=> HasFlush(stack))
      BY <1>0, <2>1, LoopsPush
    <2>3. Untouched(e)
      BY <1>14 DEF BornOK, RenderEffect
    <2>4. CASE ~HasFlush(stack)
      <3>1. ran' = ran
        BY <1>0, <2>1, <2>4, FlushingIs DEF CountRun
      <3> QED BY <1>1, <1>2, <2>1, <2>2, <3>1
    <2>5. CASE HasFlush(stack)
      <3>1. \A x \in Effects : ran'[x] = ran[x] \/ (x = e /\ ran'[x] = ran[x] + 1)
        BY <1>0, <2>1 DEF CountRun
      <3>2. (\A z : Queued(z)' <=> Queued(z)) /\ \A x \in Effects : MayRepeat(x) => MayRepeat(x)'
        BY <2>1 DEF Queued, MayRepeat, Subscribed
      <3>3. ASSUME ~rewrote, NEW x \in Effects
            PROVE  MayRepeat(x)' \/ ran'[x] = 0 \/ (ran'[x] = 1 /\ ~Queued(x)')
        BY <2>3, <3>1, <3>2, <3>3 DEF OnceOK, Untouched
      <3> QED BY <2>1, <2>2, <2>5, <3>3 DEF OnceOK
    <2> QED BY <2>4, <2>5
  <1>15. CASE (\E e \in Effects : DeferEffect(e) \/ Dispose(e)) \/ UNCHANGED vars
    BY <1>3, <1>15 DEF DeferEffect, Dispose, history, vars
  <1>16. CASE Microtask
    <2>1. /\ stack = <<>> /\ Head(microtasks) \in Computations /\ Run(Head(microtasks), stack)
          /\ UNCHANGED <<subs, pending, rewrote>>
      BY <1>16, MicrotaskFacts
    <2>2. ~HasFlush(stack)
      BY <2>1, EmptySeq DEF HasFlush
    <2>3. /\ \A z : Queued(z)' => Queued(z)
          /\ \A i, j \in 1..Len(pending') : pending'[i] = pending'[j] => i = j
      BY <2>1 DEF Queued, OnceOK
    <2> QED BY <1>0, <2>1, <2>2, <2>3, OnceRun
  <1> QED BY <1>6, <1>7, <1>8, <1>9, <1>10, <1>11, <1>12, <1>13, <1>14, <1>15, <1>16,
             OnceNotify, OnceFlush
          DEF Next, UserStep, EngineStep

\* In the flush that ends a batch, an effect that reads no memo runs at most once, unless an
\* effect of that flush writes a signal, for every program and however batches, runs and
\* flushes nest.
THEOREM OncePerFlush == Spec => []RunOncePerFlush
  <1>1. IInv /\ OnceOK => RunOncePerFlush
    BY DEF IInv, TypeOK, OnceOK, RunOncePerFlush, MayRepeat
  <1> QED BY <1>1, Invariance, IInvInit, IInvStep, BornOKInit, BornOKStep, OnceOKInit, OnceOKStep,
             PTL DEF Spec

-----------------------------------------------------------------------------
(* The functions of memos                                                  *)

\* Frames of everything but memos: no memo is being computed, and none would be
\* subscribed to what is read.
Plain(st) == \A i \in 1..Len(st) : st[i].kind # "compute" /\ Under(st[i]) \notin Memos

\* The functions of memos call only one another.
Computes(st) ==
  \A i \in 1..Len(st) :
    /\ st[i].kind = "compute" => \A j \in i..Len(st) : st[j].kind = "compute"
    /\ Under(st[i]) \in Memos => st[i].kind = "compute"

\* What called the function of a memo is a subscriber of that memo already.
ComputeOK ==
  /\ Computes(stack)
  /\ \A i \in 1..Len(stack) :
       stack[i].kind = "compute" /\ stack[i].prev \in Computations
         => Subscribed(stack[i].prev, stack[i].of)

\* A memo is subscribed to what its function reads.
ReadsOK == \A x, m \in Memos : Subscribed(x, m) => m \in program.reads[x]

\* Calls, returns and steps of a loop outside the functions of memos.
LEMMA PlainComputes == ASSUME NEW st, Plain(st) PROVE Computes(st)
  BY DEF Plain, Computes

LEMMA PlainPush ==
  ASSUME NEW st \in Seq(Frame), Plain(st), NEW f \in Frame,
         f.kind # "compute", Under(f) \notin Memos
  PROVE  Plain(Append(st, f))
  BY PushedFrames DEF Plain

LEMMA PlainPop ==
  ASSUME NEW st \in Seq(Frame), st # <<>>, Plain(st)
  PROVE  Plain(SubSeq(st, 1, Len(st) - 1))
  BY PoppedFrames DEF Plain

LEMMA PlainAdvance ==
  ASSUME NEW st \in Seq(Frame), st # <<>>, Plain(st)
  PROVE  Plain(Advanced(st))
  <1>1. /\ Len(Advanced(st)) = Len(st)
        /\ \A i \in 1..Len(st) :
             Advanced(st)[i].kind = st[i].kind /\ Under(Advanced(st)[i]) = Under(st[i])
    <2>1. \A f, g : f.kind = g.kind /\ f.of = g.of /\ f.prev = g.prev => Under(f) = Under(g)
      BY DEF Under
    <2> QED BY <2>1, AdvancedFrames
  <1> QED BY <1>1 DEF Plain

\* While the innermost call is not the function of a memo, none is running.
LEMMA OutsideMemos ==
  ASSUME IInv, ComputeOK, stack = <<>> \/ Top.kind # "compute"
  PROVE  Plain(stack) /\ subscriber \notin Memos
  <1>0. stack \in Seq(Frame) /\ Len(stack) \in Nat /\ Chain(stack, subscriber, batchDepth)
    BY LenProperties DEF IInv, StackOK, Shape
  <1>1. CASE stack = <<>>
    BY <1>0, <1>1, EmptySeq, ReactiveAssumption DEF Plain, Chain
  <1>2. CASE stack # <<>>
    <2>1. Len(stack) \in 1..Len(stack) /\ subscriber = Under(Top) /\ Top.kind # "compute"
      BY <1>0, <1>2, PoppedFrames DEF Chain, Top
    <2>2. ASSUME NEW i \in 1..Len(stack)
          PROVE  stack[i].kind # "compute" /\ Under(stack[i]) \notin Memos
      <3>1. Len(stack) \in i..Len(stack)
        BY <1>0
      <3> QED BY <2>1, <3>1 DEF ComputeOK, Computes, Top
    <2> QED BY <2>1, <2>2 DEF Plain, Top
  <1> QED BY <1>1, <1>2

\* When the innermost call is the function of a memo, that function is in control.
LEMMA InsideMemos ==
  ASSUME IInv, stack # <<>>, Top.kind = "compute"
  PROVE  Author = Top.of /\ Top.of \in Memos /\ subscriber = Top.of
  <1>0. /\ stack \in Seq(Frame) /\ Len(stack) \in Nat /\ Len(stack) \in 1..Len(stack)
        /\ DOMAIN stack = 1..Len(stack)
    BY LenProperties, PoppedFrames DEF IInv, TypeOK
  <1>1. Top.of \in Memos /\ subscriber = Top.of
    BY <1>0 DEF IInv, StackOK, Shape, Sound, Chain, Under, Top
  <1>2. Len(stack) \in Authors /\ \A j \in Authors : j <= Len(stack)
    BY <1>0 DEF Authors, Top
  <1>3. \A i \in Authors : (\A j \in Authors : j <= i) => i = Len(stack)
    <2>1. \A i \in Authors : i \in 1..Len(stack)
      BY <1>0 DEF Authors
    <2> QED BY <1>0, <1>2, <2>1
  <1>4. (CHOOSE i \in Authors : \A j \in Authors : j <= i) = Len(stack)
    BY <1>2, <1>3
  <1> QED BY <1>1, <1>2, <1>4 DEF Author, Top

\* Running a subscriber outside the functions of memos.
LEMMA RunPlain ==
  ASSUME TypeOK, NEW x \in Computations, NEW calls \in Seq(Frame), Run(x, calls),
         Plain(calls), subscriber \notin Memos
  PROVE  Plain(stack')
  <1>1. CASE Called(x, calls)
    <2>1. /\ Call("body", x) \in Frame /\ Call("body", x).kind = "body"
          /\ Call("body", x).of = x /\ x \notin Memos
      BY <1>1, CallIs, Apart DEF Called, FrameKinds
    <2> QED BY <1>1, <2>1, PlainPush DEF Called, Under
  <1>2. CASE Passed(x, calls)
    <2>1. /\ NotifyCall(x) \in Frame /\ NotifyCall(x).kind = "notify"
          /\ NotifyCall(x).prev = subscriber
      BY <1>2, NotifyCallIs DEF Passed, Sources
    <2> QED BY <1>2, <2>1, PlainPush DEF Passed, Under
  <1>3. CASE Ignored(x, calls)
    BY <1>3 DEF Ignored
  <1> QED BY <1>1, <1>2, <1>3, RunCases

\* Every step but a read or a return of a memo is one outside the functions of memos.
PlainAction ==
  \/ \E s \in Signals : Set(s)
  \/ \E e \in Effects : RenderEffect(e) \/ DeferEffect(e) \/ Dispose(e)
  \/ BatchStart \/ Untracked
  \/ NotifyNext \/ NotifyReturn \/ FlushNext \/ FlushReturn \/ BatchEnd
  \/ UntrackedReturn \/ FirstReturn \/ BodyReturn \/ Microtask

\* Before it and after it no such function is in progress.
LEMMA PlainStep ==
  ASSUME IInv, ComputeOK, PlainAction
  PROVE  /\ Plain(stack) /\ subscriber \notin Memos
         /\ Plain(stack')
  <1>0. TypeOK /\ stack \in Seq(Frame) /\ None \notin Memos
    BY ReactiveAssumption DEF IInv, TypeOK
  <1>1. stack = <<>> \/ Top.kind # "compute"
    <2>1. ASSUME stack # <<>>, Top.kind = "compute"
          PROVE  InMemo
      BY <2>1, InsideMemos DEF InMemo
    <2>2. CASE \/ \E s \in Signals : Set(s)
               \/ \E e \in Effects : RenderEffect(e) \/ DeferEffect(e) \/ Dispose(e)
               \/ BatchStart
      BY <2>1, <2>2 DEF Set, RenderEffect, DeferEffect, Dispose, BatchStart, MayWrite, MayManage
    <2>3. CASE \/ Untracked \/ NotifyNext \/ NotifyReturn \/ FlushNext \/ FlushReturn \/ BatchEnd
               \/ UntrackedReturn \/ FirstReturn \/ BodyReturn \/ Microtask
      BY <2>3 DEF Untracked, NotifyNext, NotifyReturn, FlushNext, FlushReturn, BatchEnd,
                  UntrackedReturn, FirstReturn, BodyReturn, Microtask, Running
    <2> QED BY <2>2, <2>3 DEF PlainAction
  <1>2. Plain(stack) /\ subscriber \notin Memos
    BY <1>1, OutsideMemos
  <1>3. CASE (\E e \in Effects : DeferEffect(e) \/ Dispose(e))
    BY <1>2, <1>3 DEF DeferEffect, Dispose
  <1>4. CASE NotifyReturn \/ FlushReturn \/ UntrackedReturn \/ FirstReturn \/ BodyReturn
    BY <1>0, <1>2, <1>4, PlainPop DEF NotifyReturn, FlushReturn, UntrackedReturn, FirstReturn,
       BodyReturn, Running, Popped
  <1>5. ASSUME NEW f \in Frame, stack' = Append(stack, f), f.kind # "compute",
               Under(f) \notin Memos
        PROVE  Plain(stack')
    BY <1>0, <1>2, <1>5, PlainPush
  <1>6. ASSUME NEW s \in Signals, Set(s)  PROVE Plain(stack')
    <2>1. /\ NotifyCall(s) \in Frame /\ NotifyCall(s).kind = "notify"
          /\ NotifyCall(s).prev = subscriber
      BY <1>0, NotifyCallIs DEF Sources
    <2> QED BY <1>2, <1>5, <1>6, <2>1 DEF Set, Under
  <1>7. ASSUME NEW e \in Effects, RenderEffect(e)  PROVE Plain(stack')
    <2>1. /\ Call("first", e) \in Frame /\ Call("first", e).kind = "first"
          /\ Call("first", e).of = e /\ e \notin Memos
      BY <1>0, CallIs, Apart DEF FrameKinds
    <2> QED BY <1>5, <1>7, <2>1 DEF RenderEffect, Under
  <1>8. CASE BatchStart \/ Untracked
    <2>1. \A k \in {"batch", "untrack"} : /\ Call(k, None) \in Frame /\ Call(k, None).kind = k
                                          /\ Call(k, None).prev = subscriber
      BY <1>0, CallIs DEF FrameKinds
    <2> QED BY <1>0, <1>2, <1>5, <1>8, <2>1 DEF BatchStart, Untracked, Under
  <1>9. CASE BatchEnd
    <2>1. /\ stack # <<>>
          /\ stack' = Popped \/ stack' = Append(Popped, FlushCall)
      BY <1>9 DEF BatchEnd, Running, FlushCall
    <2>2. Popped \in Seq(Frame) /\ Plain(Popped)
      BY <1>0, <1>2, <2>1, PoppedFrames, PlainPop DEF Popped
    <2> QED BY <1>0, <1>2, <2>1, <2>2, FlushCallIs, PlainPush DEF Under
  <1>10. CASE NotifyNext
    <2>1. /\ NotifySubscriber \in Computations /\ stack # <<>>
          /\ \/ stack' = Advanced(stack)
             \/ Run(NotifySubscriber, Advanced(stack))
      BY <1>10, NotifyFacts
    <2>2. Advanced(stack) \in Seq(Frame) /\ Plain(Advanced(stack))
      BY <1>0, <1>2, <2>1, AdvancedFrames, PlainAdvance
    <2> QED BY <1>0, <1>2, <2>1, <2>2, RunPlain
  <1>11. CASE FlushNext
    BY <1>0, <1>2, <1>11, FlushFacts, RunPlain
  <1>12. CASE Microtask
    BY <1>0, <1>2, <1>12, MicrotaskFacts, RunPlain
  <1> QED BY <1>2, <1>3, <1>4, <1>6, <1>7, <1>8, <1>9, <1>10, <1>11, <1>12 DEF PlainAction

\* The other steps.
LEMMA NextCases ==
  ASSUME [Next]_vars
  PROVE  \/ PlainAction \/ UNCHANGED vars \/ ComputeReturn
         \/ \E s \in Signals : Get(s)
         \/ \E m \in Memos : GetCached(m) \/ GetDirty(m)
  BY DEF PlainAction, Next, UserStep, EngineStep

\* The reader that is subscribed, if it is a memo, is the one whose function reads.
LEMMA ReadAdds ==
  ASSUME IInv, ComputeOK, NEW y \in Sources, MayRead(y), Track(y), subscriber \in Memos
  PROVE  y \in program.reads[subscriber]
  <1>1. stack # <<>> /\ Top.kind = "compute"
    BY OutsideMemos
  <1> QED BY <1>1, InsideMemos DEF MayRead

\* The invariants hold at first and are kept.
LEMMA ComputeOKInit == Init => ComputeOK /\ ReadsOK
  BY EmptySeq DEF Init, ComputeOK, Computes, ReadsOK, Subscribed, Sources

LEMMA ReadsOKStep == IInv /\ ComputeOK /\ ReadsOK /\ [Next]_vars => ReadsOK'
  <1> SUFFICES ASSUME IInv, ComputeOK, ReadsOK, [Next]_vars  PROVE ReadsOK'
    OBVIOUS
  <1>0. Memos \subseteq Sources /\ Signals \subseteq Sources
    BY DEF Sources
  <1>1. ASSUME NEW y \in Sources, MayRead(y), Track(y), program' = program
        PROVE  ReadsOK'
    <2> SUFFICES ASSUME NEW x \in Memos, NEW m \in Memos, Subscribed(x, m)'
                 PROVE  m \in program.reads[x]
      BY <1>1 DEF ReadsOK
    <2>1. Subscribed(x, m) \/ (m = y /\ x = subscriber)
      BY <1>0, <1>1, TrackAdds
    <2> QED BY <1>1, <2>1, ReadAdds DEF ReadsOK
  <1>2. CASE (\E s \in Signals : Get(s)) \/ \E m \in Memos : GetCached(m) \/ GetDirty(m)
    BY <1>0, <1>1, <1>2 DEF Get, GetCached, GetDirty
  <1>3. ASSUME subs' = subs, program' = program  PROVE ReadsOK'
    BY <1>3 DEF ReadsOK, Subscribed
  <1>4. CASE PlainAction \/ UNCHANGED vars \/ ComputeReturn
    BY <1>3, <1>4 DEF PlainAction, vars, ComputeReturn, Set, RenderEffect, DeferEffect, Dispose,
       BatchStart, Untracked, NotifyNext, NotifyReturn, FlushNext, FlushReturn, BatchEnd,
       UntrackedReturn, FirstReturn, BodyReturn, Microtask
  <1> QED BY <1>2, <1>4, NextCases

LEMMA ComputeOKStep == IInv /\ ComputeOK /\ [Next]_vars => ComputeOK'
  <1> SUFFICES ASSUME IInv, ComputeOK, [Next]_vars  PROVE ComputeOK'
    OBVIOUS
  <1>0. /\ TypeOK /\ stack \in Seq(Frame) /\ Memos \subseteq Sources /\ Signals \subseteq Sources
        /\ \A i \in 1..Len(stack) : stack[i].kind = "compute" => stack[i].of \in Sources
    BY DEF IInv, TypeOK, Sources, StackOK, Shape, Sound
  <1>1. CASE PlainAction
    BY <1>1, PlainStep, PlainComputes DEF ComputeOK, Plain
  <1>2. ASSUME NEW y \in Sources, Track(y), stack' = stack  PROVE ComputeOK'
    BY <1>0, <1>2, TrackAdds DEF ComputeOK
  <1>3. CASE (\E s \in Signals : Get(s)) \/ \E m \in Memos : GetCached(m)
    BY <1>0, <1>2, <1>3 DEF Get, GetCached
  <1>4. ASSUME NEW m \in Memos, GetDirty(m)  PROVE ComputeOK'
    <2>1. /\ Call("compute", m) \in Frame /\ Call("compute", m).kind = "compute"
          /\ Call("compute", m).of = m /\ Call("compute", m).prev = subscriber
          /\ stack' = Append(stack, Call("compute", m)) /\ Track(m)
      BY <1>0, <1>4, CallIs DEF FrameKinds, GetDirty
    <2>2. Computes(stack')
      <3> SUFFICES ASSUME NEW i \in 1..Len(stack')
                   PROVE  /\ stack'[i].kind = "compute" =>
                               \A j \in i..Len(stack') : stack'[j].kind = "compute"
                          /\ Under(stack'[i]) \in Memos => stack'[i].kind = "compute"
        BY DEF Computes
      <3>1. /\ Len(stack) \in Nat /\ Len(stack') = Len(stack) + 1
            /\ \A k \in 1..Len(stack) : stack'[k] = stack[k]
            /\ stack'[Len(stack) + 1].kind = "compute"
        BY <1>0, <2>1, PushedFrames
      <3>2. CASE i = Len(stack) + 1
        BY <3>1, <3>2
      <3>3. CASE i \in 1..Len(stack)
        <4>1. \A j \in i..Len(stack') : j \in i..Len(stack) \/ j = Len(stack) + 1
          BY <3>1
        <4>2. \A j \in i..Len(stack) : j \in 1..Len(stack)
          BY <3>1, <3>3
        <4> QED BY <3>1, <3>3, <4>1, <4>2 DEF ComputeOK, Computes
      <3> QED BY <3>1, <3>2, <3>3
    <2>3. ASSUME NEW i \in 1..Len(stack'), stack'[i].kind = "compute",
                 stack'[i].prev \in Computations
          PROVE  Subscribed(stack[i].prev, stack[i].of)'
      <3>1. CASE i \in 1..Len(stack)
        <4>1. stack'[i] = stack[i]
          BY <1>0, <2>1, <3>1, PushedFrames
        <4>2. Subscribed(stack[i].prev, stack[i].of) /\ stack[i].of \in Sources
          BY <1>0, <2>3, <3>1, <4>1 DEF ComputeOK
        <4>3. \A x, z : z \in Sources /\ Subscribed(x, z) => Subscribed(x, z)'
          BY <1>0, <2>1, TrackAdds
        <4> QED BY <4>1, <4>2, <4>3
      <3>2. CASE i = Len(stack) + 1
        <4>1. stack'[i].prev = subscriber /\ stack'[i].of = m /\ subscriber # None
          BY <1>0, <2>1, <2>3, <3>2, PushedFrames, ReactiveAssumption DEF Computations
        <4>2. \A x : x = subscriber /\ x # None => Subscribed(x, m)'
          BY <1>0, <2>1, TrackAdds
        <4> QED BY <4>1, <4>2
      <3> QED BY <1>0, <2>1, <3>1, <3>2, PushedFrames
    <2> QED BY <2>2, <2>3 DEF ComputeOK
  <1>5. CASE ComputeReturn
    <2>1. stack # <<>> /\ stack' = Popped /\ subs' = subs
      BY <1>5 DEF ComputeReturn, Running
    <2>2. /\ Len(stack) \in Nat /\ Len(stack') = Len(stack) - 1
          /\ \A i \in 1..Len(stack') : i \in 1..Len(stack) /\ stack'[i] = stack[i]
      BY <1>0, <2>1, PoppedFrames DEF Popped
    <2>3. ASSUME NEW i \in 1..Len(stack')
          PROVE  /\ stack'[i].kind = "compute" =>
                      \A j \in i..Len(stack') : stack'[j].kind = "compute"
                 /\ Under(stack'[i]) \in Memos => stack'[i].kind = "compute"
                 /\ stack'[i].kind = "compute" /\ stack'[i].prev \in Computations
                      => Subscribed(stack[i].prev, stack[i].of)'
      <3>1. i \in 1..Len(stack) /\ stack'[i] = stack[i]
        BY <2>2
      <3>2. \A j \in i..Len(stack') : j \in i..Len(stack) /\ stack'[j] = stack[j]
        BY <2>2, <3>1
      <3> QED BY <2>1, <3>1, <3>2 DEF ComputeOK, Computes, Subscribed
    <2> QED BY <2>3 DEF ComputeOK, Computes
  <1>6. CASE UNCHANGED vars
    BY <1>6 DEF vars, ComputeOK, Subscribed
  <1> QED BY <1>1, <1>3, <1>4, <1>5, <1>6, NextCases

-----------------------------------------------------------------------------
(* What is still to be run                                                 *)

\* A subscriber loop has yet to come to x.
InLoop(x, f, sb) == f.kind = "notify" /\ \E k \in f.at..f.last : sb[f.of][k] = x
InLoops(x, st, sb) == \E i \in 1..Len(st) : InLoop(x, st[i], sb)
Waiting(x) == Queued(x) \/ InLoops(x, stack, subs)

\* The computations whose last run counts: active effects, memos that answer from their
\* cache or are being computed.
Computing(m, st) == \E i \in 1..Len(st) : st[i].kind = "compute" /\ st[i].of = m
Must(x) ==
  \/ x \in Effects /\ Active(x)
  \/ x \in Memos /\ (~dirty[x] \/ Computing(x, stack))

\* x will hear of a write to s: it waits for its turn, subscribes to s, or subscribes
\* to a clean memo that used s.
Hears(x, s) ==
  \/ Waiting(x) \/ Subscribed(x, s)
  \/ \E m \in Memos : ~dirty[m] /\ Subscribed(x, m) /\ s \in sources[m]
Linked == \A x \in Computations, s \in Signals : Must(x) /\ s \in sources[x] => Hears(x, s)

\* If x is outdated it waits for its turn, or a memo it subscribes to is to be marked.
Reached(x) == Waiting(x) \/ \E m \in Memos : ~dirty[m] /\ Subscribed(x, m) /\ m \in outdated
Covered == \A x \in Computations : Must(x) /\ x \in outdated => Reached(x)

\* The last run of x has used nothing yet.
Fresh(x) == sources[x] = {} /\ x \notin outdated

\* What calls, returns and steps of a loop take out of the loops in progress: a call
\* nothing, a return what its own loop holds, a step the subscriber it takes.
LEMMA LoopPush ==
  ASSUME NEW st \in Seq(Frame), NEW f \in Frame, NEW sb, NEW x
  PROVE  /\ InLoops(x, st, sb) => InLoops(x, Append(st, f), sb)
         /\ InLoop(x, f, sb) => InLoops(x, Append(st, f), sb)
         /\ Computing(x, Append(st, f)) <=>
              Computing(x, st) \/ (f.kind = "compute" /\ f.of = x)
  BY PushedFrames DEF InLoops, Computing

LEMMA LoopPop ==
  ASSUME NEW st \in Seq(Frame), st # <<>>, NEW sb, NEW x
  PROVE  /\ InLoops(x, st, sb) =>
              InLoops(x, SubSeq(st, 1, Len(st) - 1), sb) \/ InLoop(x, st[Len(st)], sb)
         /\ Computing(x, SubSeq(st, 1, Len(st) - 1)) => Computing(x, st)
  BY PoppedFrames DEF InLoops, Computing

LEMMA LoopAdvance ==
  ASSUME NEW st \in Seq(Frame), st # <<>>, NEW sb, NEW x, st[Len(st)].kind = "notify"
  PROVE  InLoops(x, st, sb) =>
           InLoops(x, Advanced(st), sb) \/ x = sb[st[Len(st)].of][st[Len(st)].at]
  <1> SUFFICES ASSUME NEW i \in 1..Len(st), InLoop(x, st[i], sb)
               PROVE  \/ InLoops(x, Advanced(st), sb)
                      \/ x = sb[st[Len(st)].of][st[Len(st)].at]
    BY DEF InLoops
  <1>1. /\ st[i] \in Frame /\ i \in 1..Len(Advanced(st))
        /\ Advanced(st)[i].kind = st[i].kind /\ Advanced(st)[i].of = st[i].of
        /\ Advanced(st)[i].last = st[i].last
        /\ Advanced(st)[i].at = IF i = Len(st) THEN st[i].at + 1 ELSE st[i].at
    BY AdvancedFrames
  <1>2. CASE i # Len(st)
    <2>1. InLoop(x, Advanced(st)[i], sb)
      BY <1>1, <1>2 DEF InLoop
    <2> QED BY <1>1, <2>1 DEF InLoops
  <1>3. CASE i = Len(st)
    <2>1. PICK k \in st[i].at..st[i].last : sb[st[i].of][k] = x
      BY DEF InLoop
    <2>2. CASE k = st[i].at
      BY <1>3, <2>1, <2>2
    <2>3. CASE k # st[i].at
      <3>1. k \in st[i].at+1..st[i].last
        BY <1>1, <2>3 DEF Frame
      <3>2. InLoop(x, Advanced(st)[i], sb)
        BY <1>1, <1>3, <2>1, <3>1 DEF InLoop
      <3> QED BY <1>1, <3>2 DEF InLoops
    <2> QED BY <2>2, <2>3
  <1> QED BY <1>2, <1>3

\* Subscribing takes nothing out of a loop.
LEMMA LoopGrow ==
  ASSUME IInv, NEW y \in Sources, Track(y), NEW x
  PROVE  InLoops(x, stack, subs) => InLoops(x, stack, subs')
  <1> SUFFICES ASSUME NEW i \in 1..Len(stack), InLoop(x, stack[i], subs)
               PROVE  InLoop(x, stack[i], subs')
    BY DEF InLoops
  <1>1. PICK k \in stack[i].at..stack[i].last : subs[stack[i].of][k] = x
    BY DEF InLoop
  <1>2. /\ stack[i].kind = "notify" /\ stack[i].of \in Sources
        /\ stack[i].at >= 1 /\ stack[i].last <= Len(subs[stack[i].of])
    BY DEF InLoop, IInv, StackOK, Shape, Sound
  <1>3. stack[i].at \in Nat /\ stack[i].last \in Nat
    <2>1. stack[i] \in Frame
      BY ElementOfSeq DEF IInv, TypeOK
    <2> QED BY <2>1 DEF Frame
  <1>4. Len(subs[stack[i].of]) \in Nat
        /\ \A j \in 1..Len(subs[stack[i].of]) : subs'[stack[i].of][j] = subs[stack[i].of][j]
    BY <1>2, TrackAdds
  <1>5. k \in 1..Len(subs[stack[i].of])
    BY <1>2, <1>3, <1>4
  <1> QED BY <1>1, <1>2, <1>4, <1>5 DEF InLoop

-----------------------------------------------------------------------------
(* How a step keeps them                                                   *)

\* Clean memos stay so, with what they used, or all their subscribers wait.
MemosKept ==
  \A m \in Memos : ~dirty[m] =>
    \/ ~dirty'[m] /\ sources[m] \subseteq sources'[m] /\ (m \in outdated => m \in outdated')
    \/ \A x : Subscribed(x, m) => Waiting(x)'
\* Nobody is unsubscribed.
SubscribersKept == \A x, z : z \in Sources /\ Subscribed(x, z) => Subscribed(x, z)'

\* What x hears of, and what reaches it, remains.
LEMMA HearsKept ==
  ASSUME SubscribersKept, MemosKept, NEW x \in Computations, Waiting(x) => Waiting(x)'
  PROVE  /\ \A s \in Signals : Hears(x, s) => Hears(x, s)'
         /\ Reached(x) => Reached(x)'
  <1>1. \A y \in Sources : Subscribed(x, y) => Subscribed(x, y)'
    BY Zenon DEF SubscribersKept
  <1>2. \A s \in Signals : Subscribed(x, s) => Subscribed(x, s)'
    BY <1>1 DEF Sources
  <1>3. ASSUME NEW m \in Memos, ~dirty[m], Subscribed(x, m)
        PROVE  \/ Waiting(x)'
               \/ /\ ~dirty'[m] /\ Subscribed(x, m)' /\ sources[m] \subseteq sources'[m]
                  /\ m \in outdated => m \in outdated'
    <2>1. Subscribed(x, m)'
      BY <1>1, <1>3 DEF Sources
    <2> QED BY <1>3, <2>1, Zenon DEF MemosKept
  <1>4. ASSUME NEW s \in Signals, Hears(x, s)  PROVE Hears(x, s)'
    <2>1. CASE Waiting(x) \/ Subscribed(x, s)
      BY <1>2, <2>1 DEF Hears
    <2>2. ASSUME NEW m \in Memos, ~dirty[m], Subscribed(x, m), s \in sources[m]
          PROVE  Hears(x, s)'
      BY <1>3, <2>2 DEF Hears
    <2> QED BY <1>4, <2>1, <2>2 DEF Hears
  <1>5. ASSUME Reached(x)  PROVE Reached(x)'
    BY <1>3, <1>5 DEF Reached
  <1> QED BY <1>4, <1>5

\* A step in which whoever counts starts over, or counted before and keeps its place.
LEMMA Carry ==
  ASSUME Linked, Covered, SubscribersKept, MemosKept,
         \A x \in Computations : Must(x)' =>
           \/ Fresh(x)'
           \/ /\ Must(x) /\ sources'[x] = sources[x] /\ (x \in outdated' => x \in outdated)
              /\ Waiting(x) => Waiting(x)'
  PROVE  Linked' /\ Covered'
  <1>1. ASSUME NEW x \in Computations, Must(x)'
        PROVE  /\ \A s \in Signals : s \in sources'[x] => Hears(x, s)'
               /\ x \in outdated' => Reached(x)'
    <2>1. CASE Fresh(x)'
      BY <2>1 DEF Fresh
    <2>2. CASE /\ Must(x) /\ sources'[x] = sources[x] /\ (x \in outdated' => x \in outdated)
               /\ Waiting(x) => Waiting(x)'
      <3>1. /\ \A s \in Signals : s \in sources[x] => Hears(x, s)
            /\ x \in outdated => Reached(x)
        BY <2>2 DEF Linked, Covered
      <3> QED BY <2>2, <3>1, HearsKept
    <2> QED BY <1>1, <2>1, <2>2
  <1> QED BY <1>1 DEF Linked, Covered

\* A read or the return of a memo's function: c hears of what it has newly used, and
\* becomes outdated only if something outdated reaches it.
LEMMA CarryUse ==
  ASSUME Linked, Covered, SubscribersKept, MemosKept, NEW c,
         \A x \in Computations :
           /\ Must(x)' => Must(x)
           /\ Waiting(x) => Waiting(x)'
           /\ x # c => sources'[x] = sources[x] /\ (x \in outdated' => x \in outdated)
           /\ x = c => /\ \A s \in Signals : s \in sources'[x] => s \in sources[x] \/ Hears(x, s)'
                       /\ x \in outdated' => x \in outdated \/ Reached(x)'
  PROVE  Linked' /\ Covered'
  <1>1. ASSUME NEW x \in Computations, Must(x)'
        PROVE  /\ \A s \in Signals : s \in sources'[x] => Hears(x, s)'
               /\ x \in outdated' => Reached(x)'
    <2>1. /\ \A s \in Signals : s \in sources[x] => Hears(x, s)
          /\ x \in outdated => Reached(x)
      BY <1>1 DEF Linked, Covered
    <2>2. /\ \A s \in Signals : Hears(x, s) => Hears(x, s)'
          /\ Reached(x) => Reached(x)'
      BY HearsKept
    <2> QED BY <1>1, <2>1, <2>2
  <1> QED BY <1>1 DEF Linked, Covered

\* Outside their functions no memo is being computed.
LEMMA PlainNotComputing == ASSUME NEW st, Plain(st), NEW m PROVE ~Computing(m, st)
  BY DEF Plain, Computing

\* Every subscriber of a source is in the loop that notifies them.
LEMMA NotifiedWait ==
  ASSUME TypeOK, NEW y \in Sources, NEW x, Subscribed(x, y)
  PROVE  InLoop(x, NotifyCall(y), subs)
  <1>1. subs[y] \in Seq(Computations) /\ DOMAIN subs[y] = 1..Len(subs[y])
    BY LenProperties DEF TypeOK
  <1>2. /\ NotifyCall(y).kind = "notify" /\ NotifyCall(y).of = y
        /\ NotifyCall(y).at = 1 /\ NotifyCall(y).last = Len(subs[y])
    BY NotifyCallIs
  <1> QED BY <1>1, <1>2 DEF InLoop, Subscribed

\* Running x, with everybody else still waiting.
LEMMA RunCarry ==
  ASSUME IInv, Linked, Covered, NEW x \in Computations, NEW calls \in Seq(Frame),
         Run(x, calls), Plain(stack'), subs' = subs, status' = status,
         \A z : z # x /\ Waiting(z) => Queued(z)' \/ InLoops(z, calls, subs)
  PROVE  Linked' /\ Covered'
  <1>0. /\ TypeOK /\ sources \in [Computations -> SUBSET Signals]
        /\ dirty \in [Memos -> BOOLEAN] /\ Memos \subseteq Computations
        /\ \A e \in Effects : e \notin Memos
    BY Apart DEF IInv, TypeOK, Computations
  <1>1. SubscribersKept
    BY DEF SubscribersKept, Subscribed
  <1>2. \A m : ~Computing(m, stack')
    BY PlainNotComputing
  <1>3. \A z \in Effects : Active(z)' <=> Active(z)
    BY DEF Active
  <1>4. CASE Called(x, calls)
    <2>1. /\ x \in Effects /\ stack' = Append(calls, Call("body", x)) /\ dirty' = dirty
          /\ sources' = [sources EXCEPT ![x] = {}] /\ outdated' = outdated \ {x}
          /\ Call("body", x) \in Frame
      BY <1>0, <1>4, CallIs DEF Called, Restart, FrameKinds
    <2>2. MemosKept
      BY <1>0, <2>1 DEF MemosKept
    <2>3. ASSUME NEW z \in Computations, Must(z)', z # x
          PROVE  /\ Must(z) /\ sources'[z] = sources[z] /\ (z \in outdated' => z \in outdated)
                 /\ Waiting(z) => Waiting(z)'
      <3>1. Must(z)
        BY <1>2, <1>3, <2>1, <2>3 DEF Must
      <3>2. Waiting(z) => Waiting(z)'
        BY <2>1, <2>3, LoopPush DEF Waiting
      <3> QED BY <1>0, <2>1, <2>3, <3>1, <3>2
    <2>4. Fresh(x)'
      BY <1>0, <2>1 DEF Fresh
    <2> QED BY <1>1, <2>2, <2>3, <2>4, Carry
  <1>5. CASE Passed(x, calls)
    <2>1. /\ x \in Memos /\ stack' = Append(calls, NotifyCall(x)) /\ x \in Sources
          /\ dirty' = [dirty EXCEPT ![x] = TRUE]
          /\ UNCHANGED <<sources, outdated>> /\ NotifyCall(x) \in Frame
      BY <1>0, <1>5, NotifyCallIs DEF Passed, Sources
    <2>2. ASSUME NEW m \in Memos, ~dirty[m]
          PROVE  \/ ~dirty'[m] /\ sources[m] \subseteq sources'[m] /\ (m \in outdated => m \in outdated')
                 \/ \A u : Subscribed(u, m) => Waiting(u)'
      <3>1. CASE m = x
        <4>1. ASSUME NEW u, Subscribed(u, x)  PROVE Waiting(u)'
          <5>1. InLoop(u, NotifyCall(x), subs)
            BY <1>0, <2>1, <4>1, NotifiedWait
          <5>2. InLoops(u, stack', subs)
            BY <2>1, <5>1, LoopPush
          <5> QED BY <5>2 DEF Waiting
        <4> QED BY <3>1, <4>1
      <3>2. CASE m # x
        BY <1>0, <2>1, <2>2, <3>2
      <3> QED BY <3>1, <3>2
    <2>3. MemosKept
      BY <2>2, Zenon DEF MemosKept
    <2>4. ASSUME NEW z \in Computations, Must(z)'
          PROVE  /\ Must(z) /\ sources'[z] = sources[z] /\ (z \in outdated' => z \in outdated)
                 /\ Waiting(z) => Waiting(z)'
      <3>1. z # x /\ Must(z)
        <4>1. CASE z \in Effects /\ Active(z)'
          BY <1>0, <1>3, <2>1, <4>1 DEF Must
        <4>2. CASE z \in Memos /\ ~dirty'[z]
          BY <1>0, <2>1, <4>2 DEF Must
        <4> QED BY <1>2, <2>4, <4>1, <4>2 DEF Must
      <3>2. Waiting(z) => Waiting(z)'
        BY <2>1, <3>1, LoopPush DEF Waiting
      <3> QED BY <2>1, <3>1, <3>2
    <2> QED BY <1>1, <2>3, <2>4, Carry
  <1>6. CASE Ignored(x, calls)
    <2>1. stack' = calls /\ UNCHANGED <<dirty, sources, outdated>>
      BY <1>6 DEF Ignored
    <2>2. MemosKept
      BY <2>1 DEF MemosKept
    <2>3. ASSUME NEW z \in Computations, Must(z)'
          PROVE  /\ Must(z) /\ sources'[z] = sources[z] /\ (z \in outdated' => z \in outdated)
                 /\ Waiting(z) => Waiting(z)'
      <3>1. z # x /\ Must(z)
        BY <1>2, <1>3, <1>6, <2>1, <2>3 DEF Must, Ignored
      <3>2. Waiting(z) => Waiting(z)'
        BY <2>1, <3>1 DEF Waiting
      <3> QED BY <2>1, <3>1, <3>2
    <2> QED BY <1>1, <2>2, <2>3, Carry
  <1> QED BY <1>4, <1>5, <1>6, RunCases

\* The three places the engine runs a subscriber.
LEMMA NotifyCarry ==
  ASSUME IInv, ComputeOK, Linked, Covered, NotifyNext
  PROVE  Linked' /\ Covered'
  <1>0. TypeOK /\ stack \in Seq(Frame)
    BY DEF IInv, TypeOK
  <1>1. /\ stack # <<>> /\ Top.kind = "notify" /\ NotifySubscriber \in Computations
        /\ subs' = subs /\ status' = status /\ Advanced(stack) \in Seq(Frame)
    BY <1>0, NotifyFacts, AdvancedFrames
  <1>2. Plain(stack')
    BY PlainStep DEF PlainAction
  <1>3. \A z : InLoops(z, stack, subs) =>
          InLoops(z, Advanced(stack), subs) \/ z = NotifySubscriber
    BY <1>0, <1>1, LoopAdvance DEF NotifySubscriber, Top
  <1>4. CASE /\ pending' = IF Queued(NotifySubscriber) THEN pending
                           ELSE Append(pending, NotifySubscriber)
             /\ stack' = Advanced(stack)
             /\ UNCHANGED <<dirty, subscriber, sources, outdated, ran>>
    <2>1. SubscribersKept /\ MemosKept
      BY <1>1, <1>4 DEF SubscribersKept, MemosKept, Subscribed
    <2>2. ASSUME NEW z \in Computations, Must(z)'  PROVE Must(z)
      BY <1>1, <1>2, <1>4, <2>2, PlainNotComputing DEF Must, Active
    <2>3. ASSUME NEW z \in Computations, Waiting(z)  PROVE Waiting(z)'
      <3>1. Queued(z) => Queued(z)'
        BY <1>0, <1>1, <1>4, QueueAdds
      <3>2. CASE z = NotifySubscriber
        <4>1. \A u : u = NotifySubscriber => Queued(u)'
          BY <1>0, <1>1, <1>4, QueueAdds
        <4> QED BY <3>2, <4>1 DEF Waiting
      <3>3. CASE Queued(z)
        BY <3>1, <3>3 DEF Waiting
      <3>4. CASE InLoops(z, Advanced(stack), subs)
        BY <1>1, <1>4, <3>4 DEF Waiting
      <3> QED BY <1>3, <2>3, <3>2, <3>3, <3>4 DEF Waiting
    <2> QED BY <1>4, <2>1, <2>2, <2>3, Carry
  <1>5. CASE Run(NotifySubscriber, Advanced(stack)) /\ pending' = pending
    <2>1. \A z : z # NotifySubscriber /\ Waiting(z) =>
            Queued(z)' \/ InLoops(z, Advanced(stack), subs)
      BY <1>3, <1>5 DEF Waiting, Queued
    <2> QED BY <1>1, <1>2, <1>5, <2>1, RunCarry
  <1> QED BY <1>4, <1>5, NotifyFacts

LEMMA FlushCarry ==
  ASSUME IInv, ComputeOK, Linked, Covered, FlushNext
  PROVE  Linked' /\ Covered'
  <1>1. /\ Head(pending) \in Computations /\ Run(Head(pending), stack)
        /\ subs' = subs /\ status' = status /\ stack \in Seq(Frame) /\ Plain(stack')
    BY FlushFacts, PlainStep DEF IInv, TypeOK, PlainAction
  <1>2. \A z : z # Head(pending) /\ Waiting(z) => Queued(z)' \/ InLoops(z, stack, subs)
    BY QueueTakes DEF Waiting
  <1> QED BY <1>1, <1>2, RunCarry

LEMMA MicrotaskCarry ==
  ASSUME IInv, ComputeOK, Linked, Covered, Microtask
  PROVE  Linked' /\ Covered'
  <1>1. /\ Head(microtasks) \in Computations /\ Run(Head(microtasks), stack)
        /\ subs' = subs /\ status' = status /\ pending' = pending
        /\ stack \in Seq(Frame) /\ Plain(stack')
    BY MicrotaskFacts, PlainStep DEF IInv, TypeOK, PlainAction
  <1>2. \A z : z # Head(microtasks) /\ Waiting(z) => Queued(z)' \/ InLoops(z, stack, subs)
    BY <1>1 DEF Waiting, Queued
  <1> QED BY <1>1, <1>2, RunCarry

\* Steps that run and read nothing.
QuietAction ==
  \/ \E e \in Effects : RenderEffect(e) \/ DeferEffect(e) \/ Dispose(e)
  \/ BatchStart \/ Untracked
  \/ NotifyReturn \/ FlushReturn \/ BatchEnd \/ UntrackedReturn \/ FirstReturn \/ BodyReturn

\* They activate an effect only when they create it, or end the call that does.
LEMMA QuietLife ==
  ASSUME IInv, LifeOK, QuietAction, NEW e \in Effects, Active(e)'
  PROVE  Active(e) \/ status[e] = "absent"
  <1>0. status \in [Effects -> {"absent", "creating", "live", "disposed"}]
    BY DEF IInv, TypeOK
  <1>1. CASE FirstReturn
    <2>1. /\ stack # <<>> /\ Top.kind = "first" /\ status' = [status EXCEPT ![Top.of] = "live"]
          /\ stack \in Seq(Frame)
      BY <1>1 DEF FirstReturn, Running, IInv, TypeOK
    <2>2. status[Top.of] = "creating"
      BY <2>1, PoppedFrames DEF LifeOK, Creating, Top
    <2> QED BY <1>0, <2>1, <2>2 DEF Active
  <1>2. CASE BodyReturn
    BY <1>0, <1>2 DEF BodyReturn, Active
  <1>3. ASSUME NEW x \in Effects, RenderEffect(x) \/ DeferEffect(x) \/ Dispose(x)
        PROVE  Active(e) \/ status[e] = "absent"
    BY <1>0, <1>3 DEF RenderEffect, DeferEffect, Dispose, Active
  <1>4. CASE BatchStart \/ Untracked \/ NotifyReturn \/ FlushReturn \/ BatchEnd \/ UntrackedReturn
    BY <1>4 DEF BatchStart, Untracked, NotifyReturn, FlushReturn, BatchEnd, UntrackedReturn,
                Active
  <1> QED BY <1>1, <1>2, <1>3, <1>4 DEF QuietAction

\* They leave every loop and the queue as they are.
LEMMA QuietWait ==
  ASSUME IInv, QuietAction, NEW x
  PROVE  Waiting(x) => Waiting(x)'
  <1>0. TypeOK /\ stack \in Seq(Frame) /\ None \notin Effects
    BY ReactiveAssumption DEF IInv, TypeOK
  <1>1. pending' = pending /\ subs' = subs
    BY DEF QuietAction, RenderEffect, DeferEffect, Dispose, BatchStart, Untracked, NotifyReturn,
           FlushReturn, BatchEnd, UntrackedReturn, FirstReturn, BodyReturn
  <1>2. ASSUME InLoops(x, stack, subs) => InLoops(x, stack', subs)
        PROVE  Waiting(x) => Waiting(x)'
    BY <1>1, <1>2 DEF Waiting, Queued
  <1>3. ASSUME stack # <<>>, ~InLoop(x, Top, subs)
        PROVE  InLoops(x, stack, subs) => InLoops(x, Popped, subs)
    BY <1>0, <1>3, LoopPop DEF Top, Popped
  <1>4. CASE \E e \in Effects : RenderEffect(e)
    <2>1. \A e \in Effects : Call("first", e) \in Frame
      BY <1>0, CallIs DEF FrameKinds
    <2> QED BY <1>0, <1>2, <1>4, <2>1, LoopPush DEF RenderEffect
  <1>5. CASE \E e \in Effects : DeferEffect(e) \/ Dispose(e)
    BY <1>2, <1>5 DEF DeferEffect, Dispose
  <1>6. CASE BatchStart \/ Untracked
    <2>1. Call("batch", None) \in Frame /\ Call("untrack", None) \in Frame
      BY <1>0, CallIs DEF FrameKinds
    <2> QED BY <1>0, <1>2, <1>6, <2>1, LoopPush DEF BatchStart, Untracked
  <1>7. CASE NotifyReturn
    <2>1. stack # <<>> /\ Top.at > Top.last /\ stack' = Popped /\ Top \in Frame
      BY <1>0, <1>7, PoppedFrames DEF NotifyReturn, Running, Top
    <2>2. ~InLoop(x, Top, subs)
      BY <2>1 DEF InLoop, Frame
    <2> QED BY <1>2, <1>3, <2>1, <2>2
  <1>8. CASE FlushReturn \/ UntrackedReturn \/ FirstReturn \/ BodyReturn
    <2>1. stack # <<>> /\ Top.kind # "notify" /\ stack' = Popped
      BY <1>8 DEF FlushReturn, UntrackedReturn, FirstReturn, BodyReturn, Running
    <2> QED BY <1>2, <1>3, <2>1 DEF InLoop
  <1>9. CASE BatchEnd
    <2>1. /\ stack # <<>> /\ Top.kind # "notify"
          /\ stack' = Popped \/ stack' = Append(Popped, FlushCall)
      BY <1>9 DEF BatchEnd, Running, FlushCall
    <2>2. InLoops(x, stack, subs) => InLoops(x, Popped, subs)
      BY <1>3, <2>1 DEF InLoop
    <2>3. Popped \in Seq(Frame) /\ FlushCall \in Frame
      BY <1>0, <2>1, PoppedFrames, FlushCallIs DEF Popped
    <2> QED BY <1>2, <2>1, <2>2, <2>3, LoopPush
  <1> QED BY <1>4, <1>5, <1>6, <1>7, <1>8, <1>9 DEF QuietAction

\* So they keep the invariant.
LEMMA QuietCarry ==
  ASSUME IInv, LifeOK, BornOK, ComputeOK, Linked, Covered, QuietAction
  PROVE  Linked' /\ Covered'
  <1>1. UNCHANGED <<subs, dirty, sources, outdated>>
    BY DEF QuietAction, RenderEffect, DeferEffect, Dispose, BatchStart, Untracked, NotifyReturn,
           FlushReturn, BatchEnd, UntrackedReturn, FirstReturn, BodyReturn, history
  <1>2. SubscribersKept /\ MemosKept
    BY <1>1 DEF SubscribersKept, MemosKept, Subscribed
  <1>3. Plain(stack')
    BY PlainStep DEF PlainAction, QuietAction
  <1>4. ASSUME NEW x \in Computations, Must(x)'  PROVE Fresh(x)' \/ Must(x)
    <2>1. CASE x \in Effects /\ Active(x)'
      <3>1. Active(x) \/ Untouched(x)
        BY <2>1, QuietLife DEF BornOK
      <3> QED BY <1>1, <2>1, <3>1 DEF Untouched, Fresh, Must
    <2>2. CASE x \in Memos /\ ~dirty'[x]
      BY <1>1, <2>2 DEF Must
    <2> QED BY <1>3, <1>4, <2>1, <2>2, PlainNotComputing DEF Must
  <1>5. \A x : Waiting(x) => Waiting(x)'
    BY QuietWait
  <1> QED BY <1>1, <1>2, <1>4, <1>5, Carry

\* A write makes outdated whoever has used the signal: all of them hear of it.
LEMMA SetCarry ==
  ASSUME IInv, ComputeOK, Linked, Covered, NEW s \in Signals, Set(s)
  PROVE  Linked' /\ Covered'
  <1>0. TypeOK /\ stack \in Seq(Frame) /\ s \in Sources /\ Memos \subseteq Computations
        /\ outdated \subseteq Computations
    BY DEF IInv, TypeOK, Sources, Computations
  <1>1. /\ stack' = Append(stack, NotifyCall(s)) /\ NotifyCall(s) \in Frame
        /\ outdated' = outdated \cup {x \in Computations : s \in sources[x]}
        /\ UNCHANGED <<subs, dirty, status, pending, sources>>
    BY <1>0, NotifyCallIs DEF Set
  <1>2. SubscribersKept /\ MemosKept
    BY <1>1 DEF SubscribersKept, MemosKept, Subscribed
  <1>3. \A x : Waiting(x) => Waiting(x)'
    BY <1>0, <1>1, LoopPush DEF Waiting, Queued
  <1>4. ASSUME NEW x, Subscribed(x, s)  PROVE Waiting(x)'
    <2>1. InLoops(x, stack', subs)
      BY <1>0, <1>1, <1>4, NotifiedWait, LoopPush
    <2> QED BY <1>1, <2>1 DEF Waiting
  <1>5. Plain(stack')
    BY PlainStep DEF PlainAction
  <1>6. ASSUME NEW x \in Computations, Must(x)'
        PROVE  /\ \A z \in Signals : z \in sources'[x] => Hears(x, z)'
               /\ x \in outdated' => Reached(x)'
    <2>1. Must(x)
      BY <1>1, <1>5, <1>6, PlainNotComputing DEF Must, Active
    <2>2. /\ \A z \in Signals : Hears(x, z) => Hears(x, z)'
          /\ Reached(x) => Reached(x)'
      BY <1>2, <1>3, HearsKept
    <2>3. \A z \in Signals : z \in sources'[x] => Hears(x, z)'
      BY <1>1, <2>1, <2>2 DEF Linked
    <2>4. ASSUME x \in outdated  PROVE Reached(x)'
      BY <2>1, <2>2, <2>4 DEF Covered
    <2>5. ASSUME s \in sources[x]  PROVE Reached(x)'
      <3>1. CASE Waiting(x) \/ Subscribed(x, s)
        BY <1>3, <1>4, <3>1 DEF Reached
      <3>2. ASSUME NEW m \in Memos, ~dirty[m], Subscribed(x, m), s \in sources[m]
            PROVE  Reached(x)'
        <4>1. Subscribed(x, m)'
          BY <1>1, <3>2 DEF Subscribed
        <4>2. ~dirty'[m] /\ m \in outdated'
          BY <1>0, <1>1, <3>2
        <4> QED BY <4>1, <4>2 DEF Reached
      <3>3. Hears(x, s)
        BY <2>1, <2>5 DEF Linked
      <3> QED BY <3>1, <3>2, <3>3 DEF Hears
    <2> QED BY <1>1, <2>3, <2>4, <2>5
  <1> QED BY <1>6 DEF Linked, Covered

-----------------------------------------------------------------------------
(* Reads, and the settled system                                           *)

\* A signal that is read: the reader has subscribed to it.
LEMMA GetCarry ==
  ASSUME IInv, Linked, Covered, NEW s \in Signals, Get(s)
  PROVE  Linked' /\ Covered'
  <1>0. /\ sources \in [Computations -> SUBSET Signals] /\ s \in Sources
        /\ subscriber \in Computations \cup {None}
    BY DEF IInv, TypeOK, Sources
  <1>1. /\ UNCHANGED <<dirty, status, pending, stack, outdated>> /\ Track(s)
        /\ sources' = IF subscriber = None THEN sources
                      ELSE [sources EXCEPT ![subscriber] = @ \cup {s}]
    BY DEF Get
  <1>2. SubscribersKept
    BY <1>0, <1>1, TrackAdds, Zenon DEF SubscribersKept
  <1>3. MemosKept
    <2>1. \A m \in Memos : sources[m] \subseteq sources'[m]
      BY <1>0, <1>1 DEF Computations
    <2> QED BY <1>1, <2>1 DEF MemosKept
  <1>4. ASSUME NEW x \in Computations
        PROVE  /\ Must(x)' => Must(x)
               /\ Waiting(x) => Waiting(x)'
               /\ x # subscriber => sources'[x] = sources[x] /\ (x \in outdated' => x \in outdated)
               /\ x = subscriber => /\ \A z \in Signals : z \in sources'[x] =>
                                         z \in sources[x] \/ Hears(x, z)'
                                    /\ x \in outdated' => x \in outdated \/ Reached(x)'
    <2>1. Must(x)' => Must(x)
      BY <1>1 DEF Must, Active
    <2>2. Waiting(x) => Waiting(x)'
      BY <1>0, <1>1, LoopGrow DEF Waiting, Queued
    <2>3. ASSUME x = subscriber  PROVE Hears(x, s)'
      <3>1. x # None
        BY ReactiveAssumption DEF Computations
      <3>2. Subscribed(x, s)'
        BY <1>0, <1>1, <2>3, <3>1, TrackAdds
      <3> QED BY <3>2 DEF Hears
    <2> QED BY <1>0, <1>1, <2>1, <2>2, <2>3
  <1> QED BY <1>2, <1>3, <1>4, CarryUse

\* So it has to a clean memo that is read.
LEMMA GetCachedCarry ==
  ASSUME IInv, Linked, Covered, NEW m \in Memos, GetCached(m)
  PROVE  Linked' /\ Covered'
  <1>0. /\ sources \in [Computations -> SUBSET Signals] /\ m \in Sources /\ m \in Computations
        /\ subscriber \in Computations \cup {None}
    BY DEF IInv, TypeOK, Sources, Computations
  <1>1. /\ UNCHANGED <<dirty, status, pending, stack>> /\ Track(m) /\ ~dirty[m]
        /\ \/ subscriber = None /\ UNCHANGED <<sources, outdated>>
           \/ /\ sources' = [sources EXCEPT ![subscriber] = @ \cup sources[m]]
              /\ outdated' = IF m \in outdated THEN outdated \cup {subscriber} ELSE outdated
    BY DEF GetCached, Absorb
  <1>2. SubscribersKept
    BY <1>0, <1>1, TrackAdds, Zenon DEF SubscribersKept
  <1>3. \A z \in Memos : sources[z] \subseteq sources'[z] /\ (z \in outdated => z \in outdated')
    BY <1>0, <1>1 DEF Computations
  <1>4. MemosKept
    BY <1>1, <1>3 DEF MemosKept
  <1>5. ASSUME NEW x \in Computations
        PROVE  /\ Must(x)' => Must(x)
               /\ Waiting(x) => Waiting(x)'
               /\ x # subscriber => sources'[x] = sources[x] /\ (x \in outdated' => x \in outdated)
               /\ x = subscriber =>
                    /\ \A z \in Signals : z \in sources'[x] => z \in sources[x] \/ Hears(x, z)'
                    /\ x \in outdated' => x \in outdated \/ Reached(x)'
    <2>1. Must(x)' => Must(x)
      BY <1>1 DEF Must, Active
    <2>2. Waiting(x) => Waiting(x)'
      BY <1>0, <1>1, LoopGrow DEF Waiting, Queued
    <2>3. CASE x = subscriber
      <3>1. x # None
        BY ReactiveAssumption DEF Computations
      <3>2. Subscribed(x, m)' /\ ~dirty'[m]
        BY <1>0, <1>1, <2>3, <3>1, TrackAdds
      <3>3. ASSUME NEW z \in Signals, z \in sources[m]  PROVE Hears(x, z)'
        <4>1. z \in sources'[m]
          BY <1>3, <3>3
        <4> QED BY <3>2, <4>1 DEF Hears
      <3>4. ASSUME x \in outdated', x \notin outdated  PROVE Reached(x)'
        <4>1. m \in outdated /\ m \in outdated'
          BY <1>1, <1>3, <3>4
        <4> QED BY <3>2, <4>1 DEF Reached
      <3>5. sources'[x] \subseteq sources[x] \cup sources[m]
        BY <1>0, <1>1, <2>3
      <3> QED BY <2>1, <2>2, <2>3, <3>3, <3>4, <3>5
    <2>4. CASE x # subscriber
      BY <1>0, <1>1, <2>1, <2>2, <2>4
    <2> QED BY <2>3, <2>4
  <1> QED BY <1>2, <1>4, <1>5, CarryUse

\* A memo that starts to be computed starts over.
LEMMA GetDirtyCarry ==
  ASSUME IInv, Linked, Covered, NEW m \in Memos, GetDirty(m)
  PROVE  Linked' /\ Covered'
  <1>0. /\ TypeOK /\ stack \in Seq(Frame) /\ m \in Sources /\ m \in Computations
        /\ sources \in [Computations -> SUBSET Signals] /\ Memos \subseteq Computations
    BY DEF IInv, TypeOK, Sources, Computations
  <1>1. /\ UNCHANGED <<dirty, status, pending>> /\ Track(m) /\ dirty[m]
        /\ stack' = Append(stack, Call("compute", m))
        /\ Call("compute", m) \in Frame /\ Call("compute", m).of = m
        /\ sources' = [sources EXCEPT ![m] = {}] /\ outdated' = outdated \ {m}
    BY <1>0, CallIs DEF GetDirty, Restart, FrameKinds
  <1>2. SubscribersKept
    BY <1>0, <1>1, TrackAdds, Zenon DEF SubscribersKept
  <1>3. MemosKept
    <2>1. \A z \in Memos : ~dirty[z] => /\ ~dirty'[z] /\ sources[z] \subseteq sources'[z]
                                        /\ z \in outdated => z \in outdated'
      BY <1>0, <1>1
    <2> QED BY <2>1 DEF MemosKept
  <1>4. ASSUME NEW x \in Computations, Must(x)', x # m
        PROVE  /\ Must(x) /\ sources'[x] = sources[x] /\ (x \in outdated' => x \in outdated)
               /\ Waiting(x) => Waiting(x)'
    <2>1. Must(x)
      BY <1>0, <1>1, <1>4, LoopPush DEF Must, Active
    <2>2. Waiting(x) => Waiting(x)'
      <3>1. InLoops(x, stack, subs) => InLoops(x, stack, subs')
        BY <1>0, <1>1, LoopGrow
      <3>2. InLoops(x, stack, subs') => InLoops(x, stack', subs')
        BY <1>0, <1>1, LoopPush
      <3> QED BY <1>1, <3>1, <3>2 DEF Waiting, Queued
    <2> QED BY <1>0, <1>1, <1>4, <2>1, <2>2
  <1>5. Fresh(m)'
    BY <1>0, <1>1 DEF Fresh
  <1> QED BY <1>2, <1>3, <1>4, <1>5, Carry

\* The caller of a memo's function takes over what it used, and subscribes to it.
LEMMA ComputeReturnCarry ==
  ASSUME IInv, ComputeOK, Linked, Covered, ComputeReturn, NEW m, m = Top.of, NEW c, c = Top.prev
  PROVE  Linked' /\ Covered'
  <1>0. /\ stack # <<>> /\ stack \in Seq(Frame) /\ Top.kind = "compute"
        /\ Len(stack) \in 1..Len(stack) /\ Top \in Frame
        /\ sources \in [Computations -> SUBSET Signals] /\ dirty \in [Memos -> BOOLEAN]
        /\ Memos \subseteq Computations
    BY PoppedFrames DEF ComputeReturn, Running, IInv, TypeOK, Top, Computations
  <1>1. m \in Memos /\ c \in Computations \cup {None}
    BY <1>0, InsideMemos DEF Frame
  <1>2. c \in Computations => Subscribed(c, m)
    BY <1>0 DEF ComputeOK, Top
  <1>3. /\ UNCHANGED <<subs, status, pending>> /\ stack' = Popped
        /\ dirty' = [dirty EXCEPT ![m] = FALSE]
        /\ \/ c = None /\ UNCHANGED <<sources, outdated>>
           \/ /\ sources' = [sources EXCEPT ![c] = @ \cup sources[m]]
              /\ outdated' = IF m \in outdated THEN outdated \cup {c} ELSE outdated
    BY DEF ComputeReturn, Absorb
  <1>4. Computing(m, stack)
    BY <1>0 DEF Computing, Top
  <1>5. SubscribersKept
    BY <1>3 DEF SubscribersKept, Subscribed
  <1>6. \A z \in Memos : /\ ~dirty[z] => ~dirty'[z]
                         /\ sources[z] \subseteq sources'[z] /\ (z \in outdated => z \in outdated')
    BY <1>0, <1>1, <1>3
  <1>7. MemosKept
    BY <1>6 DEF MemosKept
  <1>8. ASSUME NEW x \in Computations
        PROVE  /\ Must(x)' => Must(x)
               /\ Waiting(x) => Waiting(x)'
               /\ x # c => sources'[x] = sources[x] /\ (x \in outdated' => x \in outdated)
               /\ x = c =>
                    /\ \A z \in Signals : z \in sources'[x] => z \in sources[x] \/ Hears(x, z)'
                    /\ x \in outdated' => x \in outdated \/ Reached(x)'
    <2>1. Must(x)' => Must(x)
      <3>1. Computing(x, stack') => Computing(x, stack)
        BY <1>0, <1>3, LoopPop DEF Popped
      <3> QED BY <1>0, <1>1, <1>3, <1>4, <3>1 DEF Must, Active
    <2>2. Waiting(x) => Waiting(x)'
      <3>1. InLoops(x, stack, subs) => InLoops(x, stack', subs)
        BY <1>0, <1>3, LoopPop DEF Popped, InLoop, Top
      <3> QED BY <1>3, <3>1 DEF Waiting, Queued
    <2>3. CASE x = c
      <3>1. Subscribed(x, m)' /\ ~dirty'[m]
        BY <1>0, <1>1, <1>2, <1>3, <2>3 DEF Subscribed
      <3>2. ASSUME NEW z \in Signals, z \in sources[m]  PROVE Hears(x, z)'
        <4>1. z \in sources'[m]
          BY <1>1, <1>6, <3>2
        <4> QED BY <1>1, <3>1, <4>1 DEF Hears
      <3>3. ASSUME x \in outdated', x \notin outdated  PROVE Reached(x)'
        <4>1. m \in outdated /\ m \in outdated'
          BY <1>1, <1>3, <1>6, <3>3
        <4> QED BY <1>1, <3>1, <4>1 DEF Reached
      <3>4. sources'[x] \subseteq sources[x] \cup sources[m]
        BY <1>0, <1>3, <2>3
      <3> QED BY <2>1, <2>2, <2>3, <3>2, <3>3, <3>4
    <2>4. CASE x # c
      BY <1>0, <1>3, <2>1, <2>2, <2>4
    <2> QED BY <2>3, <2>4
  <1> QED BY <1>5, <1>7, <1>8, CarryUse

\* The invariant holds at first and is kept.
LEMMA LinkedInit == Init => Linked /\ Covered
  BY DEF Init, Linked, Covered, Computations

LEMMA LinkedStep ==
  IInv /\ LifeOK /\ BornOK /\ ComputeOK /\ Linked /\ Covered /\ [Next]_vars => Linked' /\ Covered'
  <1> SUFFICES ASSUME IInv, LifeOK, BornOK, ComputeOK, Linked, Covered, [Next]_vars
               PROVE  Linked' /\ Covered'
    OBVIOUS
  <1>1. CASE PlainAction
    BY <1>1, SetCarry, NotifyCarry, FlushCarry, MicrotaskCarry, QuietCarry
       DEF PlainAction, QuietAction
  <1>2. CASE UNCHANGED vars
    <2>1. SubscribersKept /\ MemosKept
      BY <1>2 DEF vars, SubscribersKept, MemosKept, Subscribed
    <2>2. \A x : (Must(x)' <=> Must(x)) /\ (Waiting(x)' <=> Waiting(x))
      BY <1>2 DEF vars, Must, Active, Waiting, Queued
    <2> QED BY <1>2, <2>1, <2>2, Carry DEF vars
  <1> QED BY <1>1, <1>2, NextCases, GetCarry, GetCachedCarry, GetDirtyCarry, ComputeReturnCarry

\* At rest nobody waits and no memo is being computed; were there clean memos that are
\* outdated, one of them would read none of the others, and nothing would reach it.
LEMMA SettledAtRest ==
  ASSUME TypeOK, Drained, ReadsOK, Covered
  PROVE  Settled
  <1> SUFFICES ASSUME stack = <<>>
               PROVE  /\ \A e \in Effects : Active(e) => e \notin outdated
                      /\ \A m \in Memos : ~dirty[m] => m \notin outdated
    BY DEF Settled
  <1>1. \A x : ~Waiting(x)
    BY EmptySeq DEF Drained, Waiting, Queued, InLoops
  <1>2. ASSUME NEW x \in Computations, Must(x), x \in outdated
        PROVE  \E m \in Memos : ~dirty[m] /\ Subscribed(x, m) /\ m \in outdated
    BY <1>1, <1>2 DEF Covered, Reached
  <1> DEFINE M == {m \in Memos : ~dirty[m] /\ m \in outdated}
  <1>3. M = {}
    <2> SUFFICES ASSUME M # {}  PROVE FALSE
      OBVIOUS
    <2>1. PICK m \in M : program.reads[m] \cap M = {}
      BY AcyclicAssumption DEF TypeOK
    <2>2. PICK n \in Memos : ~dirty[n] /\ Subscribed(m, n) /\ n \in outdated
      BY <1>2 DEF Must, Computations
    <2>3. n \in program.reads[m] /\ n \in M
      BY <2>2 DEF ReadsOK
    <2> QED BY <2>1, <2>3
  <1> QED BY <1>2, <1>3 DEF Must, Computations

\* Nothing stale survives a propagation, for every program whose memos read one another
\* without a cycle: however writes, batches, runs and recomputations nest, each effect
\* and each cached memo is up to date when control is back with the event loop.
THEOREM PropagationSettles == Spec => []Settled
  <1>1. Spec => [](BornOK /\ ComputeOK /\ ReadsOK /\ Linked /\ Covered)
    BY Invariance, CreatedOnce, BornOKInit, BornOKStep, ComputeOKInit, ComputeOKStep, ReadsOKStep,
       LinkedInit, LinkedStep, PTL DEF Spec
  <1>2. TypeOK /\ Drained /\ ReadsOK /\ Covered => Settled
    BY SettledAtRest
  <1> QED BY <1>1, <1>2, TypeCorrect, ContextRestored, PTL
=============================================================================
