------------------------- MODULE WebComponentProofs -------------------------
(***************************************************************************)
(* Theorems about WebComponent, for any values and any bounds.             *)
(***************************************************************************)
EXTENDS WebComponent, SequenceTheorems, WellFoundedInduction, TLAPS

-----------------------------------------------------------------------------
(* The inductive invariant                                                 *)

Frames == {Notify(rest) : rest \in Seq(Subscribers)} \cup {Body(n) : n \in Setups} \cup {Connecting}

\* A call in progress is about one of the first m runs of setup.
About(c, m) ==
  /\ c.do = "notify" => \A k \in 1..Len(c.rest) : c.rest[k].setup <= m
  /\ c.do = "body" => c.setup <= m

Connects(st) == \E i \in 1..Len(st) : st[i].do = "connect"
Shows(c, n) == c.do = "notify" /\ \E k \in 1..Len(c.rest) : c.rest[k] = Sub("bind", n)
Promises(st, n) == \E i \in 1..Len(st) : Shows(st[i], n)

\* The calls in progress: an insertion has only been interrupted by the subscribers that
\* syncAttributes calls.
Shape(st, m) ==
  /\ st \in Seq(Frames)
  /\ \A i \in 1..Len(st) : About(st[i], m)
  /\ \A i \in 1..Len(st) : st[i].do = "connect" => \A j \in 1..i-1 : st[j].do = "notify"

\* Until an insertion goes on the element is in the document and no setup is in force.
StackOK ==
  /\ Shape(stack, Len(count))
  /\ Connects(stack) => dispose = 0 /\ connected /\ Len(count) < MaxSetups

\* What is alive is the last run of setup, or nothing.
InForce ==
  /\ Len(count) <= MaxSetups
  /\ dispose \in {0, Len(count)}
  /\ dispose # 0 => connected
  /\ live = IF dispose = 0 THEN {} ELSE Undone(dispose)
  /\ handlers = IF dispose = 0 THEN {} ELSE {dispose}

Distinct(subs) == \A i, j \in 1..Len(subs) : subs[i] = subs[j] => i = j

\* Each subscriber is there once, and the subscription of a setup only while it is in force.
FollowersOK ==
  /\ Distinct(followers)
  /\ \A i \in 1..Len(followers) :
       /\ followers[i].setup <= Len(count)
       /\ followers[i].kind = "sync" => followers[i].setup = dispose

\* The signal of the attribute follows it while the element is in the document, and the page
\* shows the count or will be told.
ShownOK ==
  /\ connected => initial = Parse(attribute)
  /\ dispose # 0 => text = count[dispose] \/ Promises(stack, dispose)

IInv == TypeOK /\ StackOK /\ InForce /\ FollowersOK /\ ShownOK

-----------------------------------------------------------------------------
(* Calls and the stack                                                     *)

LEMMA CallFacts ==
  /\ \A rest : Notify(rest).do = "notify" /\ Notify(rest).rest = rest
  /\ \A n : Body(n).do = "body" /\ Body(n).setup = n
  /\ Connecting.do = "connect"
  /\ \A f \in Frames : \/ f.do = "notify" /\ f.rest \in Seq(Subscribers)
                       \/ f.do = "body" /\ f.setup \in Setups
                       \/ f.do = "connect"
  /\ \A rest \in Seq(Subscribers) : Notify(rest) \in Frames
  /\ \A n \in Setups : Body(n) \in Frames
  /\ Connecting \in Frames
  <1>1. \A rest : Notify(rest).do = "notify" /\ Notify(rest).rest = rest
    BY DEF Notify
  <1>2. \A n : Body(n).do = "body" /\ Body(n).setup = n
    BY DEF Body
  <1>3. Connecting.do = "connect"
    BY DEF Connecting
  <1>4. ASSUME NEW f \in Frames
        PROVE  \/ f.do = "notify" /\ f.rest \in Seq(Subscribers)
               \/ f.do = "body" /\ f.setup \in Setups
               \/ f.do = "connect"
    <2>1. CASE \E rest \in Seq(Subscribers) : f = Notify(rest)
      BY <2>1, <1>1
    <2>2. CASE \E n \in Setups : f = Body(n)
      BY <2>2, <1>2
    <2>3. CASE f = Connecting
      BY <2>3, <1>3
    <2> QED BY <2>1, <2>2, <2>3 DEF Frames
  <1>5. /\ \A rest \in Seq(Subscribers) : Notify(rest) \in Frames
        /\ \A n \in Setups : Body(n) \in Frames
        /\ Connecting \in Frames
    BY DEF Frames
  <1> QED BY <1>1, <1>2, <1>3, <1>4, <1>5

LEMMA SubFacts ==
  /\ \A k, n : Sub(k, n).kind = k /\ Sub(k, n).setup = n
  /\ \A k \in {"sync", "watch", "bind"}, n \in Setups : Sub(k, n) \in Subscribers
  /\ \A s \in Subscribers : s = Sub(s.kind, s.setup) /\ s.kind \in {"sync", "watch", "bind"} /\ s.setup \in Setups
  BY DEF Sub, Subscribers

LEMMA PushFacts ==
  ASSUME NEW S, NEW s \in Seq(S), NEW f \in S
  PROVE  LET t == <<f>> \o s IN
           /\ t \in Seq(S) /\ t # <<>> /\ Len(t) = Len(s) + 1 /\ Len(s) \in Nat
           /\ t[1] = f /\ \A i \in 1..Len(s) : t[i+1] = s[i]
  <1>1. /\ <<f>> \in Seq(S) /\ Len(<<f>>) = 1 /\ <<f>>[1] = f /\ Len(s) \in Nat
    OBVIOUS
  <1> DEFINE t == <<f>> \o s
  <1>2. /\ t \in Seq(S) /\ Len(t) = 1 + Len(s)
        /\ \A i \in 1..1+Len(s) : t[i] = IF i <= 1 THEN <<f>>[i] ELSE s[i-1]
    BY <1>1, ConcatProperties
  <1>3. Len(t) # 0
    BY <1>1, <1>2
  <1> HIDE DEF t
  <1>4. t[1] = f /\ \A i \in 1..Len(s) : t[i+1] = s[i]
    BY <1>1, <1>2
  <1>5. t # <<>>
    BY <1>2, <1>3, EmptySeq
  <1> QED BY <1>1, <1>2, <1>4, <1>5 DEF t

LEMMA PopFacts ==
  ASSUME NEW S, NEW s \in Seq(S), s # <<>>
  PROVE  /\ Tail(s) \in Seq(S) /\ Len(s) \in Nat /\ Len(s) >= 1 /\ Len(Tail(s)) = Len(s) - 1
         /\ Head(s) = s[1] /\ Head(s) \in S
         /\ \A i \in 1..Len(s)-1 : Tail(s)[i] = s[i+1]
  BY HeadTailProperties, LenProperties, EmptySeq

LEMMA LeastNatural ==
  ASSUME NEW T \in SUBSET Nat, T # {}
  PROVE  \E x \in T : \A y \in T : x <= y
  <1>1. PICK x \in T : \A y \in T : <<y, x>> \notin OpToRel(<, Nat)
    BY NatLessThanWellFounded, WFMin, Zenon
  <1>2. ASSUME NEW y \in T PROVE x <= y
    <2>1. <<y, x>> \in Nat \X Nat /\ x \in Nat /\ y \in Nat
      OBVIOUS
    <2>2. ~(y < x)
      BY <1>1, <2>1 DEF OpToRel
    <2> QED BY <2>1, <2>2
  <1> QED BY <1>2

\* The effect whose function runs is one of those on the stack.
LEMMA InnermostFacts ==
  ASSUME NEW calls \in Seq(Frames), Running(calls) # {}
  PROVE  \E i \in 1..Len(calls) : calls[i].do = "body" /\ Innermost(calls) = calls[i].setup
  <1>1. Running(calls) \in SUBSET Nat
    BY LenProperties DEF Running
  <1>2. \E n \in Running(calls) : \A m \in Running(calls) : n <= m
    BY <1>1, LeastNatural
  <1> DEFINE at == CHOOSE i \in Running(calls) : \A j \in Running(calls) : i <= j
  <1>3. at \in Running(calls)
    BY <1>2
  <1>4. Innermost(calls) = calls[at].setup
    BY DEF Innermost
  <1> QED BY <1>3, <1>4 DEF Running

\* A call is pushed: a notify on any stack, another call where no insertion is under way.
LEMMA PushShape ==
  ASSUME NEW m \in Nat, NEW st, Shape(st, m), NEW f \in Frames, About(f, m),
         f.do = "notify" \/ ~Connects(st)
  PROVE  /\ Shape(<<f>> \o st, m)
         /\ Connects(<<f>> \o st) <=> f.do = "connect" \/ Connects(st)
         /\ \A n : Promises(<<f>> \o st, n) <=> Shows(f, n) \/ Promises(st, n)
  <1> DEFINE t == <<f>> \o st
  <1>1. st \in Seq(Frames)
    BY DEF Shape
  <1>2. /\ t \in Seq(Frames) /\ Len(t) = Len(st) + 1 /\ Len(st) \in Nat
        /\ t[1] = f /\ \A i \in 1..Len(st) : t[i+1] = st[i]
    BY <1>1, PushFacts
  <1> HIDE DEF t
  <1>3. \A i \in 1..Len(t) : i = 1 \/ (i-1 \in 1..Len(st) /\ t[i] = st[i-1])
    BY <1>2
  <1>4. \A i \in 1..Len(st) : i+1 \in 1..Len(t) /\ t[i+1] = st[i]
    BY <1>2
  <1>5. 1 \in 1..Len(t) /\ t[1] = f
    BY <1>2
  <1>6. \A i \in 1..Len(t) : About(t[i], m)
    BY <1>3, <1>5 DEF Shape
  <1>7. ASSUME NEW i \in 1..Len(t), t[i].do = "connect", NEW j \in 1..i-1
        PROVE  t[j].do = "notify"
    <2>1. i # 1 /\ i-1 \in 1..Len(st) /\ st[i-1].do = "connect" /\ j \in 1..Len(t)
      BY <1>7, <1>3, <1>2
    <2>2. f.do = "notify"
      BY <2>1 DEF Connects
    <2>3. CASE j = 1
      BY <2>3, <2>2, <1>5
    <2>4. CASE j # 1
      <3>1. j-1 \in 1..(i-1)-1 /\ t[j] = st[j-1]
        BY <2>4, <2>1, <1>3, <1>2
      <3> QED BY <3>1, <2>1 DEF Shape
    <2> QED BY <2>3, <2>4
  <1>8. Shape(t, m)
    BY <1>2, <1>6, <1>7 DEF Shape
  <1>9. Connects(t) <=> f.do = "connect" \/ Connects(st)
    BY <1>3, <1>4, <1>5 DEF Connects
  <1>10. ASSUME NEW n PROVE Promises(t, n) <=> Shows(f, n) \/ Promises(st, n)
    <2>1. ASSUME Promises(t, n) PROVE Shows(f, n) \/ Promises(st, n)
      BY <2>1, <1>3, <1>5 DEF Promises
    <2>2. ASSUME Shows(f, n) \/ Promises(st, n) PROVE Promises(t, n)
      BY <2>2, <1>4, <1>5 DEF Promises
    <2> QED BY <2>1, <2>2
  <1> QED BY <1>8, <1>9, <1>10 DEF t

\* The innermost call is popped.
LEMMA PopShape ==
  ASSUME NEW m \in Nat, NEW st, Shape(st, m), st # <<>>
  PROVE  /\ Head(st) \in Frames /\ About(Head(st), m) /\ Shape(Tail(st), m)
         /\ Connects(st) <=> Head(st).do = "connect" \/ Connects(Tail(st))
         /\ Head(st).do # "notify" => ~Connects(Tail(st))
         /\ \A n : Promises(st, n) <=> Shows(Head(st), n) \/ Promises(Tail(st), n)
  <1>1. st \in Seq(Frames)
    BY DEF Shape
  <1> DEFINE t == Tail(st)
             f == Head(st)
  <1>2. /\ t \in Seq(Frames) /\ Len(st) \in Nat /\ Len(st) >= 1 /\ Len(t) = Len(st) - 1
        /\ f = st[1] /\ f \in Frames
        /\ \A i \in 1..Len(st)-1 : t[i] = st[i+1]
    BY <1>1, PopFacts
  <1> HIDE DEF t, f
  <1>3. \A i \in 1..Len(st) : i = 1 \/ (i-1 \in 1..Len(t) /\ st[i] = t[i-1])
    BY <1>2
  <1>4. \A i \in 1..Len(t) : i+1 \in 1..Len(st) /\ st[i+1] = t[i]
    BY <1>2
  <1>5. 1 \in 1..Len(st) /\ st[1] = f
    BY <1>2
  <1>6. About(f, m) /\ \A i \in 1..Len(t) : About(t[i], m)
    BY <1>4, <1>5 DEF Shape
  <1>7. ASSUME NEW i \in 1..Len(t), t[i].do = "connect"
        PROVE  f.do = "notify" /\ \A j \in 1..i-1 : t[j].do = "notify"
    <2>1. i+1 \in 1..Len(st) /\ st[i+1].do = "connect"
      BY <1>7, <1>4
    <2>2. \A j \in 1..i : st[j].do = "notify"
      BY <2>1, <1>2 DEF Shape
    <2>3. \A j \in 1..i-1 : j \in 1..Len(t) /\ j+1 \in 1..i
      BY <1>2
    <2>4. 1 \in 1..i
      BY <1>2
    <2> QED BY <2>2, <2>3, <2>4, <1>4, <1>5
  <1>8. Shape(t, m) /\ (f.do # "notify" => ~Connects(t))
    BY <1>2, <1>6, <1>7 DEF Shape, Connects
  <1>9. Connects(st) <=> f.do = "connect" \/ Connects(t)
    BY <1>3, <1>4, <1>5 DEF Connects
  <1>10. ASSUME NEW n PROVE Promises(st, n) <=> Shows(f, n) \/ Promises(t, n)
    <2>1. ASSUME Promises(st, n) PROVE Shows(f, n) \/ Promises(t, n)
      BY <2>1, <1>3, <1>5 DEF Promises
    <2>2. ASSUME Shows(f, n) \/ Promises(t, n) PROVE Promises(st, n)
      BY <2>2, <1>4, <1>5 DEF Promises
    <2> QED BY <2>1, <2>2
  <1> QED BY <1>2, <1>6, <1>8, <1>9, <1>10 DEF t, f

-----------------------------------------------------------------------------
(* The subscribers                                                         *)

LEMMA AppendDistinct ==
  ASSUME NEW S, NEW subs \in Seq(S), NEW sub \in S, Distinct(subs), \A i \in 1..Len(subs) : subs[i] # sub
  PROVE  /\ Append(subs, sub) \in Seq(S) /\ Distinct(Append(subs, sub))
         /\ \A i \in 1..Len(Append(subs, sub)) :
              Append(subs, sub)[i] = sub \/ \E k \in 1..Len(subs) : Append(subs, sub)[i] = subs[k]
  <1> DEFINE t == Append(subs, sub)
  <1>1. /\ t \in Seq(S) /\ Len(subs) \in Nat /\ Len(t) = Len(subs) + 1
        /\ \A i \in 1..Len(subs) : t[i] = subs[i]
        /\ t[Len(subs) + 1] = sub
    BY AppendProperties, LenProperties
  <1> HIDE DEF t
  <1>2. \A i \in 1..Len(t) : \/ i = Len(subs) + 1 /\ t[i] = sub
                             \/ i \in 1..Len(subs) /\ t[i] = subs[i]
    BY <1>1
  <1>3. Distinct(t)
    BY <1>2 DEF Distinct
  <1> QED BY <1>1, <1>2, <1>3 DEF t

LEMMA AddFacts ==
  ASSUME NEW S, NEW subs \in Seq(S), NEW sub \in S, Distinct(subs)
  PROVE  /\ Add(subs, sub) \in Seq(S) /\ Distinct(Add(subs, sub))
         /\ \A i \in 1..Len(Add(subs, sub)) :
              Add(subs, sub)[i] = sub \/ \E k \in 1..Len(subs) : Add(subs, sub)[i] = subs[k]
  <1>1. CASE \E i \in 1..Len(subs) : subs[i] = sub
    <2>1. Add(subs, sub) = subs
      BY <1>1 DEF Add
    <2> QED BY <2>1
  <1>2. CASE ~\E i \in 1..Len(subs) : subs[i] = sub
    <2>1. Add(subs, sub) = Append(subs, sub)
      BY <1>2 DEF Add
    <2> QED BY <2>1, <1>2, AppendDistinct
  <1> QED BY <1>1, <1>2

LEMMA WithoutFacts ==
  ASSUME NEW S, NEW subs \in Seq(S), NEW sub, Distinct(subs)
  PROVE  /\ Without(subs, sub) \in Seq(S) /\ Distinct(Without(subs, sub))
         /\ \A i \in 1..Len(Without(subs, sub)) :
              /\ Without(subs, sub)[i] # sub
              /\ \E k \in 1..Len(subs) : Without(subs, sub)[i] = subs[k]
  <1>1. CASE \E i \in 1..Len(subs) : subs[i] = sub
    <2> DEFINE at == CHOOSE i \in 1..Len(subs) : subs[i] = sub
               left == SubSeq(subs, 1, at - 1)
               right == SubSeq(subs, at + 1, Len(subs))
               t == left \o right
    <2>1. at \in 1..Len(subs) /\ subs[at] = sub /\ Len(subs) \in Nat
      BY <1>1, LenProperties
    <2>2. Without(subs, sub) = t
      BY <1>1 DEF Without
    <2> HIDE DEF at
    <2>3. left \in Seq(S) /\ Len(left) = at - 1 /\ \A i \in 1..at-1 : left[i] = subs[i]
      BY <2>1, SubSeqProperties
    <2>4. /\ right \in Seq(S) /\ Len(right) = Len(subs) - at
          /\ \A i \in 1..Len(subs)-at : right[i] = subs[at+i]
      BY <2>1, SubSeqProperties
    <2> HIDE DEF left, right
    <2>5. /\ t \in Seq(S) /\ Len(t) = Len(subs) - 1
          /\ \A i \in 1..Len(subs)-1 : t[i] = IF i <= at-1 THEN left[i] ELSE right[i-(at-1)]
      BY <2>1, <2>3, <2>4, ConcatProperties
    <2> HIDE DEF t
    <2>6. ASSUME NEW i \in 1..Len(t)
          PROVE  \/ i < at /\ t[i] = subs[i]
                 \/ i >= at /\ t[i] = subs[i+1]
      <3>1. CASE i <= at-1
        BY <3>1, <2>1, <2>3, <2>5
      <3>2. CASE i > at-1
        <4>1. t[i] = right[i-(at-1)] /\ i-(at-1) \in 1..Len(subs)-at
          BY <3>2, <2>1, <2>5
        <4>2. t[i] = subs[at+(i-(at-1))]
          BY <4>1, <2>4
        <4>3. at+(i-(at-1)) = i+1
          BY <2>1
        <4> QED BY <4>2, <4>3, <3>2, <2>1
      <3> QED BY <3>1, <3>2, <2>1
    <2>7. ASSUME NEW i \in 1..Len(t)
          PROVE  \E k \in 1..Len(subs) : t[i] = subs[k] /\ t[i] # sub
      <3>1. CASE i < at /\ t[i] = subs[i]
        <4>1. i \in 1..Len(subs) /\ i # at
          BY <3>1, <2>1
        <4> QED BY <3>1, <4>1, <2>1 DEF Distinct
      <3>2. CASE i >= at /\ t[i] = subs[i+1]
        <4>1. i+1 \in 1..Len(subs) /\ i+1 # at
          BY <3>2, <2>1, <2>5
        <4> QED BY <3>2, <4>1, <2>1 DEF Distinct
      <3> QED BY <3>1, <3>2, <2>6
    <2>8. ASSUME NEW i \in 1..Len(t), NEW j \in 1..Len(t), t[i] = t[j]
          PROVE  i = j
      <3> DEFINE old(k) == IF k < at THEN k ELSE k+1
      <3>1. \A k \in 1..Len(t) : old(k) \in 1..Len(subs) /\ t[k] = subs[old(k)]
        BY <2>1, <2>5, <2>6
      <3>2. old(i) = old(j)
        BY <3>1, <2>8 DEF Distinct
      <3> QED BY <3>2, <2>1, <2>5
    <2> QED BY <2>2, <2>5, <2>7, <2>8 DEF Distinct
  <1>2. CASE ~\E i \in 1..Len(subs) : subs[i] = sub
    <2>1. Without(subs, sub) = subs
      BY <1>2 DEF Without
    <2> QED BY <2>1, <1>2
  <1> QED BY <1>1, <1>2

\* Reading a signal inside the function of an effect.
LEMMA FollowedFacts ==
  ASSUME TypeOK, StackOK, FollowersOK
  PROVE  /\ Followed(stack) \in Seq(Subscribers) /\ Distinct(Followed(stack))
         /\ \A i \in 1..Len(Followed(stack)) :
              /\ Followed(stack)[i].setup <= Len(count)
              /\ Followed(stack)[i].kind = "sync" => Followed(stack)[i].setup = dispose
  <1>1. followers \in Seq(Subscribers) /\ Distinct(followers)
    BY DEF TypeOK, FollowersOK, Distinct
  <1>2. CASE Running(stack) = {}
    <2>1. Followed(stack) = followers
      BY <1>2 DEF Followed
    <2> QED BY <2>1, <1>1 DEF FollowersOK
  <1>3. CASE Running(stack) # {}
    <2>1. stack \in Seq(Frames)
      BY DEF StackOK, Shape
    <2>2. PICK i \in 1..Len(stack) : stack[i].do = "body" /\ Innermost(stack) = stack[i].setup
      BY <1>3, <2>1, InnermostFacts
    <2>3. stack[i] \in Frames /\ About(stack[i], Len(count))
      BY <2>1, ElementOfSeq DEF StackOK, Shape
    <2>4. Innermost(stack) \in Setups /\ Innermost(stack) <= Len(count)
      BY <2>2, <2>3, CallFacts DEF About
    <2> DEFINE sub == Sub("watch", Innermost(stack))
    <2>5. sub \in Subscribers /\ sub.setup = Innermost(stack) /\ sub.kind = "watch"
      BY <2>4, SubFacts
    <2>6. Followed(stack) = Add(followers, sub)
      BY <1>3 DEF Followed
    <2> HIDE DEF sub
    <2>7. /\ Add(followers, sub) \in Seq(Subscribers) /\ Distinct(Add(followers, sub))
          /\ \A k \in 1..Len(Add(followers, sub)) :
               Add(followers, sub)[k] = sub \/ \E l \in 1..Len(followers) : Add(followers, sub)[k] = followers[l]
      BY <1>1, <2>5, AddFacts
    <2> QED BY <2>4, <2>5, <2>6, <2>7 DEF FollowersOK
  <1> QED BY <1>2, <1>3

-----------------------------------------------------------------------------
(* Writes                                                                  *)

\* A write of the count: a value that is not shown yet is promised.
LEMMA SetCountFacts ==
  ASSUME NEW n, NEW v \in Values, NEW rest, count \in Seq(Values), Len(count) <= MaxSetups,
         n \in 1..Len(count), Shape(rest, Len(count)), SetCount(n, v, rest), WebComponentAssumption
  PROVE  /\ count' \in Seq(Values) /\ Len(count') = Len(count)
         /\ Shape(stack', Len(count)) /\ (Connects(stack') <=> Connects(rest))
         /\ \A k : Promises(rest, k) => Promises(stack', k)
         /\ \A k \in 1..Len(count) : count'[k] = count[k] \/ Promises(stack', k)
  <1>1. Len(count) \in Nat /\ n \in Setups /\ MaxSetups \in Nat
    BY LenProperties DEF Setups, WebComponentAssumption
  <1>2. /\ count' \in Seq(Values) /\ Len(count') = Len(count)
        /\ count'[n] = v /\ \A k \in 1..Len(count) : k # n => count'[k] = count[k]
    BY ExceptSeq DEF SetCount
  <1>3. CASE v = count[n]
    <2>1. stack' = rest
      BY <1>3 DEF SetCount
    <2> QED BY <2>1, <1>2, <1>3
  <1>4. CASE v # count[n]
    <2> DEFINE subs == <<Sub("watch", n), Sub("bind", n)>>
               f == Notify(subs)
    <2>1. stack' = <<f>> \o rest
      BY <1>4 DEF SetCount
    <2>2. Sub("watch", n) \in Subscribers /\ Sub("bind", n) \in Subscribers
      BY <1>1, SubFacts
    <2>3. /\ subs \in Seq(Subscribers) /\ Len(subs) = 2
          /\ subs[1] = Sub("watch", n) /\ subs[2] = Sub("bind", n)
      BY <2>2
    <2> HIDE DEF subs
    <2>4. f \in Frames /\ f.do = "notify" /\ f.rest = subs
      BY <2>3, CallFacts
    <2> HIDE DEF f
    <2>5. About(f, Len(count)) /\ Shows(f, n)
      <3>0. Len(f.rest) = 2 /\ f.rest[1] = Sub("watch", n) /\ f.rest[2] = Sub("bind", n)
        BY <2>3, <2>4, Zenon
      <3>1. \A k \in 1..Len(f.rest) : k = 1 \/ k = 2
        BY <3>0
      <3>2. \A k \in 1..Len(f.rest) : f.rest[k].setup = n
        BY <3>0, <3>1, SubFacts
      <3>3. About(f, Len(count))
        BY <3>2, <2>4, <1>1 DEF About
      <3>4. 2 \in 1..Len(f.rest) /\ f.rest[2] = Sub("bind", n)
        BY <3>0
      <3> QED BY <3>3, <3>4, <2>4 DEF Shows
    <2>6. /\ Shape(stack', Len(count)) /\ (Connects(stack') <=> f.do = "connect" \/ Connects(rest))
          /\ \A k : Promises(stack', k) <=> Shows(f, k) \/ Promises(rest, k)
      BY <2>1, <2>4, <2>5, <1>1, PushShape
    <2> QED BY <2>4, <2>5, <2>6, <1>2
  <1> QED BY <1>3, <1>4

\* A write of the signal of the attribute calls subscribers of the setups so far.
LEMMA SetInitialFacts ==
  ASSUME NEW v, NEW rest, TypeOK, FollowersOK, Shape(rest, Len(count)), SetInitial(v, rest)
  PROVE  /\ initial' = v
         /\ Shape(stack', Len(count)) /\ (Connects(stack') <=> Connects(rest))
         /\ \A k : Promises(rest, k) => Promises(stack', k)
  <1>1. initial' = v
    BY DEF SetInitial
  <1>2. CASE v = initial
    <2>1. stack' = rest
      BY <1>2 DEF SetInitial
    <2> QED BY <2>1, <1>1
  <1>3. CASE v # initial
    <2> DEFINE f == Notify(followers)
    <2>1. stack' = <<f>> \o rest
      BY <1>3 DEF SetInitial
    <2>2. f \in Frames /\ f.do = "notify" /\ f.rest = followers
      BY CallFacts DEF TypeOK
    <2> HIDE DEF f
    <2>3. About(f, Len(count)) /\ Len(count) \in Nat
      BY <2>2, LenProperties DEF About, FollowersOK, TypeOK
    <2>4. /\ Shape(stack', Len(count)) /\ (Connects(stack') <=> f.do = "connect" \/ Connects(rest))
          /\ \A k : Promises(stack', k) <=> Shows(f, k) \/ Promises(rest, k)
      BY <2>1, <2>2, <2>3, PushShape
    <2> QED BY <2>2, <2>4, <1>1
  <1> QED BY <1>2, <1>3

\* The next subscriber is taken off the innermost notify.
LEMMA AfterFacts ==
  ASSUME TypeOK, StackOK, Top("notify"), Head(stack).rest # <<>>
  PROVE  LET rest == Head(stack).rest
             sub == Head(rest)
             after == <<Notify(Tail(rest))>> \o Tail(stack)
         IN  /\ sub \in Subscribers /\ sub.setup <= Len(count)
             /\ Shape(after, Len(count)) /\ (Connects(after) <=> Connects(stack))
             /\ \A k : Promises(stack, k) => sub = Sub("bind", k) \/ Promises(after, k)
  <1> DEFINE rest == Head(stack).rest
             sub == Head(rest)
             f == Notify(Tail(rest))
  <1>1. Len(count) \in Nat /\ Shape(stack, Len(count)) /\ stack # <<>> /\ Head(stack).do = "notify"
    BY LenProperties DEF TypeOK, StackOK, Top
  <1>2. /\ Head(stack) \in Frames /\ About(Head(stack), Len(count)) /\ Shape(Tail(stack), Len(count))
        /\ Connects(stack) <=> Head(stack).do = "connect" \/ Connects(Tail(stack))
        /\ \A k : Promises(stack, k) <=> Shows(Head(stack), k) \/ Promises(Tail(stack), k)
    BY <1>1, PopShape
  <1>3. rest \in Seq(Subscribers) /\ rest # <<>> /\ \A k \in 1..Len(rest) : rest[k].setup <= Len(count)
    BY <1>1, <1>2, CallFacts DEF About
  <1>4. \A k : Shows(Head(stack), k) <=> \E i \in 1..Len(rest) : rest[i] = Sub("bind", k)
    BY <1>1 DEF Shows
  <1> HIDE DEF rest
  <1>5. /\ Tail(rest) \in Seq(Subscribers) /\ Len(rest) \in Nat /\ Len(rest) >= 1
        /\ Len(Tail(rest)) = Len(rest) - 1 /\ sub = rest[1] /\ sub \in Subscribers
        /\ \A i \in 1..Len(rest)-1 : Tail(rest)[i] = rest[i+1]
    BY <1>3, PopFacts
  <1> HIDE DEF sub
  <1>6. f \in Frames /\ f.do = "notify" /\ f.rest = Tail(rest)
    BY <1>5, CallFacts
  <1> HIDE DEF f
  <1>7. \A i \in 1..Len(rest)-1 : i+1 \in 1..Len(rest)
    BY <1>5
  <1>8. About(f, Len(count))
    BY <1>3, <1>5, <1>6, <1>7 DEF About
  <1>9. sub.setup <= Len(count)
    BY <1>3, <1>5
  <1>10. ASSUME NEW k, Shows(Head(stack), k) PROVE sub = Sub("bind", k) \/ Shows(f, k)
    <2>1. PICK i \in 1..Len(rest) : rest[i] = Sub("bind", k)
      BY <1>4, <1>10
    <2>2. CASE i = 1
      BY <2>1, <2>2, <1>5
    <2>3. CASE i # 1
      <3>1. i-1 \in 1..Len(rest)-1 /\ Tail(rest)[i-1] = rest[i]
        BY <2>3, <1>5
      <3> QED BY <3>1, <2>1, <1>5, <1>6 DEF Shows
    <2> QED BY <2>2, <2>3
  <1> DEFINE after == <<f>> \o Tail(stack)
  <1>11. /\ Shape(after, Len(count)) /\ (Connects(after) <=> f.do = "connect" \/ Connects(Tail(stack)))
         /\ \A k : Promises(after, k) <=> Shows(f, k) \/ Promises(Tail(stack), k)
    BY <1>1, <1>2, <1>6, <1>8, PushShape
  <1> HIDE DEF after
  <1>12. Connects(after) <=> Connects(stack)
    BY <1>1, <1>2, <1>6, <1>11
  <1>13. \A k : Promises(stack, k) => sub = Sub("bind", k) \/ Promises(after, k)
    BY <1>2, <1>10, <1>11
  <1> QED BY <1>5, <1>9, <1>11, <1>12, <1>13 DEF after, f, sub, rest

-----------------------------------------------------------------------------
(* The steps                                                               *)

LEMMA Counted ==
  ASSUME IInv
  PROVE  /\ Len(count) \in Nat /\ MaxSetups \in Nat /\ Shape(stack, Len(count))
         /\ 1..Len(count) \subseteq Setups
         /\ dispose # 0 => dispose = Len(count) /\ dispose \in 1..Len(count)
  <1>1. Len(count) \in Nat /\ MaxSetups \in Nat /\ Shape(stack, Len(count)) /\ Len(count) <= MaxSetups
    BY WebComponentAssumption, LenProperties DEF IInv, TypeOK, StackOK, InForce, WebComponentAssumption
  <1>2. 1..Len(count) \subseteq Setups
    BY <1>1 DEF Setups
  <1>3. dispose # 0 => dispose = Len(count) /\ dispose \in 1..Len(count)
    BY <1>1 DEF IInv, InForce
  <1> QED BY <1>1, <1>2, <1>3

\* The element is not used while it is being inserted.
LEMMA FreeFacts ==
  ASSUME IInv, Free
  PROVE  ~Connects(stack)
  <1>1. CASE stack = <<>>
    <2>1. 1..0 = {}
      OBVIOUS
    <2> QED BY <1>1, <2>1, EmptySeq DEF Connects
  <1>2. CASE Top("body")
    <2>1. stack # <<>> /\ Head(stack).do = "body"
      BY <1>2 DEF Top
    <2> QED BY <2>1, Counted, PopShape
  <1> QED BY <1>1, <1>2 DEF Free

\* The type of the stack is its shape.
LEMMA ShapeType ==
  ASSUME NEW m, NEW st, Shape(st, m)
  PROVE  \A i \in 1..Len(st) : st[i].do \in {"notify", "body", "connect"}
  <1> SUFFICES ASSUME NEW i \in 1..Len(st) PROVE st[i].do \in {"notify", "body", "connect"}
    OBVIOUS
  <1>1. st[i] \in Frames
    BY ElementOfSeq DEF Shape
  <1> QED BY <1>1, CallFacts

LEMMA InitStep ==
  ASSUME Init
  PROVE  IInv
  <1>1. /\ <<>> \in Seq(Frames) /\ <<>> \in Seq(Subscribers) /\ <<>> \in Seq(Values)
        /\ Len(<<>>) = 0
    BY EmptySeq
  <1>2. 1..0 = {}
    OBVIOUS
  <1>3. TypeOK
    <2>1. /\ rooted \in BOOLEAN /\ connected \in BOOLEAN /\ shadow \in Modes
          /\ attribute \in Values \cup {None} /\ initial \in Values /\ text \in Values \cup {None}
          /\ live \subseteq Subscribers /\ handlers \subseteq Setups
      BY WebComponentAssumption, Zenon DEF Init, WebComponentAssumption
    <2>2. dispose \in 0..MaxSetups /\ uses \in 0..MaxUses
      BY WebComponentAssumption DEF Init, WebComponentAssumption
    <2>3. followers \in Seq(Subscribers) /\ count \in Seq(Values) /\ 1..Len(stack) = {}
      BY <1>1, <1>2 DEF Init
    <2> QED BY <2>1, <2>2, <2>3 DEF TypeOK
  <1>4. StackOK
    BY <1>1, <1>2 DEF Init, StackOK, Shape, Connects
  <1>5. InForce
    BY <1>1, WebComponentAssumption DEF Init, InForce, WebComponentAssumption
  <1>6. FollowersOK
    BY <1>1, <1>2 DEF Init, FollowersOK, Distinct
  <1>7. ShownOK
    BY DEF Init, ShownOK
  <1> QED BY <1>3, <1>4, <1>5, <1>6, <1>7 DEF IInv

\* The next subscriber is called.
LEMMA StepStep ==
  ASSUME IInv, Step
  PROVE  IInv'
  <1> DEFINE rest == Head(stack).rest
             sub == Head(rest)
             after == <<Notify(Tail(rest))>> \o Tail(stack)
  <1>1. /\ Top("notify") /\ rest # <<>>
        /\ UNCHANGED <<shadow, rooted, attribute, connected, dispose, initial, live, handlers, uses>>
    BY DEF Step, element
  <1>2. /\ TypeOK /\ StackOK /\ InForce /\ FollowersOK /\ ShownOK
        /\ Len(count) \in Nat /\ MaxSetups \in Nat /\ Shape(stack, Len(count))
        /\ dispose # 0 => dispose = Len(count) /\ dispose \in 1..Len(count)
    BY Counted DEF IInv
  <1>3. /\ sub \in Subscribers /\ sub.setup <= Len(count)
        /\ Shape(after, Len(count)) /\ (Connects(after) <=> Connects(stack))
        /\ \A k : Promises(stack, k) => sub = Sub("bind", k) \/ Promises(after, k)
    BY <1>1, <1>2, AfterFacts
  <1>4. CASE ~Runs(sub) /\ stack' = after /\ UNCHANGED <<followers, count, text>>
    <2>1. TypeOK'
      BY <1>1, <1>2, <1>3, <1>4, ShapeType DEF TypeOK
    <2>2. StackOK'
      BY <1>1, <1>2, <1>3, <1>4 DEF StackOK
    <2>3. InForce' /\ FollowersOK'
      BY <1>1, <1>2, <1>4 DEF InForce, FollowersOK
    <2>4. dispose # 0 => sub # Sub("bind", dispose)
      BY <1>2, <1>4 DEF Runs, InForce, Undone
    <2>5. ShownOK'
      BY <1>1, <1>2, <1>3, <1>4, <2>4 DEF ShownOK
    <2> QED BY <2>1, <2>2, <2>3, <2>5 DEF IInv
  <1>5. CASE /\ sub.kind = "sync" /\ SetCount(sub.setup, initial, after)
             /\ followers' = Followed(stack) /\ UNCHANGED text
    <2>1. sub.setup \in 1..Len(count) /\ initial \in Values
      BY <1>2, <1>3, SubFacts, WebComponentAssumption DEF Setups, TypeOK
    <2>2. /\ count' \in Seq(Values) /\ Len(count') = Len(count)
          /\ Shape(stack', Len(count)) /\ (Connects(stack') <=> Connects(after))
          /\ \A k : Promises(after, k) => Promises(stack', k)
          /\ \A k \in 1..Len(count) : count'[k] = count[k] \/ Promises(stack', k)
      BY <1>2, <1>3, <1>5, <2>1, SetCountFacts, WebComponentAssumption DEF TypeOK, InForce
    <2>3. /\ followers' \in Seq(Subscribers) /\ Distinct(followers')
          /\ \A i \in 1..Len(followers') :
               /\ followers'[i].setup <= Len(count)
               /\ followers'[i].kind = "sync" => followers'[i].setup = dispose
      BY <1>2, <1>5, FollowedFacts
    <2>4. TypeOK'
      BY <1>1, <1>2, <1>5, <2>2, <2>3, ShapeType DEF TypeOK
    <2>5. StackOK'
      BY <1>1, <1>2, <1>3, <2>2 DEF StackOK
    <2>6. InForce' /\ FollowersOK'
      BY <1>1, <1>2, <2>2, <2>3 DEF InForce, FollowersOK
    <2>7. \A k : sub # Sub("bind", k)
      BY <1>5, SubFacts
    <2>8. ShownOK'
      BY <1>1, <1>2, <1>3, <1>5, <2>2, <2>7 DEF ShownOK
    <2> QED BY <2>4, <2>5, <2>6, <2>8 DEF IInv
  <1>6. CASE /\ Runs(sub) /\ sub.kind = "watch"
             /\ stack' = <<Body(sub.setup)>> \o after /\ UNCHANGED <<followers, count, text>>
    <2> DEFINE f == Body(sub.setup)
    <2>1. f \in Frames /\ f.do = "body" /\ f.setup = sub.setup
      BY <1>3, CallFacts, SubFacts
    <2> HIDE DEF f
    <2>2. About(f, Len(count))
      BY <1>3, <2>1 DEF About
    <2>3. dispose # 0
      BY <1>2, <1>6 DEF Runs, InForce
    <2>4. ~Connects(after)
      BY <1>2, <1>3, <2>3 DEF StackOK
    <2>5. /\ Shape(stack', Len(count)) /\ ~Connects(stack')
          /\ \A k : Promises(after, k) => Promises(stack', k)
      BY <1>2, <1>3, <1>6, <2>1, <2>2, <2>4, PushShape DEF f
    <2>6. TypeOK'
      BY <1>1, <1>2, <1>6, <2>5, ShapeType DEF TypeOK
    <2>7. StackOK'
      BY <1>6, <2>5 DEF StackOK
    <2>8. InForce' /\ FollowersOK'
      BY <1>1, <1>2, <1>6 DEF InForce, FollowersOK
    <2>9. \A k : sub # Sub("bind", k)
      BY <1>6, SubFacts
    <2>10. ShownOK'
      BY <1>1, <1>2, <1>3, <1>6, <2>5, <2>9 DEF ShownOK
    <2> QED BY <2>6, <2>7, <2>8, <2>10 DEF IInv
  <1>7. CASE /\ Runs(sub) /\ sub.kind = "bind"
             /\ text' = count[sub.setup] /\ stack' = after /\ UNCHANGED <<followers, count>>
    <2>1. dispose # 0 /\ sub.setup = dispose
      BY <1>2, <1>7, SubFacts DEF Runs, InForce, Undone
    <2>2. text' \in Values
      BY <1>2, <1>7, <2>1, ElementOfSeq DEF TypeOK
    <2>3. TypeOK'
      BY <1>1, <1>2, <1>3, <1>7, <2>2, ShapeType DEF TypeOK
    <2>4. StackOK'
      BY <1>1, <1>2, <1>3, <1>7 DEF StackOK
    <2>5. InForce' /\ FollowersOK'
      BY <1>1, <1>2, <1>7 DEF InForce, FollowersOK
    <2>6. ShownOK'
      BY <1>1, <1>2, <1>7, <2>1 DEF ShownOK
    <2> QED BY <2>3, <2>4, <2>5, <2>6 DEF IInv
  <1>8. \/ ~Runs(sub) /\ stack' = after /\ UNCHANGED <<followers, count, text>>
        \/ /\ sub.kind = "sync" /\ SetCount(sub.setup, initial, after)
           /\ followers' = Followed(stack) /\ UNCHANGED text
        \/ /\ Runs(sub) /\ sub.kind = "watch"
           /\ stack' = <<Body(sub.setup)>> \o after /\ UNCHANGED <<followers, count, text>>
        \/ /\ Runs(sub) /\ sub.kind = "bind"
           /\ text' = count[sub.setup] /\ stack' = after /\ UNCHANGED <<followers, count>>
    <2>1. sub.kind \in {"sync", "watch", "bind"}
      BY <1>3, SubFacts
    <2> QED BY <2>1 DEF Step
  <1> QED BY <1>4, <1>5, <1>6, <1>7, <1>8

\* A call returns, and it had nobody left to tell.
LEMMA ReturnStep ==
  ASSUME IInv, Return
  PROVE  IInv'
  <1>1. /\ TypeOK /\ StackOK /\ InForce /\ FollowersOK /\ ShownOK
        /\ Len(count) \in Nat /\ Shape(stack, Len(count))
    BY Counted DEF IInv
  <1>2. /\ stack # <<>> /\ stack' = Tail(stack)
        /\ (Head(stack).do = "notify" /\ Head(stack).rest = <<>>) \/ Head(stack).do = "body"
        /\ UNCHANGED <<shadow, rooted, attribute, connected, dispose, initial, followers, count, live, handlers, text, uses>>
    BY DEF Return, Top, element
  <1>3. /\ Shape(stack', Len(count)) /\ (Connects(stack') => Connects(stack))
        /\ \A k : Promises(stack, k) <=> Shows(Head(stack), k) \/ Promises(stack', k)
    BY <1>1, <1>2, PopShape
  <1>4. ASSUME NEW k PROVE ~Shows(Head(stack), k)
    <2>1. 1..0 = {}
      OBVIOUS
    <2> QED BY <1>2, <2>1, EmptySeq DEF Shows
  <1>5. TypeOK'
    BY <1>1, <1>2, <1>3, ShapeType DEF TypeOK
  <1>6. StackOK'
    BY <1>1, <1>2, <1>3 DEF StackOK
  <1>7. InForce' /\ FollowersOK'
    BY <1>1, <1>2 DEF InForce, FollowersOK
  <1>8. ShownOK'
    BY <1>1, <1>2, <1>3, <1>4 DEF ShownOK
  <1> QED BY <1>5, <1>6, <1>7, <1>8 DEF IInv

\* A click counts on the setup in force.
LEMMA ClickStep ==
  ASSUME IInv, Click
  PROVE  IInv'
  <1>1. /\ TypeOK /\ StackOK /\ InForce /\ FollowersOK /\ ShownOK
        /\ Len(count) \in Nat /\ Shape(stack, Len(count))
        /\ dispose # 0 => dispose = Len(count) /\ dispose \in 1..Len(count)
    BY Counted DEF IInv
  <1>2. /\ uses < MaxUses /\ uses' = uses + 1
        /\ UNCHANGED <<shadow, rooted, attribute, connected, dispose, initial, followers, live, handlers, text>>
    BY DEF Click, Use, element
  <1>3. PICK n \in handlers, v \in Values : SetCount(n, v, stack)
    BY DEF Click
  <1>4. n = dispose /\ dispose # 0
    BY <1>1, <1>3 DEF InForce
  <1>5. /\ count' \in Seq(Values) /\ Len(count') = Len(count)
        /\ Shape(stack', Len(count)) /\ (Connects(stack') <=> Connects(stack))
        /\ \A k : Promises(stack, k) => Promises(stack', k)
        /\ \A k \in 1..Len(count) : count'[k] = count[k] \/ Promises(stack', k)
    BY <1>1, <1>3, <1>4, SetCountFacts, WebComponentAssumption DEF TypeOK, InForce
  <1>6. uses' \in 0..MaxUses
    BY <1>1, <1>2, WebComponentAssumption DEF TypeOK, WebComponentAssumption
  <1>7. TypeOK'
    BY <1>1, <1>2, <1>5, <1>6, ShapeType DEF TypeOK
  <1>8. StackOK'
    BY <1>1, <1>2, <1>5 DEF StackOK
  <1>9. InForce' /\ FollowersOK'
    BY <1>1, <1>2, <1>5 DEF InForce, FollowersOK
  <1>10. ShownOK'
    BY <1>1, <1>2, <1>5 DEF ShownOK
  <1> QED BY <1>7, <1>8, <1>9, <1>10 DEF IInv

LEMMA ParseType ==
  ASSUME NEW v \in Values \cup {None}
  PROVE  Parse(v) \in Values
  BY WebComponentAssumption DEF Parse, WebComponentAssumption

\* The signal follows the attribute if the element is in the document.
LEMMA SetAttributeStep ==
  ASSUME IInv, NEW v \in Values \cup {None}, SetAttribute(v)
  PROVE  IInv'
  <1>1. /\ TypeOK /\ StackOK /\ InForce /\ FollowersOK /\ ShownOK
        /\ Len(count) \in Nat /\ Shape(stack, Len(count))
    BY Counted DEF IInv
  <1>2. /\ uses < MaxUses /\ uses' = uses + 1 /\ attribute' = v
        /\ UNCHANGED <<shadow, rooted, connected, dispose, followers, count, live, handlers, text>>
    BY DEF SetAttribute, Use
  <1>3. \/ connected /\ SetInitial(Parse(v), stack)
        \/ ~connected /\ UNCHANGED <<initial, stack>>
    BY DEF SetAttribute, Heard
  <1>4. /\ Shape(stack', Len(count)) /\ (Connects(stack') <=> Connects(stack))
        /\ \A k : Promises(stack, k) => Promises(stack', k)
        /\ initial' = IF connected THEN Parse(v) ELSE initial
    <2>1. CASE connected /\ SetInitial(Parse(v), stack)
      BY <1>1, <2>1, SetInitialFacts
    <2>2. CASE ~connected /\ UNCHANGED <<initial, stack>>
      BY <1>1, <2>2
    <2> QED BY <1>3, <2>1, <2>2
  <1>5. uses' \in 0..MaxUses /\ initial' \in Values
    BY <1>1, <1>2, <1>4, ParseType, WebComponentAssumption DEF TypeOK, WebComponentAssumption
  <1>6. TypeOK'
    BY <1>1, <1>2, <1>4, <1>5, ShapeType DEF TypeOK
  <1>7. StackOK'
    BY <1>1, <1>2, <1>4 DEF StackOK
  <1>8. InForce' /\ FollowersOK'
    BY <1>1, <1>2 DEF InForce, FollowersOK
  <1>9. ShownOK'
    BY <1>1, <1>2, <1>4 DEF ShownOK
  <1> QED BY <1>6, <1>7, <1>8, <1>9 DEF IInv

\* A removal disposes of the setup in force: nothing of it is left.
LEMMA RemoveStep ==
  ASSUME IInv, Remove
  PROVE  IInv'
  <1>1. /\ TypeOK /\ StackOK /\ InForce /\ FollowersOK /\ ShownOK
        /\ Len(count) \in Nat /\ MaxSetups \in Nat /\ Shape(stack, Len(count))
    BY Counted DEF IInv
  <1>2. /\ Free /\ uses < MaxUses /\ uses' = uses + 1 /\ connected' = FALSE /\ dispose' = 0
        /\ live' = live \ Undone(dispose) /\ handlers' = handlers \ {dispose}
        /\ followers' = Without(followers, Sub("sync", dispose))
        /\ UNCHANGED <<shadow, rooted, attribute, initial, count, text, stack>>
    BY DEF Remove, Use
  <1>3. live' = {} /\ handlers' = {}
    BY <1>1, <1>2 DEF InForce
  <1>4. /\ followers' \in Seq(Subscribers) /\ Distinct(followers')
        /\ \A i \in 1..Len(followers') :
             followers'[i] # Sub("sync", dispose) /\ \E k \in 1..Len(followers) : followers'[i] = followers[k]
    BY <1>1, <1>2, WithoutFacts DEF TypeOK, FollowersOK
  <1>5. ASSUME NEW i \in 1..Len(followers')
        PROVE  followers'[i].setup <= Len(count) /\ followers'[i].kind # "sync"
    <2>1. PICK k \in 1..Len(followers) : followers'[i] = followers[k]
      BY <1>4
    <2>2. followers[k] \in Subscribers /\ followers[k].setup <= Len(count)
      BY <1>1, ElementOfSeq DEF TypeOK, FollowersOK
    <2>3. ASSUME followers[k].kind = "sync" PROVE FALSE
      <3>1. followers[k].setup = dispose
        BY <1>1, <2>3 DEF FollowersOK
      <3>2. followers[k] = Sub("sync", dispose)
        BY <2>2, <2>3, <3>1, SubFacts
      <3> QED BY <3>2, <2>1, <1>4
    <2> QED BY <2>1, <2>2, <2>3
  <1>6. ~Connects(stack)
    BY <1>2, FreeFacts
  <1>7. uses' \in 0..MaxUses /\ dispose' \in 0..MaxSetups
    BY <1>1, <1>2, WebComponentAssumption DEF TypeOK, WebComponentAssumption
  <1>8. TypeOK'
    BY <1>1, <1>2, <1>3, <1>4, <1>7 DEF TypeOK
  <1>9. StackOK'
    BY <1>1, <1>2, <1>6 DEF StackOK
  <1>10. InForce'
    BY <1>1, <1>2, <1>3 DEF InForce
  <1>11. FollowersOK'
    BY <1>2, <1>4, <1>5 DEF FollowersOK
  <1>12. ShownOK'
    BY <1>2 DEF ShownOK
  <1> QED BY <1>8, <1>9, <1>10, <1>11, <1>12 DEF IInv

\* An insertion reads the attribute, and goes on when the subscribers were called.
LEMMA InsertStep ==
  ASSUME IInv, Insert
  PROVE  IInv'
  <1> DEFINE below == <<Connecting>> \o stack
  <1>1. /\ TypeOK /\ StackOK /\ InForce /\ FollowersOK /\ ShownOK
        /\ Len(count) \in Nat /\ Shape(stack, Len(count))
    BY Counted DEF IInv
  <1>2. /\ Free /\ uses < MaxUses /\ uses' = uses + 1 /\ ~connected /\ connected' = TRUE
        /\ Len(count) < MaxSetups /\ SetInitial(Parse(attribute), below)
        /\ UNCHANGED <<shadow, rooted, attribute, dispose, followers, count, live, handlers, text>>
    BY DEF Insert, Use
  <1>3. ~Connects(stack) /\ dispose = 0
    BY <1>1, <1>2, FreeFacts DEF InForce
  <1>4. Connecting \in Frames /\ About(Connecting, Len(count))
    BY CallFacts DEF About
  <1>5. Shape(below, Len(count))
    BY <1>1, <1>3, <1>4, PushShape
  <1> HIDE DEF below
  <1>6. initial' = Parse(attribute) /\ Shape(stack', Len(count))
    BY <1>1, <1>2, <1>5, SetInitialFacts
  <1>7. uses' \in 0..MaxUses /\ initial' \in Values
    BY <1>1, <1>2, <1>6, ParseType, WebComponentAssumption DEF TypeOK, WebComponentAssumption
  <1>8. TypeOK'
    BY <1>1, <1>2, <1>6, <1>7, ShapeType DEF TypeOK
  <1>9. StackOK'
    BY <1>2, <1>3, <1>6 DEF StackOK
  <1>10. InForce' /\ FollowersOK'
    BY <1>1, <1>2, <1>3 DEF InForce, FollowersOK
  <1>11. ShownOK'
    BY <1>2, <1>3, <1>6 DEF ShownOK
  <1> QED BY <1>8, <1>9, <1>10, <1>11 DEF IInv

\* An insertion goes on: the innermost call is it, and no other is under way.
LEMMA ConnectFacts ==
  ASSUME IInv, Top("connect")
  PROVE  /\ stack # <<>> /\ Shape(Tail(stack), Len(count)) /\ ~Connects(Tail(stack))
         /\ dispose = 0 /\ connected /\ Len(count) < MaxSetups
  <1>1. stack # <<>> /\ Head(stack).do = "connect"
    BY DEF Top
  <1>2. /\ Shape(Tail(stack), Len(count)) /\ ~Connects(Tail(stack)) /\ Connects(stack)
    BY <1>1, Counted, PopShape
  <1> QED BY <1>1, <1>2 DEF IInv, StackOK

LEMMA AttachFailsStep ==
  ASSUME IInv, AttachFails
  PROVE  IInv'
  <1>1. /\ TypeOK /\ StackOK /\ InForce /\ FollowersOK /\ ShownOK
    BY DEF IInv
  <1>2. /\ Top("connect") /\ stack' = Tail(stack)
        /\ UNCHANGED <<shadow, rooted, attribute, connected, dispose, initial, followers, count, live, handlers, text, uses>>
    BY DEF AttachFails, element
  <1>3. Shape(stack', Len(count)) /\ ~Connects(stack') /\ dispose = 0
    BY <1>2, ConnectFacts
  <1>4. TypeOK'
    BY <1>1, <1>2, <1>3, ShapeType DEF TypeOK
  <1>5. StackOK'
    BY <1>2, <1>3 DEF StackOK
  <1>6. InForce' /\ FollowersOK'
    BY <1>1, <1>2 DEF InForce, FollowersOK
  <1>7. ShownOK'
    BY <1>1, <1>2, <1>3 DEF ShownOK
  <1> QED BY <1>4, <1>5, <1>6, <1>7 DEF IInv

\* Setup runs: what is alive is the new one.
LEMMA SetupStep ==
  ASSUME IInv, Setup
  PROVE  IInv'
  <1> DEFINE n == Len(count) + 1
  <1>1. /\ TypeOK /\ StackOK /\ InForce /\ FollowersOK /\ ShownOK
        /\ Len(count) \in Nat /\ MaxSetups \in Nat
    BY Counted DEF IInv
  <1>2. /\ Top("connect") /\ rooted' = (shadow # "none") /\ count' = Append(count, initial)
        /\ followers' = Append(Followed(stack), Sub("sync", n))
        /\ live' = live \cup {Sub("watch", n), Sub("bind", n)} /\ handlers' = handlers \cup {n}
        /\ dispose' = n /\ text' = initial /\ stack' = Tail(stack)
        /\ UNCHANGED <<shadow, attribute, connected, initial, uses>>
    BY DEF Setup
  <1>3. /\ Shape(stack', Len(count)) /\ ~Connects(stack')
        /\ dispose = 0 /\ connected /\ Len(count) < MaxSetups
    BY <1>2, ConnectFacts
  <1>4. /\ count' \in Seq(Values) /\ Len(count') = n /\ count'[n] = initial
    BY <1>1, <1>2, AppendProperties DEF TypeOK
  <1>5. n \in Setups /\ n # 0 /\ n <= MaxSetups
    BY <1>1, <1>3 DEF Setups
  <1>6. Shape(stack', n)
    <2>1. ASSUME NEW i \in 1..Len(stack') PROVE About(stack'[i], n)
      <3>1. About(stack'[i], Len(count)) /\ stack'[i] \in Frames
        BY <1>3, ElementOfSeq DEF Shape
      <3>2. CASE stack'[i].do = "notify"
        <4>1. stack'[i].rest \in Seq(Subscribers)
          BY <3>1, <3>2, CallFacts
        <4>2. \A k \in 1..Len(stack'[i].rest) : stack'[i].rest[k].setup \in Nat /\ stack'[i].rest[k].setup <= Len(count)
          BY <4>1, <3>1, <3>2, ElementOfSeq, SubFacts DEF About, Setups
        <4> QED BY <4>2, <3>2, <1>1 DEF About
      <3>3. CASE stack'[i].do = "body"
        <4>1. stack'[i].setup \in Nat /\ stack'[i].setup <= Len(count)
          BY <3>1, <3>3, CallFacts DEF About, Setups
        <4> QED BY <4>1, <3>3, <1>1 DEF About
      <3> QED BY <3>2, <3>3 DEF About
    <2> QED BY <1>3, <2>1 DEF Shape
  <1> HIDE DEF n
  <1>7. live' = Undone(n) /\ handlers' = {n}
    BY <1>1, <1>2, <1>3 DEF InForce, Undone
  <1> DEFINE old == Followed(stack)
  <1>8. /\ old \in Seq(Subscribers) /\ Distinct(old)
        /\ \A i \in 1..Len(old) : old[i].setup <= Len(count) /\ (old[i].kind = "sync" => old[i].setup = dispose)
    BY <1>1, FollowedFacts
  <1>9. Sub("sync", n) \in Subscribers /\ Sub("sync", n).setup = n /\ Sub("sync", n).kind = "sync"
    BY <1>5, SubFacts
  <1> HIDE DEF old
  <1>10. ASSUME NEW i \in 1..Len(old)
         PROVE  old[i].kind # "sync" /\ old[i] # Sub("sync", n) /\ old[i].setup <= n
    <2>1. old[i] \in Subscribers
      BY <1>8, ElementOfSeq
    <2>2. old[i].setup \in Setups
      BY <2>1, SubFacts
    <2>3. old[i].setup # 0 /\ old[i].setup \in Nat
      BY <2>2, <1>1 DEF Setups
    <2>4. old[i].kind # "sync"
      BY <2>3, <1>3, <1>8
    <2> QED BY <2>3, <2>4, <1>1, <1>8, <1>9 DEF n
  <1>11. /\ followers' \in Seq(Subscribers) /\ Distinct(followers')
         /\ \A i \in 1..Len(followers') :
              followers'[i] = Sub("sync", n) \/ \E k \in 1..Len(old) : followers'[i] = old[k]
    BY <1>2, <1>8, <1>9, <1>10, AppendDistinct DEF old
  <1>12. FollowersOK'
    <2>1. n <= n
      BY <1>1 DEF n
    <2>2. ASSUME NEW i \in 1..Len(followers')
          PROVE  followers'[i].setup <= n /\ (followers'[i].kind = "sync" => followers'[i].setup = n)
      BY <2>1, <1>9, <1>10, <1>11
    <2> QED BY <2>2, <1>2, <1>4, <1>11 DEF FollowersOK
  <1>13. TypeOK'
    <2>1. rooted' \in BOOLEAN
      BY <1>2, Zenon
    <2>2. live' \subseteq Subscribers /\ handlers' \subseteq Setups
      BY <1>5, <1>7, SubFacts DEF Undone
    <2>3. dispose' \in 0..MaxSetups /\ text' \in Values
      BY <1>1, <1>2, <1>5 DEF TypeOK, Setups
    <2> QED BY <1>1, <1>2, <1>3, <1>4, <1>11, <2>1, <2>2, <2>3, ShapeType DEF TypeOK
  <1>14. StackOK'
    BY <1>3, <1>4, <1>6 DEF StackOK
  <1>15. InForce'
    BY <1>2, <1>3, <1>4, <1>5, <1>7 DEF InForce
  <1>16. ShownOK'
    BY <1>1, <1>2, <1>3, <1>4 DEF ShownOK
  <1> QED BY <1>12, <1>13, <1>14, <1>15, <1>16 DEF IInv

-----------------------------------------------------------------------------
(* The theorems                                                            *)

\* The invariant is inductive.
THEOREM Invariance == Spec => []IInv
  <1>1. ASSUME IInv, [Next]_vars PROVE IInv'
    <2>1. CASE UNCHANGED vars
      BY <1>1, <2>1 DEF vars, element, IInv, TypeOK, StackOK, InForce, FollowersOK, ShownOK
    <2>2. CASE Step
      BY <1>1, <2>2, StepStep
    <2>3. CASE Return
      BY <1>1, <2>3, ReturnStep
    <2>4. CASE Click
      BY <1>1, <2>4, ClickStep
    <2>5. CASE \E v \in Values \cup {None} : SetAttribute(v)
      BY <1>1, <2>5, SetAttributeStep
    <2>6. CASE Remove
      BY <1>1, <2>6, RemoveStep
    <2>7. CASE Insert
      BY <1>1, <2>7, InsertStep
    <2>8. CASE AttachFails
      BY <1>1, <2>8, AttachFailsStep
    <2>9. CASE Setup
      BY <1>1, <2>9, SetupStep
    <2> QED BY <1>1, <2>1, <2>2, <2>3, <2>4, <2>5, <2>6, <2>7, <2>8, <2>9 DEF Next
  <1> QED BY InitStep, <1>1, PTL DEF Spec

\* Every variable keeps its type: the calls, the subscribers and the counts of an element.
THEOREM TypeCorrect == Spec => []TypeOK
  <1>1. IInv => TypeOK
    BY DEF IInv
  <1> QED BY <1>1, Invariance, PTL

\* When nothing runs any more the page shows the count of the setup in force, and the signal
\* of the attribute has its value: for any values, and whatever effects do to the element.
THEOREM PageShows == Spec => []Shown
  <1>1. IInv => Shown
    <2> SUFFICES ASSUME IInv, stack = <<>>, dispose # 0
                 PROVE  text = count[dispose] /\ initial = Parse(attribute)
      BY DEF Shown
    <2>1. 1..0 = {}
      OBVIOUS
    <2>2. ~Promises(stack, dispose)
      BY <2>1, EmptySeq DEF Promises
    <2> QED BY <2>2 DEF IInv, InForce, ShownOK
  <1> QED BY <1>1, Invariance, PTL

\* Nothing of a removed element is at work, and an inserted one has one setup.
THEOREM RemovalReleases == Spec => []Released
  <1>1. IInv => Released
    <2> SUFFICES ASSUME IInv PROVE Released
      OBVIOUS
    <2>1. \A sub \in live : sub.setup = dispose
      BY SubFacts DEF IInv, InForce, Undone
    <2>2. /\ dispose # 0 => connected
          /\ handlers \subseteq {dispose}
      BY DEF IInv, InForce
    <2>3. \A i \in 1..Len(followers) : followers[i].kind = "sync" => followers[i].setup = dispose
      BY DEF IInv, FollowersOK
    <2> QED BY <2>1, <2>2, <2>3 DEF Released
  <1> QED BY <1>1, Invariance, PTL
=============================================================================
