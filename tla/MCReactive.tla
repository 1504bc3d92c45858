----------------------------- MODULE MCReactive -----------------------------
(***************************************************************************)
(* Instances of Reactive.  A program gives each function the operations it *)
(* may do; TLC explores every order and every repetition of them.          *)
(***************************************************************************)
EXTENDS Reactive, TLC

CONSTANTS a, b, m, n, e, f, once

Nothing(X) == [x \in X |-> {}]
Users == Effects \cup {None}

\* n is derived from m, and both from a; e reads a and n.
Diamond ==
  [reads   |-> (m :> {a} @@ n :> {a, m} @@ e :> {a, n}) @@ Nothing(Computations \cup {None}),
   writes  |-> None :> {a} @@ Nothing(Users),
   manages |-> None :> {e} @@ Nothing(Users)]

\* f writes what e reads, directly and through m; a handler may read m in a batch.
Relay ==
  [reads   |-> (m :> {a} @@ e :> {a, m} @@ f :> {b} @@ None :> {m})
               @@ Nothing(Computations \cup {None}),
   writes  |-> (None :> {a, b} @@ f :> {a}) @@ Nothing(Users),
   manages |-> None :> {e, f} @@ Nothing(Users)]

\* e writes what it reads, and creates and disposes f, which shares a memo with it.
Nested ==
  [reads   |-> (m :> {a} @@ e :> {a} @@ f :> {m}) @@ Nothing(Computations \cup {None}),
   writes  |-> (None :> {a} @@ e :> {a}) @@ Nothing(Users),
   manages |-> (None :> {e, f} @@ e :> {f}) @@ Nothing(Users)]

\* An effect_once that writes what another effect reads.
Single ==
  [reads   |-> (e :> {b} @@ once :> {a}) @@ Nothing(Computations \cup {None}),
   writes  |-> (None :> {a} @@ once :> {b}) @@ Nothing(Users),
   manages |-> None :> {e, once} @@ Nothing(Users)]

MCPrograms == {Diamond, Relay, Nested, Single}
=============================================================================
