---------------------------- MODULE MCLifecycle -----------------------------
(***************************************************************************)
(* Instances of Lifecycle.  A program gives each function the operations   *)
(* it may do; TLC explores every order of them.                            *)
(***************************************************************************)
EXTENDS Lifecycle, TLC

CONSTANTS o1, o2, o3, e1, e2, c1, c2

Nothing == [x \in Things \cup {None} |-> {}]

\* The root o1 has an effect e1 that mounts and unmounts a branch, as show does: the root
\* o2 with an effect e2.  Effects and roots register cleanups.
Branch ==
  [creates  |-> (None :> {o1} @@ o1 :> {e1} @@ e1 :> {o2} @@ o2 :> {e2, c1}
                @@ e2 :> {c1, c2}) @@ Nothing,
   disposes |-> (None :> {o1, e1} @@ e1 :> {o2}) @@ Nothing,
   reruns   |-> (None :> {e1, e2} @@ e1 :> {e2}) @@ Nothing,
   enters   |-> (e1 :> {o1}) @@ Nothing]

\* A tree of two roots whose effects write what the other reads.
Tree ==
  [creates  |-> (None :> {o1} @@ o1 :> {o2, e1, c1} @@ o2 :> {e2, c2} @@ e1 :> {c2}
                @@ e2 :> {c1}) @@ Nothing,
   disposes |-> (None :> {o1, o2, e1, e2}) @@ Nothing,
   reruns   |-> (None :> {e1, e2} @@ e1 :> {e2} @@ e2 :> {e1} @@ o2 :> {e1}) @@ Nothing,
   enters   |-> Nothing]

\* Two roots under o1, and a cleanup of o2 that disposes its sibling o3.
Siblings ==
  [creates  |-> (None :> {o1} @@ o1 :> {o2, o3} @@ o2 :> {c1} @@ o3 :> {c2}) @@ Nothing,
   disposes |-> (None :> {o1, o2} @@ c1 :> {o3}) @@ Nothing,
   reruns   |-> Nothing,
   enters   |-> Nothing]

\* An effect that creates another effect whenever it runs, under a root or not.
Inner ==
  [creates  |-> (None :> {o1, e1} @@ o1 :> {e1} @@ e1 :> {e2, c1} @@ e2 :> {c2}) @@ Nothing,
   disposes |-> (None :> {o1, e1, e2}) @@ Nothing,
   reruns   |-> (None :> {e1, e2}) @@ Nothing,
   enters   |-> Nothing]

MCPrograms == {Branch, Tree, Siblings, Inner}
BranchPrograms == {Branch}
=============================================================================
