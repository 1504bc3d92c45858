------------------------------ MODULE JobBoard ------------------------------
(***************************************************************************)
(* What the worker pool of src/sol/builder promises to its client,         *)
(* whatever its workers do: each round of submitted jobs gets at most one  *)
(* result per job, and wait_all returns only when every job has its result. *)
(***************************************************************************)
CONSTANT Jobs

VARIABLES
  asked,   \* the jobs of the current round
  done,    \* those of them that have a result
  open     \* the round is submitted and wait_all has not returned

boardVars == <<asked, done, open>>

Init ==
  /\ asked = {}
  /\ done = {}
  /\ open = FALSE

Ask(jobs) ==
  /\ ~open
  /\ asked' = jobs
  /\ done' = {}
  /\ open' = TRUE

Finish(j) ==
  /\ open
  /\ j \in asked \ done
  /\ done' = done \cup {j}
  /\ UNCHANGED <<asked, open>>

Answer ==
  /\ open
  /\ done = asked
  /\ open' = FALSE
  /\ UNCHANGED <<asked, done>>

Next ==
  \/ \E jobs \in SUBSET Jobs : Ask(jobs)
  \/ \E j \in Jobs : Finish(j)
  \/ Answer

Spec == Init /\ [][Next]_boardVars
=============================================================================
