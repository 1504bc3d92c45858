----------------------------- MODULE MCIslands ------------------------------
(***************************************************************************)
(* Instances of Islands: pages with islands of one name between two web    *)
(* components of the layout.                                               *)
(***************************************************************************)
EXTENDS Islands

MCElements == 1..4
MCIslands == {2, 3}
MCName == <<"x-tag", "b", "b", "y-tag">>
MCTrigger == <<"media", "visible", "load", "idle">>

\* The first island waits for an idle callback.
IdleTrigger == <<"media", "idle", "load", "visible">>

\* Updates come to pages without the web components, and while nothing happens to the
\* media query, to which only these listen.
UpdatesAlone == built = 0 \/ (used \subseteq MCIslands /\ ~matches)
=============================================================================
