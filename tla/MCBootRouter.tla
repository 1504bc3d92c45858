---------------------------- MODULE MCBootRouter ----------------------------
(***************************************************************************)
(* An instance of BootRouter: a route of a segment, which is also the      *)
(* fallback of an inline route that the SPA router does not have; the two  *)
(* share a chunk.                                                          *)
(***************************************************************************)
EXTENDS BootRouter, TLC

CONSTANTS guide, old, docs, boot, page, n1, n2

MCSegment == (guide :> docs) @@ (old :> None)
MCNeeds == (guide :> {boot, page}) @@ (old :> {boot})
Symmetry == Permutations(Slots)

\* Two hover timers of a link overlap only in a document whose caches were never cleared.
FewTimers == clears > 0 => \A p \in Paths : timers[p] <= 1
=============================================================================
