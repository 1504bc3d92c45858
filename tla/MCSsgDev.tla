------------------------------ MODULE MCSsgDev ------------------------------
(***************************************************************************)
(* An instance of SsgDev: a few documents, each with one of two contents,  *)
(* of different URLs or of one.                                            *)
(***************************************************************************)
EXTENDS SsgDev, TLC

CONSTANTS guideMd, guideMdx, draft, final, guide, other

\* Nothing tells documents, contents or URLs apart.
Symmetry ==
  Permutations({guideMd, guideMdx}) \cup Permutations({draft, final})
    \cup Permutations({guide, other})
=============================================================================
