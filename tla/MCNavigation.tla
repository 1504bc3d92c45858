---------------------------- MODULE MCNavigation ----------------------------
(***************************************************************************)
(* An instance of Navigation: a page the server answers with a fragment    *)
(* and one it answers in full.                                             *)
(***************************************************************************)
EXTENDS Navigation

CONSTANTS about, home
=============================================================================
