--------------------------- MODULE MCWebComponent ---------------------------
(***************************************************************************)
(* An instance of WebComponent, with every shadow option.                  *)
(***************************************************************************)
EXTENDS WebComponent
=============================================================================
