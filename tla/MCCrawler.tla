----------------------------- MODULE MCCrawler -----------------------------
(***************************************************************************)
(* An instance of Crawler: a site of four pages that link to each other,   *)
(* one of which is excluded, and a page of another origin.                 *)
(***************************************************************************)
EXTENDS Crawler, TLC

CONSTANTS home, about, deep, admin, other, here, there

MCSite == (home :> here) @@ (about :> here) @@ (deep :> here) @@ (admin :> here)
          @@ (other :> there)
MCLinks == (home :> {about, admin, other}) @@ (about :> {home, about, deep}) @@ (deep :> {})
           @@ (admin :> {home}) @@ (other :> {other, home})
=============================================================================
