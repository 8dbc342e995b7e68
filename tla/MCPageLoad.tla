----------------------------- MODULE MCPageLoad -----------------------------
(***************************************************************************)
(* A small web: the start page of a channel redirects to its HbbTV         *)
(* application, an old page to a blocked one.                              *)
(***************************************************************************)
EXTENDS PageLoad, TLC

CONSTANTS start, app, plain, old, ads

TwoRedirects == (start :> app) @@ (old :> ads)
=============================================================================
