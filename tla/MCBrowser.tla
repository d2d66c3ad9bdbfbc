------------------------------ MODULE MCBrowser ------------------------------
(***************************************************************************)
(* Instance of Browser for TLC: every page.                                *)
(***************************************************************************)
EXTENDS Browser

EveryPage == DOMAIN AllPages
=============================================================================
