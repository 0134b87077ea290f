----------------------------- MODULE MCSession -----------------------------
(***************************************************************************)
(* Two tabs that were just loaded, one on the home page and one on the      *)
(* settings, of an installation before or after its setup, signed in or     *)
(* not.                                                                     *)
(***************************************************************************)
EXTENDS Session

MCFirst == <<"home", "settings">>
=============================================================================
