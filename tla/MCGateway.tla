----------------------------- MODULE MCGateway -----------------------------
(***************************************************************************)
(* Two handlers and one key, which is made, toggled and deleted; the window *)
(* is short so that it slides within a run.                                *)
(***************************************************************************)
EXTENDS Gateway, TLC
CONSTANTS h1, h2, k1
Sym == Permutations(Handlers)
=============================================================================
