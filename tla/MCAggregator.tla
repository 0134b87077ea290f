---------------------------- MODULE MCAggregator ----------------------------
(***************************************************************************)
(* Days of two hours, months of one day.                                   *)
(***************************************************************************)
EXTENDS Aggregator, TLC
CONSTANTS a1, a2, p1, p2
Sym == Permutations(Aliases) \cup Permutations(Providers)
=============================================================================
