----------------------------- MODULE Selection -----------------------------
(***************************************************************************)
(* What the loops and filters of the code select from a list: the elements  *)
(* of a sequence that are in a set, in their order.  SelectSeq is the same   *)
(* of a predicate; no prover can look into it.                             *)
(***************************************************************************)
EXTENDS Integers, Sequences

Kept(s, S) ==
    LET kept[n \in 0..Len(s)] ==
          IF n = 0 THEN <<>>
          ELSE IF s[n] \in S THEN Append(kept[n - 1], s[n]) ELSE kept[n - 1]
    IN  kept[Len(s)]
=============================================================================
