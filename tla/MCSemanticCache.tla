-------------------------- MODULE MCSemanticCache --------------------------
(***************************************************************************)
(* Two stores of one text.                                                  *)
(***************************************************************************)
EXTENDS SemanticCache, TLC
CONSTANTS s1, s2

Message(kind, content) == <<[role |-> "user", kind |-> kind, content |-> content]>>
Texts == {Message("text", "hello")}
MCDistance(e, f) == IF e = f THEN 0 ELSE 9
Sym == Permutations(Stores)
=============================================================================
