---------------------------- MODULE MCExecutor ----------------------------
(***************************************************************************)
(* Conversations of up to four messages, of two texts and an array of a    *)
(* text and an image; answers of up to four lines, of two pieces of text.  *)
(***************************************************************************)
EXTENDS Executor, TLC
CONSTANTS a, b
MCContents == {[kind |-> "text", text |-> "hello"], [kind |-> "text", text |-> "again"],
               [kind |-> "parts", text |-> "look"]}
Sym == Permutations(Texts)
=============================================================================
