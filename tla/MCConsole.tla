----------------------------- MODULE MCConsole -----------------------------
(***************************************************************************)
(* The page of the models begins with one and may add another, that of the  *)
(* chains with two models and a default chain and may add a chain; two keys; *)
(* two calls at a time; what the dialogs offer is one row other than these. *)
(***************************************************************************)
EXTENDS Console

MCClicks == [models |-> 5, chains |-> 4, keys |-> 5]
MCAdmins == 1..MaxCalls \cup {Other}
MCModelBodies == {[names |-> {"gpt"}, tags |-> {}, priority |-> 1]}
FirstModel == [names |-> {"gpt"}, tags |-> {}, priority |-> 0, active |-> TRUE]
MCFirstModels == [p \in Pages |->
    [m \in 1..(CASE p = "models" -> 1 [] p = "chains" -> 2 [] OTHER -> 0) |-> FirstModel]]
MCChainBodies == {[name |-> "y", tag |-> None, default |-> TRUE, ids |-> <<1>>]}
FirstChain == [name |-> "x", tag |-> None, default |-> TRUE, ids |-> <<1>>]
MCFirstChains == [p \in Pages |-> [i \in 1..(IF p = "chains" THEN 1 ELSE 0) |-> FirstChain]]
=============================================================================
