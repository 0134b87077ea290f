------------------------------ MODULE MCRouter ------------------------------
(***************************************************************************)
(* One resolution from every catalog of up to three models and two chains,  *)
(* with a bounded number of edits between its queries.                     *)
(***************************************************************************)
EXTENDS Router

CONSTANTS a1, MaxEdits

VARIABLE edits

Rows == <<[names |-> {"gpt"}, tags |-> {"fast"}, priority |-> 1],
          [names |-> {"claude", "gpt"}, tags |-> {}, priority |-> 1],
          [names |-> {"llama"}, tags |-> {"fast", "slow"}, priority |-> 0]>>
MCModelBodies == ToSet(Rows)
\* One chain selected by a tag; one that may be the default, lists a model twice
\* and names a model that may not exist.
Tagged == [name |-> "x", ids |-> <<2, 1>>, tag |-> "fast", default |-> FALSE]
Defaulted == [name |-> "y", ids |-> <<1, 3, 3>>, tag |-> "", default |-> TRUE]
MCChainBodies == {Tagged, Defaulted}
MCTagLists == {<<>>, <<"slow", "fast">>}

Row(m, active) == [names |-> Rows[m].names, tags |-> Rows[m].tags,
                   priority |-> Rows[m].priority, active |-> active]
MCInit ==
    /\ edits = 0
    /\ \E n \in {0, 3}, off \in {{}, {2}, {1, 3}} :
        /\ models = [m \in 1..n |-> Row(m, m \notin off)]
        /\ chains \in {<<>>, <<Tagged>>, <<Tagged, Defaulted>>}
        /\ created = [models |-> n, chains |-> Len(chains)]
    /\ op = [a \in Admins |-> Idle]
    /\ at = "idle" /\ req = [name |-> NoName, tags |-> <<>>]
    /\ primary = NoPrimary /\ chain = <<>> /\ k = 1 /\ result = <<>>
    /\ seen = {} /\ still = TRUE

\* Edits before the request only lead to another initial catalog.
MCEdit ==
    /\ at \notin {"idle", "done", "error"}
    /\ edits < MaxEdits
    /\ Edit
    /\ edits' = IF UNCHANGED <<models, chains>> THEN edits ELSE edits + 1
MCAsk ==
    /\ \E name \in Names \cup {NoName}, tags \in TagLists : Ask(name, tags)
    /\ UNCHANGED edits
MCResolve == ResolveChain /\ UNCHANGED edits

MCNext == MCAsk \/ MCResolve \/ MCEdit
MCvars == <<vars, edits>>
MCSpec == MCInit /\ [][MCNext]_MCvars /\ WF_MCvars(MCResolve)
=============================================================================
