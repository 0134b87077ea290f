------------------------------ MODULE Console ------------------------------
(***************************************************************************)
(* The pages that edit the catalog and the keys, in one tab, and another    *)
(* administrator who edits the tables the page shows.  A behaviour is about *)
(* one page, left and mounted again at any time; edits the page before it   *)
(* asked for may still be carried out.                                      *)
(***************************************************************************)
EXTENDS ChainsPage, KeysPage

CONSTANTS
    Other,
    MaxOthers,                \* edits of the other administrator
    FirstModels, FirstChains  \* what the tables hold when a page is opened

Mounted == [models |-> ModelsMounted, chains |-> ChainsMounted, keys |-> KeysMounted]
Pages == DOMAIN Mounted

\* The identities of the requests of this tab and of the other administrator's; ids count
\* up from one.  The chains were written by such a page.
ASSUME ConsoleAssumption ==
    /\ 1..MaxCalls \subseteq Admins /\ Other \in Admins
    /\ None \notin Nat
    /\ \A b \in ChainBodies : IsInjective(b.ids)
    /\ \A p \in Pages :
         /\ \E n \in 0..MaxModels : FirstModels[p] = [m \in 1..n |-> FirstModels[p][m]]
         /\ \A m \in DOMAIN FirstModels[p] :
              FirstModels[p][m] = [names |-> FirstModels[p][m].names,
                                   tags |-> FirstModels[p][m].tags,
                                   priority |-> FirstModels[p][m].priority,
                                   active |-> FirstModels[p][m].active]
         /\ \A i \in DOMAIN FirstChains[p] :
              /\ "ids" \in DOMAIN FirstChains[p][i]
              /\ FirstChains[p][i].ids \in Seq(Nat) /\ IsInjective(FirstChains[p][i].ids)

VARIABLE others  \* how many there were

vars == <<browser, catalog, keyTable, secrets, others>>

Init ==
    /\ at \in Pages /\ ui = Mounted[at]
    /\ models = FirstModels[at] /\ chains = FirstChains[at]
    /\ created = [models |-> Cardinality(DOMAIN models), chains |-> Cardinality(DOMAIN chains)]
    /\ op = [a \in Admins |-> Idle]
    /\ KeysInit /\ others = 0
    /\ calls = {} /\ clicks = 0 /\ doubt = FALSE

Return == Visit(at, Mounted[at]) /\ UNCHANGED <<catalog, keyTable, secrets, others>>
Stop == \E c \in calls :
    /\ c.kind = "saveChain" => op[c.id] = Idle
    /\ Forget(c)

\* Somebody else edits row i of what the page shows.
Elsewhere(i) == calls' = Outdated(calls, i) /\ doubt' = TRUE
Unseen == UNCHANGED <<calls, doubt>>
Turn == others < MaxOthers /\ others' = others + 1
OthersModel(m) ==
    /\ DeleteModel(m) \/ \E on \in BOOLEAN : ToggleModel(m, on)
    /\ Elsewhere(m) /\ Turn
OthersChain ==
    \/ \E i \in DOMAIN chains \cup {NoChain}, body \in ChainBodies :
         BeginChain(Other, i, body) /\ Unseen /\ Turn
    \/ (ClearFails(Other) \/ WriteFails(Other)) /\ Unseen /\ UNCHANGED others
    \/ /\ ClearDefault(Other) \/ InsertChain(Other) \/ UpdateChain(Other)
       /\ Elsewhere(op[Other].id) /\ UNCHANGED others
    \/ \E i \in DOMAIN chains : DeleteChain(i) /\ Elsewhere(i) /\ Turn
Others ==
    /\ \/ at \in {"models", "chains"} /\ \E m \in DOMAIN models : OthersModel(m)
       \/ at = "chains" /\ OthersChain
    /\ UNCHANGED <<at, ui, clicks>>

Next ==
    \/ (ModelsNext \/ ChainsNext) /\ UNCHANGED <<keyTable, secrets, others>>
    \/ Others /\ UNCHANGED <<keyTable, secrets>>
    \/ KeysNext /\ UNCHANGED <<catalog, others>>
    \/ Stop /\ UNCHANGED <<catalog, keyTable, secrets, others>>
    \/ Return

Spec == Init /\ [][Next]_vars

-----------------------------------------------------------------------------
(* Properties. *)

\* When nothing is outstanding, no answer was overtaken or lost and nobody else edited, what
\* a page shows is what the table holds: after each of its own edits, reloaded or changed in
\* place, in any order of the answers (models/page.tsx:89-171, chains/page.tsx:69-140,
\* api-keys/page.tsx:51-112).
ShownIsTable == ModelsAreShown /\ ChainsAreShown /\ KeysAreShown

\* A save goes to the row its dialog was opened for, and creates one only when it was opened
\* to create: an answer to an earlier save that closes a later dialog, a cancelled dialog and
\* one opened again never change that.  A chain is saved with a model once, whatever was
\* clicked and moved (models/page.tsx:102-150, chains/page.tsx:88-158).
SavesHitTheirTarget ==
    \A c \in calls : c.kind \in {"saveModel", "saveChain"} =>
        /\ c.arg.id = c.arg.meant
        /\ c.kind = "saveChain" => IsInjective(c.arg.body.ids)
=============================================================================
