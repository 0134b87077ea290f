----------------------------- MODULE ChainsPage -----------------------------
(***************************************************************************)
(* The page that edits the fallback chains.  It loads the chains and the    *)
(* models together.  The dialog keeps the ids of the models in the order    *)
(* they are to be tried, shows those it finds among the models it loaded,   *)
(* and offers the active ones that are not selected.                        *)
(***************************************************************************)
EXTENDS ModelsPage, Selection

\* What the dialog holds when it is reset.
EmptyChain == [name |-> None, tag |-> None, default |-> FALSE, ids |-> <<>>]
\* meant: history, the chain the dialog was opened for, NoChain for a new one.
ChainsMounted == [list |-> <<>>, models |-> <<>>, loading |-> TRUE, due |-> TRUE,
                  open |-> FALSE, editing |-> NoChain, form |-> EmptyChain, saving |-> FALSE,
                  meant |-> NoChain]

LoadBoth == Call("chains", None, {"chains", "models"})
SaveChain(id, body, meant) ==
    Call("saveChain", [id |-> id, body |-> body, meant |-> meant], {"begin", "write"})
DeleteChainCall(i) == Call("deleteChain", [id |-> i], {"edit"})

-----------------------------------------------------------------------------
(* The user. *)

OnChains(s) == at = "chains" /\ Click /\ ui' = s /\ UNCHANGED <<at, doubt, catalog>>

ResetForm(s) == [s EXCEPT !.form = EmptyChain, !.editing = NoChain]

OpenCreate == ~ui.open /\ Here
              /\ OnChains([ResetForm(ui) EXCEPT !.open = TRUE, !.meant = NoChain])
OpenEdit(i) ==
    /\ TableShown /\ Here
    /\ OnChains([ui EXCEPT !.editing = i, !.form = ui.list[i], !.open = TRUE, !.meant = i])
CloseChain == ui.open /\ Here /\ OnChains([ResetForm(ui) EXCEPT !.open = FALSE])

InDialog(form) == ui.open /\ form # ui.form /\ Here /\ OnChains([ui EXCEPT !.form = form])
TypeChain(name, tag) == InDialog([ui.form EXCEPT !.name = name, !.tag = tag])
SwitchDefault == InDialog([ui.form EXCEPT !.default = ~@])

Has(s, x) == \E i \in DOMAIN s : s[i] = x
Toggled(ids, m) ==
    IF Has(ids, m) THEN Kept(ids, ToSet(ids) \ {m}) ELSE Append(ids, m)
\* The rows of the selected models that are known, and below them the active ones.
Offered ==
    {m \in DOMAIN ui.models : Has(ui.form.ids, m) \/ ui.models[m].active}
ToggleSelected(m) == InDialog([ui.form EXCEPT !.ids = Toggled(@, m)])

Swapped(s, i, j) == [s EXCEPT ![i] = s[j], ![j] = s[i]]
\* The button of the first goes not up, that of the last not down.  One step is over a
\* model that is not shown, too.
MoveModel(i, direction) ==
    LET ids == ui.form.ids
        j == IF direction = "up" THEN i - 1 ELSE i + 1 IN
    /\ ids[i] \in DOMAIN ui.models /\ j \in DOMAIN ids
    /\ InDialog([ui.form EXCEPT !.ids = Swapped(ids, i, j)])

HandleSaveChain ==
    /\ ui.open /\ ~ui.saving /\ ui.form.name # None /\ ui.form.ids # <<>>
    /\ Ask(SaveChain(ui.editing, ui.form, ui.meant))
    /\ OnChains([ui EXCEPT !.saving = TRUE])
HandleDeleteChain(i) == TableShown /\ Ask(DeleteChainCall(i)) /\ OnChains(ui)

-----------------------------------------------------------------------------
(* The backend.  The request of a call is in the slot of its id.             *)

Serving == UNCHANGED <<at, ui, clicks>>

ReadChains(c) ==
    /\ "chains" \in c.todo
    /\ calls' = Served(c, "chains", chains)
    /\ Serving /\ UNCHANGED <<doubt, catalog>>

Begin(c) ==
    /\ c.kind = "saveChain" /\ "begin" \in c.todo
    /\ BeginChain(c.id, c.arg.id, c.arg.body)
    /\ calls' = Served(c, "begin", None)
    /\ Serving /\ UNCHANGED doubt
InProgress(c) == c.kind = "saveChain" /\ "begin" \notin c.todo
Clear(c) ==
    /\ InProgress(c)
    /\ \/ ClearFails(c.id) /\ UNCHANGED <<calls, doubt>>
       \/ /\ ClearDefault(c.id)
          /\ calls' = Outdated(calls, c.arg.id) /\ doubt' = (doubt \/ ~c.here)
    /\ Serving
Write(c) ==
    /\ InProgress(c)
    /\ InsertChain(c.id) \/ UpdateChain(c.id)
    /\ Edit(c, "write", "done")
    /\ Serving
\* The answer is an error.
Refuse(c) ==
    /\ InProgress(c) /\ WriteFails(c.id)
    /\ calls' = (calls \ {c}) \cup (IF c.here THEN {Did(c, "write", "failed")} ELSE {})
    /\ Serving /\ UNCHANGED doubt
EditChain(c) ==
    /\ c.kind = "deleteChain" /\ "edit" \in c.todo
    /\ DeleteChain(c.arg.id) \/ Gone(c.arg.id, chains)
    /\ Edit(c, "edit", None)
    /\ Serving

-----------------------------------------------------------------------------
(* The answers. *)

LoadChains ==
    /\ at = "chains" /\ ui.due /\ Ask(LoadBoth)
    /\ ui' = [ui EXCEPT !.due = FALSE]
    /\ UNCHANGED <<at, clicks, doubt, catalog>>
\* Both came.
ShowChains(c) ==
    /\ Answered(c) /\ c.kind = "chains"
    /\ Resume(c, [ui EXCEPT !.list = c.res["chains"], !.models = c.res["models"],
                            !.loading = FALSE])
    /\ doubt' = ~c.fresh /\ UNCHANGED catalog
KeepChains(c) ==
    /\ c.kind = "chains" /\ Throw(c, [ui EXCEPT !.loading = FALSE])
    /\ UNCHANGED catalog

\* Whatever the dialog shows by now is closed and reset.
ChainSaved(c) ==
    /\ Answered(c) /\ c.kind = "saveChain" /\ c.res["write"] = "done"
    /\ Resume(c, [ResetForm(ui) EXCEPT !.open = FALSE, !.saving = FALSE, !.due = TRUE])
    /\ UNCHANGED <<doubt, catalog>>
ChainDeleted(c) ==
    /\ Answered(c) /\ c.kind = "deleteChain"
    /\ Resume(c, [ui EXCEPT !.due = TRUE])
    /\ UNCHANGED <<doubt, catalog>>
ChainAlert(c) ==
    /\ c.kind \in {"saveChain", "deleteChain"}
    /\ Throw(c, IF c.kind = "saveChain" THEN [ui EXCEPT !.saving = FALSE] ELSE ui)
    /\ UNCHANGED catalog

ChainsNext ==
    \/ /\ at = "chains"
       /\ \/ OpenCreate \/ CloseChain \/ SwitchDefault \/ HandleSaveChain
          \/ \E b \in ChainBodies : TypeChain(b.name, b.tag)
          \/ \E m \in Offered : ToggleSelected(m)
          \/ \E i \in DOMAIN ui.form.ids, d \in {"up", "down"} : MoveModel(i, d)
          \/ \E i \in DOMAIN ui.list : OpenEdit(i) \/ HandleDeleteChain(i)
    \/ LoadChains
    \/ \E c \in calls : \/ ReadChains(c) \/ (c.kind = "chains" /\ ReadModels(c))
                        \/ Begin(c) \/ Clear(c) \/ Write(c) \/ Refuse(c) \/ EditChain(c)
                        \/ ShowChains(c) \/ KeepChains(c) \/ ChainSaved(c) \/ ChainDeleted(c)
                        \/ ChainAlert(c)

-----------------------------------------------------------------------------
(* Properties. *)

ChainsAreShown == at = "chains" /\ Settled => ui.list = chains /\ ui.models = models
=============================================================================
