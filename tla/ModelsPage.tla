----------------------------- MODULE ModelsPage -----------------------------
(***************************************************************************)
(* The page that edits the table of models: a list, a dialog to create or   *)
(* change a model, and a switch and a delete button per row.                *)
(***************************************************************************)
EXTENDS Browser, Catalog

\* meant: history, the model the dialog was opened for, None for a new one.
ModelsMounted == [list |-> <<>>, loading |-> TRUE, due |-> TRUE, open |-> FALSE,
                  editing |-> None, form |-> None, saving |-> FALSE, meant |-> None]

ListModels == Call("models", None, {"models"})
SaveModel(id, body, meant) ==
    Call("saveModel", [id |-> id, body |-> body, meant |-> meant], {"edit"})
DeleteModelCall(m) == Call("deleteModel", [id |-> m], {"edit"})
ToggleModelCall(m, on) == Call("toggleModel", [id |-> m, active |-> on], {"edit"})

-----------------------------------------------------------------------------
(* The user.  The table is there when the list is loaded and has rows; the   *)
(* dialog is modal.                                                         *)

TableShown == ~ui.loading /\ ~ui.open
OnModels(s) == at = "models" /\ Click /\ ui' = s /\ UNCHANGED <<at, doubt, catalog>>
Here == UNCHANGED calls

\* Mutant: what was edited before is not forgotten.
OpenCreateModelKeeping ==
    ~ui.open /\ Here /\ OnModels([ui EXCEPT !.form = None, !.open = TRUE, !.meant = None])
OpenCreateModel ==
    /\ ~ui.open /\ Here
    /\ OnModels([ui EXCEPT !.editing = None, !.form = None, !.open = TRUE, !.meant = None])
OpenEditModel(m) ==
    LET row == ui.list[m] IN
    /\ TableShown /\ Here
    /\ OnModels([ui EXCEPT !.editing = m, !.open = TRUE, !.meant = m,
                           !.form = [names |-> row.names, tags |-> row.tags,
                                     priority |-> row.priority]])
FillModel(body) == ui.open /\ ui.form # body /\ Here /\ OnModels([ui EXCEPT !.form = body])
CancelModel == ui.open /\ Here /\ OnModels([ui EXCEPT !.open = FALSE])

\* The button is disabled while saving, and without a name.
HandleSaveModel ==
    /\ ui.open /\ ~ui.saving /\ ui.form # None
    /\ Ask(SaveModel(ui.editing, ui.form, ui.meant))
    /\ OnModels([ui EXCEPT !.saving = TRUE])
HandleDeleteModel(m) == TableShown /\ Ask(DeleteModelCall(m)) /\ OnModels(ui)
HandleToggleModel(m) ==
    TableShown /\ Ask(ToggleModelCall(m, ~ui.list[m].active)) /\ OnModels(ui)

-----------------------------------------------------------------------------
(* The backend. *)

ReadModels(c) ==
    /\ "models" \in c.todo
    /\ calls' = Served(c, "models", models)
    /\ UNCHANGED <<at, ui, clicks, doubt, catalog>>

\* What is asked of a row that is gone changes nothing and succeeds, but for a save.
Gone(i, table) == i \notin DOMAIN table /\ UNCHANGED catalog
EditModel(c) ==
    /\ "edit" \in c.todo
    /\ CASE c.kind = "saveModel" /\ c.arg.id = None -> CreateModel(c.arg.body)
         [] c.kind = "saveModel" /\ c.arg.id # None -> UpdateModel(c.arg.id, c.arg.body)
         [] c.kind = "deleteModel" -> DeleteModel(c.arg.id) \/ Gone(c.arg.id, models)
         [] c.kind = "toggleModel" -> ToggleModel(c.arg.id, c.arg.active)
                                      \/ Gone(c.arg.id, models)
         [] OTHER -> FALSE
    /\ Edit(c, "edit", None)
    /\ UNCHANGED <<at, ui, clicks>>

-----------------------------------------------------------------------------
(* The answers. *)

LoadModels ==
    /\ at = "models" /\ ui.due /\ Ask(ListModels)
    /\ ui' = [ui EXCEPT !.due = FALSE]
    /\ UNCHANGED <<at, clicks, doubt, catalog>>
ShowModels(c) ==
    /\ Answered(c) /\ c.kind = "models"
    /\ Resume(c, [ui EXCEPT !.list = c.res["models"], !.loading = FALSE])
    /\ doubt' = ~c.fresh /\ UNCHANGED catalog
KeepModels(c) ==
    /\ c.kind = "models" /\ Throw(c, [ui EXCEPT !.loading = FALSE])
    /\ UNCHANGED catalog

ModelSaved(c) ==
    /\ Answered(c) /\ c.kind = "saveModel"
    /\ Resume(c, [ui EXCEPT !.open = FALSE, !.saving = FALSE, !.due = TRUE])
    /\ UNCHANGED <<doubt, catalog>>
ModelDeleted(c) ==
    /\ Answered(c) /\ c.kind = "deleteModel"
    /\ Resume(c, [ui EXCEPT !.due = TRUE])
    /\ UNCHANGED <<doubt, catalog>>

\* Mutant: the switch is thrown over instead of set to what was asked.
FlipInList(list, m, active) == [i \in DOMAIN list |->
    IF i = m THEN [list[i] EXCEPT !.active = ~@] ELSE list[i]]
SetInList(list, m, active) == [i \in DOMAIN list |->
    IF i = m THEN [list[i] EXCEPT !.active = active] ELSE list[i]]
\* The list is not loaded again: the row is changed where it is shown.
ModelToggled(c) ==
    /\ Answered(c) /\ c.kind = "toggleModel"
    /\ Resume(c, [ui EXCEPT !.list = SetInList(@, c.arg.id, c.arg.active)])
    /\ doubt' = (doubt \/ ~c.fresh) /\ UNCHANGED catalog

ModelAlert(c) ==
    /\ c.kind \in {"saveModel", "deleteModel", "toggleModel"}
    /\ Throw(c, IF c.kind = "saveModel" THEN [ui EXCEPT !.saving = FALSE] ELSE ui)
    /\ UNCHANGED catalog

ModelsNext ==
    \/ /\ at = "models"
       /\ \/ OpenCreateModel \/ CancelModel \/ HandleSaveModel
          \/ \E body \in ModelBodies : FillModel(body)
          \/ \E m \in DOMAIN ui.list :
               OpenEditModel(m) \/ HandleDeleteModel(m) \/ HandleToggleModel(m)
    \/ LoadModels
    \/ \E c \in calls : \/ EditModel(c)
                        \/ (c.kind = "models" /\ ReadModels(c))
                        \/ ShowModels(c) \/ KeepModels(c) \/ ModelSaved(c)
                        \/ ModelDeleted(c) \/ ModelToggled(c) \/ ModelAlert(c)

-----------------------------------------------------------------------------
(* Properties. *)

\* Nothing is outstanding and no answer was overtaken.
Settled == ~ui.due /\ Waiting = {} /\ ~doubt
ModelsAreShown == at = "models" /\ Settled => ui.list = models
=============================================================================
