------------------------------ MODULE KeysPage ------------------------------
(***************************************************************************)
(* The page that edits the API keys.  A new key is shown once, in the       *)
(* dialog that created it, and can not be read again.                       *)
(***************************************************************************)
EXTENDS Browser

CONSTANT MaxKeys

ASSUME KeysAssumption == MaxKeys \in Nat

VARIABLES
    keys,   \* api_keys: key -> is_active
    made,   \* how many keys were made
    told,   \* history: keys whose creation was answered to the dialog that asked
    seen    \* history: keys that were on screen

keyTable == <<keys, made>>
secrets == <<told, seen>>
KeysInit == keys = <<>> /\ made = 0 /\ told = {} /\ seen = {}

\* left: history, the dialog was closed since a key was asked for.
KeysMounted == [list |-> <<>>, loading |-> TRUE, due |-> TRUE, open |-> FALSE, name |-> FALSE,
                saving |-> FALSE, newKey |-> None, left |-> FALSE]

ListAPIKeys == Call("keys", None, {"keys"})
CreateAPIKeyCall == Call("createKey", [id |-> None], {"edit"})
DeleteAPIKeyCall(k) == Call("deleteKey", [id |-> k], {"edit"})
ToggleAPIKeyCall(k, on) == Call("toggleKey", [id |-> k, active |-> on], {"edit"})

-----------------------------------------------------------------------------
(* The user. *)

KeyTableShown == ~ui.loading /\ ~ui.open
OnKeys(s) == at = "keys" /\ Click /\ ui' = s /\ UNCHANGED <<at, doubt, keyTable, told>>

OpenKeyDialog == ~ui.open /\ UNCHANGED calls /\ OnKeys([ui EXCEPT !.newKey = None, !.open = TRUE])
NameKey == ui.open /\ ui.newKey = None /\ ~ui.name /\ UNCHANGED calls
           /\ OnKeys([ui EXCEPT !.name = TRUE])
Closed == [ui EXCEPT !.open = FALSE, !.newKey = None, !.name = FALSE, !.left = TRUE]
HandleCloseDialog == ui.open /\ UNCHANGED calls /\ OnKeys(Closed)
HandleCreateKey ==
    /\ ui.open /\ ui.newKey = None /\ ~ui.saving /\ ui.name
    /\ Ask(CreateAPIKeyCall)
    /\ OnKeys([ui EXCEPT !.saving = TRUE, !.left = FALSE])
HandleDeleteKey(k) == KeyTableShown /\ Ask(DeleteAPIKeyCall(k)) /\ OnKeys(ui)
HandleToggleKey(k) == KeyTableShown /\ Ask(ToggleAPIKeyCall(k, ~ui.list[k])) /\ OnKeys(ui)

-----------------------------------------------------------------------------
(* The backend. *)

ReadKeys(c) ==
    /\ c.kind = "keys" /\ "keys" \in c.todo
    /\ calls' = Served(c, "keys", keys)
    /\ UNCHANGED <<at, ui, clicks, doubt, keyTable, told>>
EditKeys(c) ==
    /\ "edit" \in c.todo
    /\ CASE c.kind = "createKey" ->
              /\ made < MaxKeys /\ made' = made + 1
              /\ keys' = [k \in DOMAIN keys \cup {made'} |-> IF k = made' THEN TRUE ELSE keys[k]]
         [] c.kind = "deleteKey" ->
              keys' = [k \in DOMAIN keys \ {c.arg.id} |-> keys[k]] /\ UNCHANGED made
         [] c.kind = "toggleKey" ->
              keys' = [k \in DOMAIN keys |-> IF k = c.arg.id THEN c.arg.active ELSE keys[k]]
              /\ UNCHANGED made
         [] OTHER -> FALSE
    /\ Edit(c, "edit", made')
    /\ UNCHANGED <<at, ui, clicks, told>>

-----------------------------------------------------------------------------
(* The answers. *)

LoadKeys ==
    /\ at = "keys" /\ ui.due /\ Ask(ListAPIKeys)
    /\ ui' = [ui EXCEPT !.due = FALSE]
    /\ UNCHANGED <<at, clicks, doubt, keyTable, told>>
ShowKeys(c) ==
    /\ Answered(c) /\ c.kind = "keys"
    /\ Resume(c, [ui EXCEPT !.list = c.res["keys"], !.loading = FALSE])
    /\ doubt' = ~c.fresh /\ UNCHANGED <<keyTable, told>>
KeepKeys(c) ==
    /\ c.kind = "keys" /\ Throw(c, [ui EXCEPT !.loading = FALSE])
    /\ UNCHANGED <<keyTable, told>>

\* Mutant: the dialog is closed as the dialogs of the other pages are.
KeyCreatedAndClosed(c) ==
    /\ Answered(c) /\ c.kind = "createKey"
    /\ Resume(c, [ui EXCEPT !.newKey = c.res["edit"], !.open = FALSE, !.saving = FALSE,
                            !.due = TRUE])
    /\ told' = told \cup (IF ui.left THEN {} ELSE {c.res["edit"]})
    /\ UNCHANGED <<doubt, keyTable>>
KeyCreated(c) ==
    /\ Answered(c) /\ c.kind = "createKey"
    /\ Resume(c, [ui EXCEPT !.newKey = c.res["edit"], !.saving = FALSE, !.due = TRUE])
    /\ told' = told \cup (IF ui.left THEN {} ELSE {c.res["edit"]})
    /\ UNCHANGED <<doubt, keyTable>>
KeyDeleted(c) ==
    /\ Answered(c) /\ c.kind = "deleteKey"
    /\ Resume(c, [ui EXCEPT !.due = TRUE])
    /\ UNCHANGED <<doubt, keyTable, told>>
KeyToggled(c) ==
    /\ Answered(c) /\ c.kind = "toggleKey"
    /\ Resume(c, [ui EXCEPT !.list = [k \in DOMAIN @ |-> IF k = c.arg.id THEN c.arg.active ELSE @[k]]])
    /\ doubt' = (doubt \/ ~c.fresh) /\ UNCHANGED <<keyTable, told>>
KeyAlert(c) ==
    /\ c.kind \in {"createKey", "deleteKey", "toggleKey"}
    /\ Throw(c, IF c.kind = "createKey" THEN [ui EXCEPT !.saving = FALSE] ELSE ui)
    /\ UNCHANGED <<keyTable, told>>

KeysStep ==
    \/ at = "keys" /\ \/ OpenKeyDialog \/ NameKey \/ HandleCloseDialog \/ HandleCreateKey
                      \/ \E k \in DOMAIN ui.list : HandleDeleteKey(k) \/ HandleToggleKey(k)
    \/ LoadKeys
    \/ \E c \in calls : \/ ReadKeys(c) \/ EditKeys(c) \/ ShowKeys(c) \/ KeepKeys(c)
                        \/ KeyCreated(c) \/ KeyDeleted(c) \/ KeyToggled(c) \/ KeyAlert(c)

OnScreen(s) == IF s.open /\ s.newKey # None THEN {s.newKey} ELSE {}
KeysNext == KeysStep /\ seen' = seen \cup (IF at = "keys" THEN OnScreen(ui') ELSE {})

-----------------------------------------------------------------------------
(* Properties. *)

KeysAreShown ==
    at = "keys" /\ ~ui.due /\ Waiting = {} /\ ~doubt => ui.list = keys

\* A key whose creation was answered was on screen to be copied, however the clicks, the
\* listings and the answers interleave: unless the user had closed the dialog that asked
\* for it (api-keys/page.tsx:64-91,123).
KeyIsSeen == told \subseteq seen
=============================================================================
