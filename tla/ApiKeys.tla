------------------------------ MODULE ApiKeys ------------------------------
(***************************************************************************)
(* The keys of the proxy API: administrators create, toggle and delete     *)
(* them while requests are checked against them, and a goroutine that a     *)
(* request leaves behind notes that its key was used.  A row's id and the   *)
(* hash it is found by are one: the key.                                   *)
(***************************************************************************)
EXTENDS Integers, FiniteSets

CONSTANTS
    Handlers,  \* handlers of requests to the proxy API, each of one at a time
    Keys,      \* raw keys, fresh when they are made
    MaxEdits,  \* how often keys are edited
    NoKey

ASSUME KeyAssumption == NoKey \notin Keys /\ MaxEdits \in Nat

VARIABLES
    keys,    \* api_keys: key -> is_active
    made,    \* the keys that were ever made
    gate,    \* the request of each handler: [at, key, was]
    touches, \* the keys of the goroutines that note a use
    edits    \* how many edits were made

keyVars == <<keys, made, gate, touches, edits>>

\* was: history, whether the key was there and active at some time since the
\* request came.
Idle == [at |-> "idle", key |-> NoKey, was |-> FALSE]

KeysInit ==
    /\ keys = <<>> /\ made = {}
    /\ gate = [h \in Handlers |-> Idle]
    /\ touches = {}
    /\ edits = 0

Exists(k) == k \in DOMAIN keys
Active(k) == Exists(k) /\ keys[k]
Edited == edits < MaxEdits /\ edits' = edits + 1

\* The history of the waiting requests, after an edit that made table of keys.
Remember(table) ==
    gate' = [h \in Handlers |->
        IF gate[h].at = "came" /\ gate[h].key \in DOMAIN table /\ table[gate[h].key]
        THEN [gate[h] EXCEPT !.was = TRUE] ELSE gate[h]]

-----------------------------------------------------------------------------
(* The dashboard. *)

CreateAPIKey(k) ==
    /\ Edited /\ k \notin made
    /\ made' = made \cup {k}
    /\ keys' = [j \in DOMAIN keys \cup {k} |-> IF j = k THEN TRUE ELSE keys[j]]
    /\ Remember(keys')
    /\ UNCHANGED touches

\* Toggling a key that was deleted meanwhile changes nothing and succeeds.
ToggleAPIKey(k, active) ==
    /\ Edited /\ k \in made
    /\ keys' = [j \in DOMAIN keys |-> IF j = k THEN active ELSE keys[j]]
    /\ Remember(keys')
    /\ UNCHANGED <<made, touches>>

DeleteAPIKey(k) ==
    /\ Edited /\ k \in made
    /\ keys' = [j \in DOMAIN keys \ {k} |-> keys[j]]
    /\ UNCHANGED <<made, gate, touches>>

-----------------------------------------------------------------------------
(* The check of a request, and what it leaves.  A request without a key that *)
(* begins with thr_ is answered at once and is left out.                    *)

Present(h, k) ==
    /\ gate[h].at = "idle"
    /\ gate' = [gate EXCEPT ![h] = [at |-> "came", key |-> k, was |-> Active(k)]]
    /\ UNCHANGED <<keys, made, touches, edits>>

Depart(h) == gate' = [gate EXCEPT ![h] = Idle]

\* The row GetAPIKeyByHash finds: of active keys only.
FindAny(k) == Exists(k) \* mutant: no filter, and the row's flag is not looked at
Find(k) == Active(k)

Admit(h) ==
    /\ gate[h].at = "came" /\ Find(gate[h].key)
    /\ gate' = [gate EXCEPT ![h].at = "admitted"]
    /\ touches' = touches \cup {gate[h].key}
    /\ UNCHANGED <<keys, made, edits>>
\* 401: no such key, or the query failed.
Unauthorized(h) ==
    /\ gate[h].at = "came"
    /\ Depart(h)
    /\ UNCHANGED <<keys, made, touches, edits>>

\* Mutant: the use is noted in a row that is made when it is missing.
TouchUpsert(k) ==
    /\ touches' = touches \ {k}
    /\ keys' = [j \in DOMAIN keys \cup {k} |-> IF j = k THEN TRUE ELSE keys[j]]
    /\ UNCHANGED <<made, gate, edits>>
\* UPDATE of a column that nothing here reads, of a row that may be gone; or the
\* update fails, or the process ends first.
UpdateAPIKeyLastUsed(k) ==
    /\ touches' = touches \ {k}
    /\ UNCHANGED <<keys, made, gate, edits>>

EditKey(k) == \/ CreateAPIKey(k) \/ DeleteAPIKey(k)
              \/ \E active \in BOOLEAN : ToggleAPIKey(k, active)
Check(h) == (\E k \in Keys : Present(h, k)) \/ Admit(h) \/ Unauthorized(h)

-----------------------------------------------------------------------------
(* Properties. *)

\* A request is admitted only with a key that was there and active at some time since
\* the request came, however edits run meanwhile (apikey.go:29-45, queries.go:270-277).
AdmittedWasActive == \A h \in Handlers : gate[h].at = "admitted" => gate[h].was

\* A deleted key is final: no edit and no goroutine that was left behind brings its row
\* back, and the requests that are in with it only become fewer (apikey.go:32-57,
\* queries.go:291-304).
In(k) == {h \in Handlers : gate[h].at = "admitted" /\ gate[h].key = k}
DeletedIsFinal ==
    [][\A k \in made : k \notin DOMAIN keys => k \notin DOMAIN keys' /\ In(k)' \subseteq In(k)]_keyVars
=============================================================================
