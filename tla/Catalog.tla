------------------------------ MODULE Catalog ------------------------------
(***************************************************************************)
(* The tables model_configs and fallback_chains, the queries the router    *)
(* makes of them, and the administration of both.  Editing a model is one   *)
(* statement.  Creating or updating a chain that is to be the default is   *)
(* two: one clears the flag of the others, one writes the chain, in no     *)
(* transaction, and other administrators work in between.                  *)
(***************************************************************************)
EXTENDS Integers, Sequences, FiniteSets, SequencesExt

CONSTANTS
    Admins,      \* administration requests that may run at the same time
    MaxModels,   \* how many models are ever created
    MaxChains,   \* how many chains are ever created
    ModelBodies, \* model rows a request may write: names, tags, priority
    ChainBodies, \* chain rows a request may write: name, ids, tag, default
    NoChain

ASSUME BoundAssumption == MaxModels \in Nat /\ MaxChains \in Nat
ASSUME BodyAssumption ==
    /\ \A b \in ModelBodies : b.priority \in Int
    /\ \A b \in ChainBodies :
         /\ {"ids", "default"} \subseteq DOMAIN b
         /\ b.ids \in Seq(Nat) /\ b.ids # <<>> /\ b.default \in BOOLEAN
    /\ NoChain \notin 1..MaxChains

VARIABLES
    models,   \* model_configs: id -> row.  Ids count up as created_at does.
    chains,   \* fallback_chains: id -> row
    created,  \* how many models and chains were created
    op        \* the chain request each administrator has in progress

catalog == <<models, chains, created, op>>

Update(f, k, v) == [x \in DOMAIN f \cup {k} |-> IF x = k THEN v ELSE f[x]]
Without(f, k) == [x \in DOMAIN f \ {k} |-> f[x]]

Idle == [at |-> "idle", id |-> NoChain, body |-> NoChain]

CatalogInit ==
    /\ models = <<>>
    /\ chains = <<>>
    /\ created = [models |-> 0, chains |-> 0]
    /\ op = [a \in Admins |-> Idle]

-----------------------------------------------------------------------------
(* Queries. *)

Active == {m \in DOMAIN models : models[m].active}
Default == {c \in DOMAIN chains : chains[c].default}

Priority(m) == models[m].priority
\* ORDER BY priority ASC: any order among equals.
ByPriority(S) ==
    {s \in [1..Cardinality(S) -> S] :
        /\ \A i, j \in DOMAIN s : i < j => s[i] # s[j] /\ Priority(s[i]) <= Priority(s[j])}
\* ORDER BY priority ASC, created_at ASC: one of them.
ByPriorityAndAge(S) ==
    {s \in ByPriority(S) :
        \A i, j \in DOMAIN s : i < j /\ Priority(s[i]) = Priority(s[j]) => s[i] < s[j]}

\* SELECT ... LIMIT 1: the models one of which is returned, none when empty.
GetActiveModelByName(name) ==
    LET named == {m \in Active : name \in models[m].names}
    IN  {m \in named : \A n \in named : Priority(m) <= Priority(n)}
Sharing(tags) == {m \in Active : models[m].tags \cap tags # {}}
GetActiveModelsByTags(tags) == ByPriority(Sharing(tags))
ListActive == ByPriorityAndAge(Active)
GetFallbackChainByTag(tag) == {c \in DOMAIN chains : chains[c].tag = tag}
GetDefaultFallbackChain == Default

-----------------------------------------------------------------------------
(* Models: one statement each. *)

CreateModel(body) ==
    LET m == created.models + 1 IN
    /\ m <= MaxModels
    /\ models' = Update(models, m, [names |-> body.names, tags |-> body.tags,
                                    priority |-> body.priority, active |-> TRUE])
    /\ created' = [created EXCEPT !.models = m]
    /\ UNCHANGED <<chains, op>>

\* Everything but is_active.
UpdateModel(m, body) ==
    /\ m \in DOMAIN models
    /\ models' = [models EXCEPT ![m] = [names |-> body.names, tags |-> body.tags,
                                        priority |-> body.priority, active |-> @.active]]
    /\ UNCHANGED <<chains, created, op>>

\* The request says which; it is not a flip of what the row holds.
ToggleModel(m, active) ==
    /\ m \in DOMAIN models
    /\ models' = [models EXCEPT ![m].active = active]
    /\ UNCHANGED <<chains, created, op>>

\* The chains that list the model keep its id.
DeleteModel(m) ==
    /\ m \in DOMAIN models
    /\ models' = Without(models, m)
    /\ UNCHANGED <<chains, created, op>>

-----------------------------------------------------------------------------
(* Chains. *)

\* Mutant: the others' flags are cleared whether or not the chain is to be the default.
BeginAlwaysClears(a, id, body) ==
    /\ op[a] = Idle
    /\ op' = [op EXCEPT ![a] = [at |-> "clear", id |-> id, body |-> body]]
    /\ UNCHANGED <<models, chains, created>>

\* The handler accepted a request: id is NoChain to create a chain, or the id in
\* the URL, which may be of a chain that was deleted.
BeginChain(a, id, body) ==
    /\ op[a] = Idle
    /\ op' = [op EXCEPT ![a] = [at |-> IF body.default THEN "clear" ELSE "write",
                                id |-> id, body |-> body]]
    /\ UNCHANGED <<models, chains, created>>

\* UPDATE ... SET is_default = FALSE, of every chain or of every other chain.
ClearDefault(a) ==
    /\ op[a].at = "clear"
    /\ chains' = [c \in DOMAIN chains |->
                    IF c # op[a].id THEN [chains[c] EXCEPT !.default = FALSE] ELSE chains[c]]
    /\ op' = [op EXCEPT ![a].at = "write"]
    /\ UNCHANGED <<models, created>>

\* Its error is ignored.
ClearFails(a) ==
    /\ op[a].at = "clear"
    /\ op' = [op EXCEPT ![a].at = "write"]
    /\ UNCHANGED <<models, chains, created>>

\* name is UNIQUE, and so is is_default among the rows where it is TRUE.
Allowed(id, body) ==
    \A c \in DOMAIN chains \ {id} :
        chains[c].name # body.name /\ ~(chains[c].default /\ body.default)

InsertChain(a) ==
    LET c == created.chains + 1 IN
    /\ op[a].at = "write" /\ op[a].id = NoChain
    /\ c <= MaxChains
    /\ Allowed(c, op[a].body)
    /\ chains' = Update(chains, c, op[a].body)
    /\ created' = [created EXCEPT !.chains = c]
    /\ op' = [op EXCEPT ![a] = Idle]
    /\ UNCHANGED models

UpdateChain(a) ==
    LET c == op[a].id IN
    /\ op[a].at = "write" /\ c \in DOMAIN chains
    /\ Allowed(c, op[a].body)
    /\ chains' = [chains EXCEPT ![c] = op[a].body]
    /\ op' = [op EXCEPT ![a] = Idle]
    /\ UNCHANGED <<models, created>>

\* A constraint, a missing row, a lost connection or a client that left: the
\* request is answered 500 and what was cleared stays cleared.
WriteFails(a) ==
    /\ op[a].at = "write"
    /\ op' = [op EXCEPT ![a] = Idle]
    /\ UNCHANGED <<models, chains, created>>

DeleteChain(c) ==
    /\ c \in DOMAIN chains
    /\ chains' = Without(chains, c)
    /\ UNCHANGED <<models, created, op>>

EditModels ==
    \/ \E body \in ModelBodies :
         \/ CreateModel(body)
         \/ \E m \in DOMAIN models : UpdateModel(m, body)
    \/ \E m \in DOMAIN models : DeleteModel(m) \/ \E on \in BOOLEAN : ToggleModel(m, on)

EditChains ==
    \/ \E a \in Admins :
         \/ \E id \in 1..created.chains \cup {NoChain}, body \in ChainBodies :
              BeginChain(a, id, body)
         \/ ClearDefault(a) \/ ClearFails(a)
         \/ InsertChain(a) \/ UpdateChain(a) \/ WriteFails(a)
    \/ \E c \in DOMAIN chains : DeleteChain(c)

CatalogNext == EditModels \/ EditChains
CatalogSpec == CatalogInit /\ [][CatalogNext]_catalog

-----------------------------------------------------------------------------
(* Properties. *)

\* A save that makes a chain the default is between its two statements.
Replacing == \E a \in Admins : op[a].at = "write" /\ op[a].body.default
HasDefault == Default # {} \/ Replacing

\* Administrator a's save ends in this step.
Ends(a) == op[a].at = "write" /\ op'[a] = Idle

\* Between saves a default chain is never lost unnoticed, although a save clears the flag
\* in a statement of its own and others save, fail and delete meanwhile: the catalog is
\* left without one only when the last save that was to set one failed, when
\* the default chain itself was saved without the flag, or when it was deleted
\* (queries.go:391-448, fallbackchains.go:25-93).
DefaultIsKept == [][HasDefault /\ ~HasDefault' =>
    \/ \E a \in Admins : Ends(a) /\ op[a].body.default
    \/ \E a \in Admins : Ends(a) /\ op[a].id \in Default
    \/ \E c \in Default : c \notin DOMAIN chains']_catalog
=============================================================================
