------------------------------- MODULE Router -------------------------------
(***************************************************************************)
(* Router.ResolveChain: the models to try for a request, in order.  It     *)
(* makes up to 2 + tags + chain length queries, each of its own, while      *)
(* administrators edit the catalog between them.  One resolution is enough: *)
(* resolutions write nothing.                                              *)
(***************************************************************************)
EXTENDS Catalog, Selection

CONSTANTS
    Names,       \* the names a request may ask for
    TagLists,    \* the tags a request may carry, in header order
    NoName, NoModel

ASSUME NoModelAssumption == NoModel \notin 1..MaxModels
ASSUME TagAssumption == \A tags \in TagLists : tags \in Seq(ToSet(tags))

VARIABLES
    at,      \* the query that is next
    req,     \* the request: name and tags
    primary, \* the id and the tags of the requested model, when it was found
    chain,   \* the model ids of the chain found, <<>> when there is none
    k,       \* position in the list that is walked
    result,  \* the models found so far
    seen,    \* history: the models that were active at one of the queries
    still    \* history: no query failed and no edit was made since the request

resolution == <<at, req, primary, chain, k, result, seen, still>>
vars == <<catalog, resolution>>

NoPrimary == [id |-> NoModel, tags |-> {}]

Init ==
    /\ CatalogInit
    /\ at = "idle"
    /\ req = [name |-> NoName, tags |-> <<>>]
    /\ primary = NoPrimary
    /\ chain = <<>>
    /\ k = 1
    /\ result = <<>>
    /\ seen = {}
    /\ still = TRUE

Found == primary # NoPrimary
Query(from) == at = from /\ seen' = seen \cup Active /\ UNCHANGED <<catalog, req>>
Succeeds == UNCHANGED still
Fails == still' = FALSE

-----------------------------------------------------------------------------
Ask(name, tags) ==
    /\ at = "idle"
    /\ req' = [name |-> name, tags |-> tags]
    /\ at' = IF name # NoName THEN "primary" ELSE IF tags # <<>> THEN "tag" ELSE "default"
    /\ UNCHANGED <<catalog, primary, chain, k, result, seen, still>>

\* 1. The requested model, by provider_model or display_name.
FindPrimary ==
    /\ Query("primary")
    /\ LET candidates == GetActiveModelByName(req.name) IN
         IF candidates = {} THEN UNCHANGED primary
         ELSE \E m \in candidates : primary' = [id |-> m, tags |-> models[m].tags]
    /\ at' = IF req.tags # <<>> THEN "tag" ELSE "default"
    /\ Succeeds
    /\ UNCHANGED <<chain, k, result>>

PrimaryFails ==
    /\ Query("primary") /\ Fails
    /\ at' = "error"
    /\ UNCHANGED <<primary, chain, k, result>>

\* Mutant: the requested model is only a filter.
StartWalkAlone(ids) ==
    /\ chain' = ids
    /\ k' = 1
    /\ result' = <<>>
    /\ at' = "walk"

\* 4. The result starts with the requested model.
StartWalk(ids) ==
    /\ chain' = ids
    /\ k' = 1
    /\ result' = IF Found THEN <<primary.id>> ELSE <<>>
    /\ at' = "walk"

\* 5. to 7. Without a chain, or when a chain gave nothing.
NoChainState == IF Found THEN "peers" ELSE IF req.tags # <<>> THEN "tagged" ELSE "all"

\* 2. The first tag that selects a chain; a query that fails selects none.
FindByTag ==
    /\ Query("tag")
    /\ Succeeds
    /\ LET selected == GetFallbackChainByTag(req.tags[k]) IN
         IF selected # {} THEN \E c \in selected : StartWalk(chains[c].ids)
         ELSE /\ k' = k + 1
              /\ at' = IF k < Len(req.tags) THEN "tag" ELSE "default"
              /\ UNCHANGED <<chain, result>>
    /\ UNCHANGED primary

TagFails ==
    /\ Query("tag") /\ Fails
    /\ k' = k + 1
    /\ at' = IF k < Len(req.tags) THEN "tag" ELSE "default"
    /\ UNCHANGED <<primary, chain, result>>

\* 3. The default chain.
FindDefault ==
    /\ Query("default")
    /\ Succeeds
    /\ IF GetDefaultFallbackChain # {}
         THEN \E c \in GetDefaultFallbackChain : StartWalk(chains[c].ids)
         ELSE at' = NoChainState /\ UNCHANGED <<chain, k, result>>
    /\ UNCHANGED primary

DefaultFails ==
    /\ Query("default") /\ Fails
    /\ at' = NoChainState
    /\ UNCHANGED <<primary, chain, k, result>>

-----------------------------------------------------------------------------
(* The models of the chain, one query each. *)

NextItem(models_) ==
    /\ result' = result \o models_
    /\ k' = k + 1
    /\ at' = "walk"

\* Mutant: is_active is not looked at again.
ReadInactive ==
    /\ k <= Len(chain) /\ chain[k] # primary.id
    /\ Query("walk") /\ Succeeds
    /\ NextItem(IF chain[k] \in DOMAIN models THEN <<chain[k]>> ELSE <<>>)
    /\ UNCHANGED <<primary, chain>>

\* The model may have been deleted or switched off since the chain was written.
ReadItem ==
    /\ k <= Len(chain) /\ chain[k] # primary.id
    /\ Query("walk") /\ Succeeds
    /\ NextItem(IF chain[k] \in Active THEN <<chain[k]>> ELSE <<>>)
    /\ UNCHANGED <<primary, chain>>

\* Mutant: the requested model is tried again where the chain lists it.
RepeatPrimary ==
    /\ at = "walk" /\ k <= Len(chain) /\ chain[k] = primary.id
    /\ NextItem(<<chain[k]>>)
    /\ UNCHANGED <<catalog, req, primary, chain, seen, still>>

SkipPrimary ==
    /\ at = "walk" /\ k <= Len(chain) /\ chain[k] = primary.id
    /\ NextItem(<<>>)
    /\ UNCHANGED <<catalog, req, primary, chain, seen, still>>

ItemFails ==
    /\ k <= Len(chain) /\ chain[k] # primary.id
    /\ Query("walk") /\ Fails
    /\ NextItem(<<>>)
    /\ UNCHANGED <<primary, chain>>

\* Mutant: step 5 of the comment, without excluding what is already there.
EndWalkAppendAll ==
    /\ at = "walk" /\ k > Len(chain)
    /\ \E s \in ListActive : result' = result \o s
    /\ at' = IF result' # <<>> THEN "done" ELSE NoChainState
    /\ UNCHANGED <<catalog, req, primary, chain, k, seen, still>>

\* Mutant: an empty chain is looked up again.
EndWalkAgain ==
    /\ at = "walk" /\ k > Len(chain)
    /\ at' = IF result # <<>> THEN "done" ELSE "default"
    /\ UNCHANGED <<catalog, req, primary, chain, k, result, seen, still>>

EndWalk ==
    /\ at = "walk" /\ k > Len(chain)
    /\ at' = IF result # <<>> THEN "done" ELSE NoChainState
    /\ UNCHANGED <<catalog, req, primary, chain, k, result, seen, still>>

-----------------------------------------------------------------------------
(* Without a chain. *)

\* Both listings are copied without the requested model, in their order.
Peers == ByPriority(Sharing(primary.tags) \ {primary.id})
Rest == ByPriorityAndAge(Active \ {primary.id})

\* What a listing yields that breaks off while its rows are read: the loop ends as
\* at the last row, and no one asks for the error.
Truncations(s) == {SubSeq(s, 1, n) : n \in 0..Len(s)}

\* 5. The requested model, then the models that share a tag with it, or all.
TryPeers(s) ==
    /\ result' = <<primary.id>> \o s
    /\ at' = IF s = <<>> THEN "rest" ELSE "done"
    /\ UNCHANGED <<primary, chain, k>>

ReadPeers ==
    /\ Query("peers") /\ Succeeds
    /\ \E s \in Peers : TryPeers(s)

PeersFail ==
    /\ Query("peers") /\ Fails
    /\ \E s \in Peers : \E t \in Truncations(s) : TryPeers(t)

ReadRest ==
    /\ Query("rest") /\ Succeeds
    /\ \E s \in Rest : result' = result \o s
    /\ at' = "done"
    /\ UNCHANGED <<primary, chain, k>>

RestFails ==
    /\ Query("rest") /\ Fails
    /\ \E s \in Rest : \E t \in Truncations(s) : result' = result \o t
    /\ at' = "done"
    /\ UNCHANGED <<primary, chain, k>>

\* 6. The models that carry one of the request's tags.
ReadTagged ==
    /\ Query("tagged") /\ Succeeds
    /\ \E s \in GetActiveModelsByTags(ToSet(req.tags)) :
         /\ result' = s
         /\ at' = IF s = <<>> THEN "all" ELSE "done"
    /\ UNCHANGED <<primary, chain, k>>

\* 7. All of them.
ReadAll ==
    /\ Query("all") /\ Succeeds
    /\ result' \in ListActive
    /\ at' = "done"
    /\ UNCHANGED <<primary, chain, k>>

ListFails ==
    /\ Query("tagged") \/ Query("all")
    /\ Fails
    /\ at' = "error"
    /\ UNCHANGED <<primary, chain, k, result>>

TaggedBreaksOff ==
    /\ Query("tagged") /\ Fails
    /\ \E s \in GetActiveModelsByTags(ToSet(req.tags)) : result' \in Truncations(s)
    /\ at' = IF result' = <<>> THEN "all" ELSE "done"
    /\ UNCHANGED <<primary, chain, k>>

AllBreaksOff ==
    /\ Query("all") /\ Fails
    /\ \E s \in ListActive : result' \in Truncations(s)
    /\ at' = "done"
    /\ UNCHANGED <<primary, chain, k>>

ResolveChain ==
    \/ FindPrimary \/ PrimaryFails \/ FindByTag \/ TagFails \/ FindDefault \/ DefaultFails
    \/ ReadItem \/ SkipPrimary \/ ItemFails \/ EndWalk
    \/ ReadPeers \/ PeersFail \/ ReadRest \/ RestFails \/ ReadTagged \/ ReadAll \/ ListFails
    \/ TaggedBreaksOff \/ AllBreaksOff

Edit ==
    /\ CatalogNext
    /\ still' = (still /\ (at = "idle" \/ UNCHANGED <<models, chains>>))
    /\ UNCHANGED <<at, req, primary, chain, k, result, seen>>

Next ==
    \/ \E name \in Names \cup {NoName}, tags \in TagLists : Ask(name, tags)
    \/ ResolveChain
    \/ Edit

Spec == Init /\ [][Next]_vars
FairSpec == Spec /\ WF_vars(ResolveChain)

-----------------------------------------------------------------------------
(* Properties. *)

\* No edit slips a model into a chain that was not in use: each model to be tried
\* was active when one of the queries ran (router.go:62-81, 85-103, 117-127).
OnlyActiveModels == at = "done" => ToSet(result) \subseteq seen

\* A requested model that was found is tried first, and only once, whatever the
\* chain lists and whatever happened to the model since (router.go:63-70, 84-90).
RequestedFirst ==
    (at = "done" /\ Found) =>
        result[1] = primary.id /\ \A i \in 2..Len(result) : result[i] # primary.id

\* Nothing is repeated that no administrator repeated: without a chain the models
\* are all different, with one each occurs at most as often as in the chain.
Times(s, m) == Cardinality({i \in DOMAIN s : s[i] = m})
NoNewRepeats ==
    at = "done" => \A m \in ToSet(result) \ {primary.id} :
        Times(result, m) <= IF chain = <<>> THEN 1
                            ELSE LET n == Times(chain, m) IN IF n = 0 THEN 1 ELSE n

(* The reference: what a resolution would return if the catalog stood still. *)

\* What stands in front: a model of the requested name, when one is active.
Heads(name) ==
    LET firsts == IF name = NoName THEN {} ELSE GetActiveModelByName(name)
    IN  IF firsts = {} THEN {<<>>} ELSE {<<m>> : m \in firsts}

\* The chains that the first tag to select any selects, or else the default chain.
Selecting(tags) == {i \in DOMAIN tags : GetFallbackChainByTag(tags[i]) # {}}
Selected(tags) ==
    IF Selecting(tags) = {} THEN Default
    ELSE GetFallbackChainByTag(tags[Min(Selecting(tags))])

\* What a list leaves to be tried behind h, and each of the listings of a set.
Behind(h, ids) == Kept(ids, Active \ ToSet(h))
AllBehind(h, listings) == {Behind(h, s) : s \in listings}

Chained(h, tags) == {h \o Behind(h, chains[c].ids) : c \in Selected(tags)}
Unchained(h, tags) ==
    IF h # <<>>
    THEN LET peers == AllBehind(h, GetActiveModelsByTags(models[h[1]].tags))
         IN  {h \o s : s \in IF <<>> \in peers THEN AllBehind(h, ListActive) ELSE peers}
    ELSE LET some == GetActiveModelsByTags(ToSet(tags))
         IN  IF <<>> \in some THEN ListActive ELSE some

\* There is no chain, or one that gives nothing.
GivesNothing(h, tags) == Chained(h, tags) = {} \/ <<>> \in Chained(h, tags)
Resolutions(name, tags) ==
    UNION {(Chained(h, tags) \ {<<>>})
             \cup (IF GivesNothing(h, tags) THEN Unchained(h, tags) ELSE {}) : h \in Heads(name)}

\* A resolution is what one look at the catalog would give, although it is made of many
\* queries: when no edit and no failure came between, it returns the requested model and
\* the chain of the first tag that selects one, or else the default chain, and nothing
\* behind it; without a chain, or when that gives nothing, the models sharing a tag, or
\* else every active model (router.go:28-127).  That is the code's order, not its
\* comment's: step 5 of that, to append the remaining active models to a chain
\* (router.go:27), is not taken, and a result that took it would violate this.
ResolvesTheSnapshot ==
    (at = "done" /\ still) => result \in Resolutions(req.name, req.tags)

\* Every resolution ends, whatever is edited meanwhile.
Resolves == (at = "primary") ~> (at \in {"done", "error"})
=============================================================================
