# A verification development for ThriftLLM

ThriftLLM is a self-hosted proxy for LLM providers: one OpenAI-compatible
endpoint in front of seven providers, with fallback chains, a semantic cache, API
keys, rate limits, request logs and a dashboard. The backend is Go
(`src/backend`), the dashboard Next.js (`src/frontend`), the state is in
PostgreSQL (`src/init.sql`) and Redis.

This directory holds TLA+ modules translated from that code, TLC configurations
that check them on small instances, and TLAPS proofs of what matters most. It
says what the code does; where a document or a comment of the repository says
something else, section 6 tells, and a run shows the worst case.

## 1. The system

### Parts, state and operations

| part | source | state | operations |
|---|---|---|---|
| chat completions handler | `handler/proxy.go` | per request: chain, loop index, `fallbackDepth`, `lastResult`, `lastErr`; goroutines it leaves | cache lookup, loop over the chain, error mapping, `logRequest` |
| executor | `proxy/executor.go`, `proxy/provider.go` | the HTTP call, the SSE stream being copied | `Execute`, `ExecuteStream`, `ResolveProviderConfig` |
| router | `proxy/router.go` | none; reads models and chains | `ResolveChain`, `ParseTags` |
| transformers | `proxy/transformer/*.go` | none | request, response and stream chunk per provider |
| model and chain catalog | `handler/models.go`, `handler/fallbackchains.go`, `store/queries.go`, `init.sql` | `model_configs`, `fallback_chains` | create, update, delete, toggle, the switch of the default chain |
| semantic cache | `cache/semantic.go`, `handler/cache.go` | Redis hashes `sc:*` with a TTL, the vector index | `Lookup`, `Store`, `FlushAll`, `EntryCount` |
| rate limiter | `middleware/ratelimit.go` | one Redis sorted set per key | one pipeline per request |
| API keys | `middleware/apikey.go`, `handler/apikeys.go` | `api_keys` | create, update, delete, check, touch |
| setup and admin account | `handler/setup.go`, `handler/auth.go`, `middleware/auth.go` | `setup_status`, `admin_users`, JWT cookies | setup, login, me, profile, password |
| request log and statistics | `store/queries.go`, `handler/dashboard.go` | `request_logs` (partitioned), `usage_daily`, `cache_stats_daily` | insert, list, overview, breakdown |
| aggregator | `aggregator/cron.go`, `store/queries.go`, `init.sql` | the daily tables, the partitions | hourly aggregation, partition creation |
| process | `cmd/server/main.go`, `server/server.go`, `config/config.go` | running, draining, stopped | start, drain, stop; routes |
| dashboard: reports | `frontend/src/app/(dashboard)/{requests,overview,analytics,cache}/page.tsx`, `lib/api.ts` | React state of the page on screen | filter, search, turn pages, choose a range, flush; load |
| dashboard: editing | `.../{models,chains,api-keys}/page.tsx`, `app/api/[...path]/route.ts` | the list, the dialog | open, fill, save, delete, switch; load |
| dashboard: session | `lib/auth.tsx`, `layout.tsx`, `app/page.tsx`, `login`, `setup`, `settings` | `user` and `loading` of the provider, the cookie, the address | sign in, set up, sign out, save the profile; the redirects |

### How they interact

A request to `/v1/chat/completions` passes the logger, the API key check (one
query, and a goroutine that touches the key), the rate limiter (one Redis
pipeline), and reaches the handler. The handler asks the router for a chain (up to
`2 + tags + chain length` separate queries, in no transaction), the cache for a hit,
then the executor for each model of the chain in turn. It leaves a goroutine for
the cache store and one for the log row; nothing waits for them. The dashboard's
handlers edit the models and chains meanwhile, flush the cache, and read the
rows; the aggregator folds the rows into daily tables every hour. A page of the dashboard
calls a handler through a route of the Next.js server that turns the cookie into a bearer
token and hands new cookies back; it awaits the answer and sets its state, and cancels
nothing when the user goes on.

### What is hard about it

* **Interleaving.** Handlers of different requests share the cache; the router
  reads what administrators edit between its queries; two setups, two edits of
  the default chain or two requests under one limit run at the same time.
* **Ordering.** A log row and a cache entry are written by goroutines that outlive
  the handler; dashboard pages apply answers in the order they arrive, to a dialog or a list
  that may be another by then; tabs share a cookie and nothing else.
* **Failure.** Providers refuse, time out, break off mid-stream; a client
  leaves; Redis or PostgreSQL fails between two statements of one operation; the
  process stops with goroutines pending.
* **Time.** Entries expire, windows slide, days end while nobody aggregates them.

PROJECT.json lists these as hazards, each at its line.

### What makes each part correct

* handler: the answer is the verdict of the attempts made; at most three
  attempts; a started stream is never retried; one log row per answered request
  or an accounted loss; headers name what really answered.
* cache: an entry holds what a provider answered to the request it is filed
  under; a hit is near enough; entries expire; a flush empties.
* router: the result starts with the requested model when that is active, has no
  inactive model, repeats none the administrator did not repeat, and is the chain of one
  of the catalog's states during the resolution.
* catalog: the default chain is not lost between two saves: there is none only after a save
  that was to set one failed, or somebody unset or deleted it. (That there are not two is
  the work of an index, init.sql:70-71, which `Allowed` is.)
* rate limiter: no window of a minute admits more than the limit.
* setup: whoever is told that setup is complete has the truth of it: the account is there, no
  later setup makes another, and somebody can log in.
* aggregator: the daily tables equal the sum of the rows, once.
* streams: what the client reads is what the provider sent, in order, with an end marker.
* requests: what the client wrote reaches the provider, each message in its place.
* dashboard: a page at rest shows what was asked last and what the table holds; a save goes
  to the row its dialog was opened for; a walk through the log misses no row; a new key is
  seen; a tab shows the user it is signed in as, and does not get stuck.

## 2. The modules

Every module translates the source named in its row; PROJECT.json ("map") gives the
lines of each definition. Operators marked `mutant` stand before the definition they
replace and are a plausible bug in it; none of them is part of a specification.

| module | models | its state is | its actions are |
|---|---|---|---|
| `ProxyHandler` | `ChatCompletions`, `logRequest`, the executor as its caller sees it, the end of the process | `pc`, `pos` (`i + 1`), `depth` (`fallbackDepth`), `lastStatus`, `lastErr`, `reply`, `wire` per request; `cache`, `storeJobs`, `logJobs`, `rows`, `lost` | one per branch of the handler (`LookupHit`, `SkipModel`, `ProviderRefuses`, `StreamEnds`, ...), per goroutine (`StoreRuns`, `LogInserted`, and their failures), `ClientGone`, `Signal`, `ShutdownDone`, `Killed`, `Restart` |
| `ProxyContract` | what a client of the handler may rely on | a phase, a source and a ledger per request | `Answer`, `Fail`, `Publish`, `Write`, `Stop`, ... |
| `Catalog` | `model_configs`, `fallback_chains`, the queries over them, their administration | the two tables, the chain edit each administrator has in progress | one per SQL statement: `ClearDefault` and `InsertChain` are two |
| `Router` | `ResolveChain` over the catalog | the query that is next, the result so far | one per query, and one per way it fails |
| `ApiKeys` | `api_keys`, `APIKeyAuth`, the goroutine that touches a key | the table, the request each handler checks, the goroutines | `CreateAPIKey`, `ToggleAPIKey`, `DeleteAPIKey`, `Present`, `Admit`, `Unauthorized`, `UpdateAPIKeyLastUsed` |
| `RateLimit` | the pipeline of `middleware.RateLimit` in Redis | the sorted set, its expiry, the next command of each connection | one per Redis command, `Resend` and `Break` for a pipeline that breaks off and is sent again or given up, `Tick` |
| `Gateway` | the middleware chain of `/v1` | that of `ApiKeys` and `RateLimit` | a request enters `RateLimit` when `ApiKeys` admitted it, and departs when the limiter has decided |
| `SemanticCache` | `Store`, `Lookup`, `FlushAll`, `EntryCount` in Redis | the hashes with their expiry, the walks of flush and count | one per Redis command or page of SCAN, `Resend` and `BreakOff` |
| `Selection` | what loops and filters keep of a list, as an operator | none | none |
| `Transformers` | the three transformers, as operators | none | none |
| `Executor` | one call: the request that is sent, the response or the stream | the lines sent, how many were read, the frames written | the provider's lines, `Scan`, `ScanEnds` |
| `AdminAccount` | setup, login, profile, password | `setup_status`, `admin_users`, each request between its statements | one per statement, with its failure |
| `Aggregator` | the hourly run, the daily tables, the partitions, inserts of rows | the tables, the run under way, the clock in hours | one per statement, the ticks, the process's stops |
| `Browser` | a tab as every page has it: `apiFetch`, the route handler, mounting and leaving | the page on screen (`at`), its React state (`ui`), the calls outstanding | `Ask`, `Resume`, `Throw`, `Visit`: what the pages' actions are made of |
| `RequestLog` | `request_logs` as it is listed and counted | the rows in order, how many are older than a day | `InsertRow`, `Age` |
| `RequestsPage` | `requests/page.tsx`, `ListRequestLogs` | that of the page | one per control, the debounce timer, `CountRows` and `SelectRows`, the answer |
| `StatisticsPages` | `overview`, `analytics`, `cache` and the statistics they read | that of the pages; the cache entries | one per control; one per query; the answers; `FlushAll` |
| `Reports` | the four pages above in a tab, over one log | that of its parts | theirs, and the sidebar (`Return`) |
| `ModelsPage`, `ChainsPage`, `KeysPage` | the pages of that name and what they ask of the backend | the list, the dialog and the row it edits; `keys` | one per handler, one per answer, `EditModel`, `Clear`, `Write`, `EditKeys` for the backend |
| `Console` | these pages in a tab, and another administrator | that of its parts | theirs, `Others`, the sidebar |
| `Session` | `AuthProvider`, the layout, the home page, the forms, the cookie | per tab: page, history, `user`, `loading`; the cookie; calls | one per form, link, effect, endpoint and answer; `Fails`, `Expire` |

### How they compose

`Router` EXTENDS `Catalog` and `Selection`: its queries are the catalog's operators, and the
administrators' actions run between them. `Gateway` EXTENDS `ApiKeys` and `RateLimit` and joins
their actions. `Executor` EXTENDS `Transformers`, which like `ChainsPage` EXTENDS `Selection`.
`RequestsPage` and `StatisticsPages` EXTEND `Browser` and `RequestLog`, and `Reports` joins
them; `ModelsPage` EXTENDS `Browser` and `Catalog` (what a save does to a table is the
catalog's action, statement by statement), `ChainsPage` that, and `Console` joins them with
`KeysPage`. `ProxyHandler` INSTANCEs `ProxyContract` with a refinement mapping (`Contract`),
and the contract's specification is a property of it. The interfaces that are not composed are
abstracted on purpose: `ProxyHandler` takes any chain of `Chains` where `Router` would return
one (what `Router` returns is its own properties' subject), any outcome where `Executor` would
end, and holds cache entries as a set that loses members at any time, where `SemanticCache`
says when.

The proofs are in modules of their own, each for what meets in it:

| module | proves about |
|---|---|
| `SequenceLemmas` | sequences: induction, what `Kept` and `FlattenSeq` return |
| `ChatProofs` | `ProxyHandler` and `Executor` |
| `CatalogProofs` | `Catalog` and `Router` |
| `AccessProofs` | `Gateway` and `AdminAccount` |
| `BackgroundProofs` | `SemanticCache` and `Aggregator` |
| `ReportsProofs`, `ConsoleProofs`, `SessionProofs` | `Reports`, `Console`, `Session` |

### Abstractions

* Embeddings: `Embedding` keeps what `computeEmbedding` reads of a request (roles
  and texts, in order) and `Distance` is a parameter: the hashing of trigrams and words
  into 64 dimensions is arithmetic no property depends on. `ProxyHandler` reduces
  a request to the `Prompt` that its embedding tells apart.
* Time: hours in `Aggregator`, ticks in `RateLimit` and `SemanticCache`; none in
  `ProxyHandler`, where a timeout is an outcome that may come at any point.
* The Redis client is outside the repository; redis.go:15-20 leaves its defaults in place, and
  by these a pipeline that breaks off is sent again, whole, before it is given up. `Resend`
  of `RateLimit` and `SemanticCache` is that.
* A query of the router orders what it lists by priority, or by priority and age; rows that tie
  come in any order, so `Peers` and `Rest` are sets of orderings.
* A page forgets what it kept when it is left, so a tab is on one page for the whole of a
  behaviour of `Reports` or `Console`, which begins with any page; leaving one is mounting it
  again while its calls are still under way (`Visit`). An edit whose page is gone, or whose
  call failed for the page, may still be carried out later, or never (`Forget`, `Stop`).
* In `RequestLog`, what ILIKE finds in a row is a set of words, and only age matters of time.
  A sum is represented by the count beside it. The fields of a model form are one value.
* In `Session`, one administrator, with a name; what else a profile has moves with it. A call
  that failed is not carried out afterwards. The token's lifetime is `Expire`, at any time.
* Secrets, hashes, identifiers, JSON, costs, latencies, token counts: left out. A key's
  hash is the key; an account's id is the setup that made it.
* History variables (`trace`, `asked`, `served`, `refused`, `resent`, `whole`, `seen`, `still`,
  `was`, `held`, `late`, `told`, `hit`, `sent`, `outage`; in the dashboard `doubt` and `fresh`, which
  say that an answer was overtaken, lost or made stale, `meant`, `left`, `told`, `seen` and
  `walk`) record what happened for the properties. No
  guard of the code's control depends on them, with one exception that is a bound: the number
  of failures in `Aggregator`.

## 3. What the runs show

| run | bounds | it shows |
|---|---|---|
| `proxy_one` | one request, four models (two of one name, one without a key), eight chains of one to four places | `ReplyIsVerdict`, `LogAccounting`, `EveryRequestEnds` |
| `proxy_two` | two requests, two prompts, chains `<<m1, m3>>` and `<<m3>>` | `CacheProvenance`, `HitIsHonest`, `RowMatchesReply`, `StreamCommits`, `ImplementsContract` |
| `router` | 12 catalogs of up to three models and two chains, two edits during the resolution | `OnlyActiveModels`, `RequestedFirst`, `NoNewRepeats`, `ResolvesTheSnapshot`, `Resolves` |
| `gateway` | two handlers, one key, three requests, a window of two ticks, two edits, one pipeline sent again | `BoundedBurst`, `RefusedForCause`, `AdmittedWasActive`, `DeletedIsFinal` |
| `semantic_cache` | two stores, time to live of two ticks, three ticks | `StoredThenExpires`, `FlushIsComplete`, `CountMissesNone` |
| `executor` | conversations of up to four messages, four lines of up to two parts, every format | `ConversationIsKept`, `AllIsSaid`, `DoneIsHonest` |
| `admin` | four requests of any kind, two emails, two passwords | `SomebodyCanLogIn`, `SetupCloses`, `AnswersHold`, `ChangedByHolder` |
| `aggregator` | three days of two hours, each a month, two rows, one failing statement, any number of stops | `StatsAreExact`, `UsageIsExact`, `RefusedAfterLongOutage` |
| `reports` | any of the four pages, three clicks, two calls at a time; three rows, pages of one and two; two ranges; two stored responses | `ShownIsAsked`, `WalkMissesNone`, `DayWithinAll`, `FlushIsShown` |
| `console` | any of the three pages, five clicks (four on the chains), two calls at a time; two models, two chains, two keys; one edit of another administrator | `DefaultIsKept`, `ShownIsTable`, `SavesHitTheirTarget`, `KeyIsSeen` |
| `session` | two tabs, three calls at a time, three acts of the user, two names | `ShownIsTrue`, `Settles` |
| `aggregator_daily` | as `aggregator` | that `DailyAggregations` fails (section 6) |

### Why the bounds are enough to be interesting

* `proxy_one`: the loop ends after three places, so a chain of four has one that must not
  be looked at; `<<m4, m4, m4, m1>>` spends all three on models without a key. `m1` listed
  twice and `m2` of the same name catch a confusion of models with names. Refusals of
  two statuses tell the last status from an earlier one.
* `proxy_two`: two requests are what a hit needs, a fallback that stores under a name other
  than the first model's, and a chain that looks up that name. Two prompts, at a distance
  beyond the threshold, tell a wrong hit from a right one. Two handlers, their four
  goroutines, a shutdown and a crash interleave freely.
* `router`: an inactive model, a deleted one, an id listed twice, tags that select a chain
  and tags that do not; after two edits a model may have been switched off and on again.
* `gateway`: with a limit of one, two handlers that both count before either adds pass it
  by one, the most that `BoundedBurst` allows; three requests let one be refused for
  the sake of another that was itself refused; three ticks let the window slide past one. One
  pipeline is sent again, by which a request counts itself. The two edits make the key and
  switch it off or delete it; longer histories of a key are the proof's.
* `semantic_cache`: an entry that a flush must delete and one stored while it walks; a lag
  between HSET and EXPIRE, a pipeline sent again any number of times, which may bring back an
  entry that a flush deleted.
* `executor`: four lines are text, text, finish and `[DONE]`, or a garbled, blank or
  overlong line in any place, or what came of a line before the connection broke; two parts make Gemini's
  first differ from the rest. Two texts tell two messages apart, and one system message from a
  second; the array has a text, too, which `ConversationIsKept` excepts by name.
* `admin`: two setups that race, with a login and an edit of the account the first made,
  or two password changes of one account; or setups that fail one after the other, one that
  is answered and one that begins after it.
* `aggregator`: a run that begins before midnight and ends after it, a row dated before
  midnight and seen after, an outage longer than a day, a month without a partition.
* `reports`: a first answer outstanding and a second question, answered in either order, is
  two calls; one more question makes the answer that comes last one of the middle. A walk
  over two pages of one row, with a row that pushes the others on at any time, and a row that
  each filter leaves out.
* `console`: two saves of two dialogs (open, cancel, open again, fill and save is five clicks;
  open and save twice, or open, choose, move and save, is four on the chains), a
  switch and a load that cross, a delete of the row that is edited. The default chain moves
  from one chain to another, in this tab and by the other administrator, between the two
  statements of either, any of which may fail; so both may be between them at
  once, one be refused, and none be the default in the end.
* `session`: one tab begins on the home page, the other on the settings, before and after the
  setup, with and without a cookie. Three acts are a sign-in, a sign-out and a sign-in, or a
  profile that is saved as another tab signs out. The first questions (`/me`) may come back
  after all of it.

`CHECK_DEADLOCK FALSE` stands in the runs whose clock, requests or lines are used up by a
bound, and in `session`, where a tab that has come to rest is no error; the others, the
handler's and the pages' among them, are checked for deadlock.

### Fairness

* `FairSpec` of `ProxyHandler` assumes that a handler that can go on does (a call of a
  provider ends within the client's 120 s, executor.go:27; every select, write and query
  of the handler returns) and that a log goroutine ends (its insert has 5 s,
  proxy.go:230). Nothing is assumed of clients, of requests that arrive, of the cache or of
  the process: `EveryRequestEnds` holds whether or not anybody kills the process. A stream
  ends too: the client's timeout covers the reading of the body.
* `Resolves` assumes that a resolution goes on (a query answers or fails). The edits
  are not fair, and bounded by `MaxEdits` in the run.
* `Spec` of `Session` assumes that a browser runs the effects of what it rendered and that
  requests end, if not with an answer then with their connection. Each is fairness of the
  whole (some effect, some call), which is enough: the user's acts are bounded, so there are
  finitely many calls and each ends. Nothing is assumed of the user or of the cookie's age.
* The other modules state safety only.

## 4. What is proved

`tlapm` checks these for every value of the constants that satisfies the assumptions the
modules name: each invariant and action property of the passing runs. The proofs about a
component rest on one inductive invariant (or two that do not meet), a conjunction of named
parts that TLC found to hold on the run of the component before it was proved.

| theorem | property | argument |
|---|---|---|
| `ChatProofs!TypeCorrect` | `TypeOK` | `TypeOK` is not inductive: `pos` stays within the chain and below four only because of where the handler is. `TypeInv` adds `Control` (what `pc` says about `pos`, `depth`, `input` and `reply`). |
| `ChatProofs!CacheIsProvenanced`, `HitsAreHonest` | `CacheProvenance`, `HitIsHonest` | A hit is honest because the entry had a provenance, and provenance lasts because an answered request's reply and input never change again. `Provenance` is the two with `Settled` (a request whose response is in use has left the loop). |
| `ChatProofs!RepliesAreVerdicts`, `RowsAreAccounted`, `RowsMatchReplies` | `ReplyIsVerdict`, `LogAccounting`, `RowMatchesReply` | The properties speak of handlers that are done. `RequestInv` says what holds before: the attempts so far are the models passed over, in order, and all failed, with `lastResult` that of the latest refusal (`Underway`); bytes were sent by a stream alone (`Streamed`); a handler about to write decided on what it writes (`Concluded`); rows running, written and lost add up to what is owed (`Accounted`), and a row that a goroutine still holds matches already (`RowsMatch`). |
| `ChatProofs!StreamsCommit` | `StreamCommits` | From `Streamed` and `Control`, one lemma per kind of step: whoever has sent bytes is streaming, done or aborted, and no step leads from there to another model. |
| `ChatProofs!HandlerImplementsContract` | `ImplementsContract` | The refinement of `ProxyContract`. `Sound` collects the invariants above and `SourcesDecided` (what is cached or served comes from a decided request); initial states map to initial states, and each action to the contract's action, or to a stutter, by what it does to one request's phase, source and ledger. |
| `ChatProofs!ExecutorInvariant`, `DoneIsTheEnd`, `NothingIsLost`, `ConversationSurvives` | `DoneIsHonest`, `AllIsSaid`, `ConversationIsKept` | `ExecutorInv`: only the last line ends a message, but for a `[DONE]` behind it (`ProviderInv`); the loop has read a prefix of what was sent, and stopped where it had to (`ReadInv`); what the frames say is what that prefix says (`SaidInv`). One more line read is one more piece at the end of a flattened sequence (`FlattenAppend`). What Anthropic and Gemini get of a conversation is what a loop keeps of it, and `KeptPlaces` says where each message has gone, the last of the system's to the end. Texts are compared with what the client wrote; contents that are arrays are excepted, since theirs is lost (section 6). |
| `CatalogProofs!DefaultIsNotLost` | `DefaultIsKept` | One step per statement of a save. A save that clears flags is one of a default chain (`ClearsForDefault`), so from then on the chain it is about to write stands for the default (`Replacing`), until that save ends; a new chain takes no other's place (`ChainsAreCreated`), and an update without the flag takes it only from its own chain. Any number of administrators may be between their statements. |
| `CatalogProofs!OnlyActiveIsTried`, `RequestedIsFirst`, `NothingIsRepeated` | `OnlyActiveModels`, `RequestedFirst`, `NoNewRepeats` | `RouterInv`, over a catalog that is edited all the time: whatever was read was in use when it was read (`Seen`); from the walk of the chain on, the requested model stands in front and nowhere else (`Headed`); another stands there at most as often as in the part of the chain walked so far (`Repeats`, with lemmas that count occurrences in a sequence), and the orderings of `Peers` and `Rest` have no member twice. |
| `CatalogProofs!SnapshotIsResolved` | `ResolvesTheSnapshot` | The code's own order, in which a chain is all there is: step 5 of router.go:27 is not in it (section 6). `SnapshotInv`, what each query was made after while nothing was edited and no query failed: no earlier tag selects a chain, the result is what stands in front and what the walked part of the chain leaves, there was no chain or it gave nothing. The code asks for the models without the requested one, the reference asks for all and leaves it out: `LeftOut` says that an ordering of the ones is what is left of an ordering of the others, for which `Ranked` (priorities are numbers) makes the orders total. |
| `AccessProofs!AdmittedKeysWereActive`, `DeletedKeysAreFinal` | `AdmittedWasActive`, `DeletedIsFinal` | `WaitingRemembers`: a request that still waits for its check knows when its key is active now; the check then reads an active key. |
| `AccessProofs!RefusalsHaveCause`, `BurstsAreBounded` | `RefusedForCause`, `BoundedBurst` | `LimitInv` follows the sorted set through pipelines that interleave, are sent twice and break off: members are fresh (`Pipelines`), a pipeline meets its own only when it was sent before (`AddedOnce`), what it counts was made within its window (`Recent`, `Founded`), and a key that Redis drops takes with it only what was served long ago, or, once a pipeline broke off, at most one member per connection (`Expiries`, `MissingIsFew`). A burst is then a set of `Passing` requests all but `Limit` of which were between ZCARD and ZADD at the same time (`Bursts`), which is one per connection. |
| `BackgroundProofs!StoredEntriesExpire`, `FlushesAreComplete`, `CountsMissNone` | `StoredThenExpires`, `FlushIsComplete`, `CountMissesNone` | `CacheInv`: what a store that is under way will set as expiry (`Expiring`); every key that was settled when a flush began and is still there is in what SCAN has to return or in the batch to be deleted (`Flushing`); of the keys a count began with, those still there and already returned are no more than it has counted (`Counting`). |
| `AccessProofs!NobodyIsLockedOut`, `SetupIsClosed`, `SetupAnswersAreFinal`, `PasswordsAreChangedByHolders` | `SomebodyCanLogIn`, `SetupCloses`, `AnswersHold`, `ChangedByHolder` | One invariant, `AccountInv`: an account is there from the moment its setup has only the flag left to set (`AccountsAreMade`), a setup that came late gets no further than its check (`LateIsRefused`), who was told that setup is complete was told so when it was and had an account, and whoever begins after that is late (`AnswersAreTrue`), and the history of a password change has the account's password at each of its statements (`HistoryIsKept`). |
| `BackgroundProofs!ClosedDaysAreCounted`, `ClosedDaysAreBilled`, `PartitionsLast` | `StatsAreExact`, `UsageIsExact`, `RefusedAfterLongOutage` | `AggInv`: a run keeps the day it began and lasts less than an hour (`Timely`); for each part and each hour, the part is still owed by a run, was missed in an outage, or is done and right, and stays right because by the second hour of a day the rows of the day before are in (`Runs`); a row is refused only when every run that could have created its partition was missed (`Refusals`). Any length of days and months. |
| `SessionProofs!TabsShowTheTruth` | `ShownIsTrue` | `ShownIsTrue` says nothing of the answers under way, which become what a tab shows. `SessionInv` adds what a call that nothing overtook knows (`CallTrue`: its token stays valid, its answer is the administrator's name, its save is what is stored), that a token means a finished setup (`SetUp`), and that a save excuses a tab only once it is stored (`TabTrue`). One lemma says what an answer does to a tab, the cookie and the other tabs together (`ComesInv`). |
| `ReportsProofs!ShownRowsAreAsked` | `ShownIsAsked` | `Asked`: a call that nothing overtook asks for what is on screen, there is one at most, and when there is none, none is due and none was lost, what is on screen was asked for. For the analytics, every table under way and on screen is of one range (`AnalyticsInv`). |
| `ReportsProofs!WalksMissNone` | `WalkMissesNone` | Which rows a page holds depends on how many newer ones there are, and these grow. `Covers`: each row the walk began with was seen, or is now pushed behind the pages walked (`Newer` counts the rows that push it). `HasSeen` says so of the page on screen, `Brings` of an answer under way, whose page may have been selected before more rows came; inserting a row keeps both since `Newer` never falls (`RowsComeAfter`), and at the last page there is nothing behind (`PageCovers`, `PagesHoldAll`). |
| `ReportsProofs!DaysAreWithinAll`, `FlushesAreShown` | `DayWithinAll`, `FlushIsShown` | `DayFirst`: of the counts under way the day was read first, and rows do not get fewer. `CacheInv`: a count that no flush overtook lists entries that are there, and until the page has such a one, a flush it waits for or a load that is due stands between it and rest. |
| `ConsoleProofs!ConsoleInvariant`, `PagesShowTheTables`, `SavesAreMeant`, `NewKeyIsShown` | `ShownIsTable`, `SavesHitTheirTarget`, `KeyIsSeen` | `ConsoleInv`, with a part for each page. Of a listing under way: its rows are rows of the table, and if nothing overtook it, they are the table; of a switch that was carried out: the row is as it said (`ModelCall`, `ChainCall`, `KeyCall`). Of the page: each row on screen is the table's, or a switch, a listing or an answer is still to come, or `doubt` says what went wrong (`ModelsAgree`, `ChainsAgree`, `KeysAgree`). The row a dialog edits is the one it was opened for (`editing = meant`), also while an earlier save is under way. |

Assumptions: `ModelAssumption`, `StatusAssumption`, `DistanceAssumption` (the chains are
sequences of models, refusals are statuses other than 200 and 400, the null values are
no members of their sets); `BoundAssumption` and `BodyAssumption` of `Catalog` (a chain that is
written has a list of models that is not empty, fallbackchains.go:36, 67); `TagAssumption` (a
request's tags are a list);
`NoModelAssumption`, `KeyAssumption`, `GatewayAssumption`, `RateAssumption` (there
is a connection, there are finitely many, and a pipeline takes less than a window),
`CacheAssumption`, `AccountAssumption`, `CalendarAssumption`, `SessionAssumption` (tabs and
calls are numbered, no name or call is `None`), `LogAssumption` (the first rows fit in the
log), `LimitAssumption` (pages are not empty), `RangeAssumption`, `NoneAssumption` (no sum
is `None`), `ExecutorAssumption` (a content is text or
parts, the empty text is not among the texts), `BrowserAssumption` and `KeysAssumption` (the bounds
are numbers), `ConsoleAssumption` (a tab's calls are known to the catalog as administrators, `None`
is no number, a chain lists a model once, as its dialog does, and the first tables are tables
of such rows). TLC evaluates each of them in the run of its module.

Sequences of any length (conversations, streams, chains, listings) take induction. The
library's induction theorems have an operator as a parameter, which the provers do not
instantiate; `SequenceLemmas` states induction of sets instead. `Least` (a set of numbers that
is not empty has a least member, since inclusion of finite sets is well-founded) gives `Induction`, a set
that holds 0 and the successor of each member holds every number, and that gives
`SequenceInduction`, a set of sequences that holds the empty one and, with each, the sequences one
longer holds all. `Kept` and `FlattenSeq` are functions over the places of a sequence; that there is
such a function is the first thing proved of each (`SelectionExists`, `FlatteningExists`).

Only model-checked: liveness (`EveryRequestEnds`, `Resolves`, `Settles`), and whatever needs
ENABLED.

## 5. What is not modelled

* Of the dashboard: the password form (its request is in `AdminAccount`), the copy buttons, the
  limit of a new key, charts and components, which have no behaviour to explore. The pages of
  `Console` list whole tables: a listing that breaks off unnoticed (queries.go:94) is in `Router`.
* Deadlines of the handler: the server's `WriteTimeout` of 120 s covers all three attempts,
  each of which may take 120 s itself. `ProxyHandler` has no clock.
* `ShouldRetry` (executor.go:262), `cache.RateLimiter` (semantic.go:317) and the `[DONE]`
  branch of the OpenAI transformer (openai.go:64) are reached by no caller.
* Configuration, opening the stores, routes, CORS, logging, Docker: no state that changes.
* Expiry of API keys: no code sets `expires_at`.

## 6. Divergences

### Shown by a run

* `aggregator_daily` — README.md:14 says "with daily aggregations"; the statement groups by
  provider as well (queries.go:706) and upserts on a key without it (queries.go:707,
  init.sql:155), so a day on which a fallback served one alias by two providers is
  refused by PostgreSQL and never aggregated.

### Read in the code while modelling

These are facts of the models (an action or operator does what the code does) and have no run of
their own.

* router.go:27 says "5. Append any remaining active models not in the chain as a last
  resort."; router.go:78-81 returns the requested model and the chain's, and nothing else
  (`EndWalk`): an active model outside the chain is never tried. `ResolvesTheSnapshot` claims
  what the code does, not this step.
* types.go:149 has the content of a message as "string or array for vision"; `ContentString`
  is empty for an array (types.go:152-157), and it is all that Anthropic and Gemini are sent of
  a message (anthropic.go:80, gemini.go:74): the text of an array is lost with its images.
  `ConversationIsKept` speaks of contents that are strings.
* It is empty in the cache as well (semantic.go:234), so two requests that show different images have one embedding, and the
  second is answered with the response to the first (`Embedding`).
* Rows of failed requests: `logRequest` writes the constant 200 (proxy.go:213), also for a
  400, and total failures write no row; the requests page offers an Error filter that asks for
  status 500 (requests/page.tsx:89) and can find none.
* `X-Thrift-Provider` on a hit names the chain's first model's provider (proxy.go:65),
  which need not be the one that answered; README.md:138 says "Which provider was used".
  (`HitIsHonest` claims the name only.)
* "Graceful shutdown" (main.go:66) waits for handlers, not for their goroutines (main.go:86):
  rows and entries still on the way are lost (`ShutdownDone`).
* "Per-API-key sliding window rate limiting" (README.md:15) is a pipeline and no
  transaction (ratelimit.go:25): the limit can be passed by the handlers that are in it
  together (`BoundedBurst` says how far).
* A flush whose DEL fails reports "cache flushed" (semantic.go:199, handler/cache.go:43).
* An entry whose EXPIRE is lost never expires (semantic.go:175-185); README.md:124 says
  "Cache entries expire after 24 hours (configurable)". `THRIFT_CACHE_TTL` is set in
  docker-compose.yml:47 and read nowhere.
* Of several system messages Anthropic and Gemini are sent the last (anthropic.go:75,
  gemini.go:61).
* A save of a default chain whose second statement fails leaves no default: the first was
  carried out, in no transaction (queries.go:393-409). Of two such saves at once the unique
  index may refuse one. `DefaultIsKept` says that nothing else loses it.
* A setup that fails after its account is there is answered 500, and the same email is refused
  from then on while setup stays open to others (setup.go:61-70).
* Streams of Anthropic end without `[DONE]` (anthropic.go:172-188), those of Gemini unless
  the last candidate is without text (gemini.go:162-199); Anthropic's stream says "stop" where the response
  would say "length" (anthropic.go:173, 110-113).
* Two setups that run at the same time make two administrators (setup.go:29-67), and two
  password changes from one old password both succeed (auth.go:135-157).
* The provider filter of the requests page offers "google" (requests/page.tsx:200), rows hold
  "gemini" (models/page.tsx:47): it finds none. "Configured providers" on the overview counts active
  models (overview/page.tsx:63, queries.go:593).
* The number of requests and of hits are read one after the other (queries.go:679-683): a hit
  rate can exceed 100% and the misses be negative, and a query that fails shows as zero.
* A row that comes between the COUNT and the SELECT of the last page pushes a row off it that
  a reader who walks the pages never sees (queries.go:524-547); `WalkMissesNone` excepts it.
* A key that is created while its dialog was closed is set in a dialog that is not open, and the
  button that opens it forgets it (api-keys/page.tsx:68, 123): nobody ever sees the key.
* The chain dialog lists only the selected models it knows: the id of a deleted model is counted,
  sent again and cannot be removed (chains/page.tsx:220-222). A chain saved from a dialog
  overwrites what others changed since it was loaded (chains/page.tsx:111-118).
* Nothing tells a tab that its cookie is gone: the pages show errors in the console, the user stays
  on screen until the tab is loaded again (lib/auth.tsx:43-45, api.ts:15-18). And an answer to
  `/me` that was asked before a login signs the tab out on the page, cookie and all.
* A disabled key is answered 401, never the 403 of apikey.go:38-45: the query finds active
  keys only (queries.go:272).

## 7. Plan

The order was: the handler, because everything else exists for it; the catalog and the
router that feed it; the gateway before it; the cache, the executor and transformers behind
it; then the account and the aggregator; then the dashboard, as its pages and its session; then the
proofs, of which none is left that the provers can do. What would come next:

1. A clock for the handler: `WriteTimeout` against the deadlines of three attempts.
2. An abstract cache (what was stored, until when) that `SemanticCache` implements, to stand
   between it and `ProxyHandler`.
