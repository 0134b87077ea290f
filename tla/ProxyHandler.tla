---------------------------- MODULE ProxyHandler ----------------------------
(***************************************************************************)
(* POST /v1/chat/completions: the handler that answers a request from the  *)
(* semantic cache or by trying the models of its chain in order, the       *)
(* executor's two ways of calling a provider, and the goroutines the       *)
(* handler leaves behind (one stores a response in the cache, one inserts  *)
(* the request's log row).  Handlers of several requests interleave with   *)
(* each other, with those goroutines, with clients that disconnect, with   *)
(* cache entries that expire or are flushed, and with the shutdown and the *)
(* crash of the process.                                                   *)
(***************************************************************************)
EXTENDS Integers, Sequences, FiniteSets

CONSTANTS
    Requests,     \* requests, each served at most once
    Models,       \* model configurations (rows of model_configs)
    NameOf,       \* NameOf[m]: the provider_model name of m, not unique
    ProviderOf,   \* ProviderOf[m]: the provider of m
    Keyed,        \* the models whose key variable is set in the environment
    Chains,       \* the chains Router.ResolveChain may return
    Prompts,      \* what the embedding of a request tells apart
    Distance,     \* Distance[p][q]: cosine distance of two embeddings
    MaxDistance,  \* 1 - threshold: a cache hit is at most this far
    Refusals,     \* provider status codes other than 200 and 400
    NoModel, NoRequest, NoPrompt

MaxAttempts == 3          \* "i > 2" ends the loop over the chain
OK == 200
BadRequest == 400
NotFound == 404
BadGateway == 502
Nil == 0                  \* a nil lastResult, a nil lastErr

ASSUME ModelAssumption ==
    /\ Keyed \subseteq Models
    /\ Chains \subseteq Seq(Models)
    /\ NoModel \notin Models /\ NoRequest \notin Requests /\ NoPrompt \notin Prompts
ASSUME StatusAssumption ==
    /\ Refusals \subseteq Nat \ {Nil, OK, BadRequest}
ASSUME DistanceAssumption ==
    /\ Distance \in [Prompts -> [Prompts -> Nat]]
    /\ MaxDistance \in Nat

VARIABLES
    server,     \* "running", "draining" after SIGTERM, "stopped"
    pc,         \* where the handler of each request is
    input,      \* the request as parsed, with the chain resolved for it
    pos,        \* i + 1: the position in the chain that is tried next
    depth,      \* fallbackDepth
    lastStatus, \* lastResult.StatusCode, or Nil
    lastErr,    \* the position of the attempt lastErr comes from, or Nil
    reply,      \* the status line and headers written, or staged
    wire,       \* the models whose stream bytes reached the client
    trace,      \* history: the outcome of each attempt
    cache,      \* the entries of the semantic cache, in Redis
    storeJobs,  \* goroutines running Cache.Store
    logJobs,    \* logJobs[r]: log rows held by running logRequest goroutines
    rows,       \* rows[r]: rows of request_logs about r
    lost,       \* lost[r]: rows about r that will never be inserted
    gone        \* the requests whose client disconnected

serving == <<pc, input, pos, depth, lastStatus, lastErr, reply, wire, trace>>
jobs == <<cache, storeJobs, logJobs, rows, lost>>
vars == <<server, serving, jobs, gone>>

-----------------------------------------------------------------------------
NoInput == [stream |-> FALSE, cold |-> FALSE, prompt |-> NoPrompt, chain |-> <<>>]
Inputs == [stream : BOOLEAN, cold : BOOLEAN, prompt : Prompts, chain : Chains]

\* hit: from the cache.  by: the model the headers name.  from: the request
\* whose provider response the body is.
NoReply == [status |-> Nil, hit |-> FALSE, by |-> NoModel, depth |-> 0,
            from |-> NoRequest, error |-> Nil]
Replies == [status : Nat, hit : BOOLEAN, by : Models \cup {NoModel}, depth : Nat,
            from : Requests \cup {NoRequest}, error : Nat]
ErrorReply(status, err) == [NoReply EXCEPT !.status = status, !.error = err]

Outcomes == [model : Models, kind : {"skip", "err", "status", "ok"}, status : Nat]
Entries == [name : {NameOf[m] : m \in Models}, prompt : Prompts, from : Requests]
Rows == [model : Models, hit : BOOLEAN, depth : Nat, status : {OK}]

Chain(r) == input[r].chain
Model(r) == Chain(r)[pos[r]]
\* Non-streaming requests of temperature at most 0.5 use the cache.
Cacheable(r) == ~input[r].stream /\ input[r].cold

Init ==
    /\ server = "running"
    /\ pc = [r \in Requests |-> "idle"]
    /\ input = [r \in Requests |-> NoInput]
    /\ pos = [r \in Requests |-> 1]
    /\ depth = [r \in Requests |-> 0]
    /\ lastStatus = [r \in Requests |-> Nil]
    /\ lastErr = [r \in Requests |-> Nil]
    /\ reply = [r \in Requests |-> NoReply]
    /\ wire = [r \in Requests |-> {}]
    /\ trace = [r \in Requests |-> <<>>]
    /\ cache = {}
    /\ storeJobs = {}
    /\ logJobs = [r \in Requests |-> <<>>]
    /\ rows = [r \in Requests |-> <<>>]
    /\ lost = [r \in Requests |-> 0]
    /\ gone = {}

Goto(r, from, to) == pc[r] = from /\ pc' = [pc EXCEPT ![r] = to]

\* go h.logRequest(...): the row is built at once and inserted later; its
\* status code is the constant 200.
LogRowNeverHit(m, hit, d) == [model |-> m, hit |-> FALSE, depth |-> d, status |-> OK] \* mutant
LogRow(m, hit, d) == [model |-> m, hit |-> hit, depth |-> d, status |-> OK]
SpawnLog(r, row) == logJobs' = [logJobs EXCEPT ![r] = Append(@, row)]

-----------------------------------------------------------------------------
(* Receiving a request: parse it and resolve its chain. *)

RejectBody(r) ==
    /\ server = "running"
    /\ Goto(r, "idle", "done")
    /\ reply' = [reply EXCEPT ![r] = ErrorReply(BadRequest, Nil)]
    /\ UNCHANGED <<server, input, pos, depth, lastStatus, lastErr, wire, trace, jobs, gone>>

Receive(r) ==
    /\ server = "running"
    /\ \E in \in Inputs :
        /\ in.chain # <<>>
        /\ input' = [input EXCEPT ![r] = in]
        /\ Goto(r, "idle", IF ~in.stream /\ in.cold THEN "lookup" ELSE "loop")
    /\ UNCHANGED <<server, pos, depth, lastStatus, lastErr, reply, wire, trace, jobs, gone>>

\* No active model, or the database failed while the chain was resolved.
NoChain(r) ==
    /\ server = "running"
    /\ Goto(r, "idle", "done")
    /\ reply' = [reply EXCEPT ![r] = ErrorReply(NotFound, Nil)]
    /\ UNCHANGED <<server, input, pos, depth, lastStatus, lastErr, wire, trace, jobs, gone>>

-----------------------------------------------------------------------------
(* The semantic cache, looked up under the name of the chain's first model. *)

TaggedAny(name) == cache \* mutant: no model filter in the KNN query
Tagged(name) == {e \in cache : e.name = name}
Nearest(r) ==
    LET d(e) == Distance[input[r].prompt][e.prompt]
        tagged == Tagged(NameOf[Chain(r)[1]])
    IN  {e \in tagged : d(e) <= MaxDistance /\ \A f \in tagged : d(e) <= d(f)}

LookupHit(r) ==
    /\ r \notin gone
    /\ Goto(r, "lookup", "replying")
    /\ \E e \in Nearest(r) :
        reply' = [reply EXCEPT ![r] =
            [status |-> OK, hit |-> TRUE, by |-> Chain(r)[1], depth |-> 0,
             from |-> e.from, error |-> Nil]]
    /\ SpawnLog(r, LogRow(Chain(r)[1], TRUE, 0))
    /\ UNCHANGED <<server, input, pos, depth, lastStatus, lastErr, wire, trace,
                   cache, storeJobs, rows, lost, gone>>

\* Nothing near enough, or Lookup failed: the handler treats both alike.
LookupMiss(r) ==
    /\ Goto(r, "lookup", "loop")
    /\ UNCHANGED <<server, input, pos, depth, lastStatus, lastErr, reply, wire, trace,
                   jobs, gone>>

-----------------------------------------------------------------------------
(* The loop over the chain. *)

Exhausted(r) == pos[r] > Len(Chain(r)) \/ pos[r] > MaxAttempts

Outcome(r, kind, status) == [model |-> Model(r), kind |-> kind, status |-> status]
Record(r, o) == trace' = [trace EXCEPT ![r] = Append(@, o)]

\* Mutant: a failed attempt that does not count.
NextModelUncounted(r) ==
    /\ pos' = [pos EXCEPT ![r] = @ + 1]
    /\ UNCHANGED depth

\* fallbackDepth++ and continue.
NextModel(r) ==
    /\ pos' = [pos EXCEPT ![r] = @ + 1]
    /\ depth' = [depth EXCEPT ![r] = @ + 1]

\* Mutant: the same model is looked at again.
SkipForever(r) ==
    /\ ~Exhausted(r) /\ Model(r) \notin Keyed
    /\ Goto(r, "loop", "loop")
    /\ UNCHANGED <<server, input, pos, depth, lastStatus, lastErr, reply, wire, trace,
                   jobs, gone>>

\* The key variable is not set: the model counts as an attempt, not as an error.
SkipModel(r) ==
    /\ ~Exhausted(r) /\ Model(r) \notin Keyed
    /\ Goto(r, "loop", "loop")
    /\ NextModel(r)
    /\ Record(r, Outcome(r, "skip", Nil))
    /\ UNCHANGED <<server, input, lastStatus, lastErr, reply, wire, jobs, gone>>

CallProvider(r) ==
    /\ ~Exhausted(r) /\ Model(r) \in Keyed
    /\ Goto(r, "loop", "calling")
    /\ UNCHANGED <<server, input, pos, depth, lastStatus, lastErr, reply, wire, trace,
                   jobs, gone>>

AllFailed(r) ==
    /\ Exhausted(r)
    /\ Goto(r, "loop", "done")
    /\ reply' = [reply EXCEPT ![r] =
         ErrorReply(IF lastStatus[r] # Nil THEN lastStatus[r] ELSE BadGateway, lastErr[r])]
    /\ UNCHANGED <<server, input, pos, depth, lastStatus, lastErr, wire, trace, jobs, gone>>

\* A transport error, the client's 120 s timeout, a body that cannot be
\* transformed, or the cancelled context of a client that left.
CallFails(r) ==
    /\ Goto(r, "calling", "loop")
    /\ NextModel(r)
    /\ Record(r, Outcome(r, "err", Nil))
    /\ lastErr' = [lastErr EXCEPT ![r] = pos[r]]
    /\ UNCHANGED <<server, input, lastStatus, reply, wire, jobs, gone>>

ProviderRefuses(r, status) ==
    /\ r \notin gone
    /\ Goto(r, "calling", "loop")
    /\ NextModel(r)
    /\ Record(r, Outcome(r, "status", status))
    /\ lastStatus' = [lastStatus EXCEPT ![r] = status]
    /\ lastErr' = [lastErr EXCEPT ![r] = pos[r]]
    /\ UNCHANGED <<server, input, reply, wire, jobs, gone>>

\* A 400 ends the request.  The non-streaming path logs it, the streaming
\* path does not.
ProviderRejects(r) ==
    /\ r \notin gone
    /\ Goto(r, "calling", "done")
    /\ Record(r, Outcome(r, "status", BadRequest))
    /\ reply' = [reply EXCEPT ![r] = ErrorReply(BadRequest, pos[r])]
    /\ IF input[r].stream THEN UNCHANGED logJobs
                          ELSE SpawnLog(r, LogRow(Model(r), FALSE, depth[r]))
    /\ UNCHANGED <<server, input, pos, depth, lastStatus, lastErr, wire,
                   cache, storeJobs, rows, lost, gone>>

\* The reply to a request answered by the model it is trying now.
Served(r) == [status |-> OK, hit |-> FALSE, by |-> Model(r), depth |-> depth[r],
              from |-> r, error |-> Nil]

\* Mutant: filed under the model the client asked for.
StoredUnderFirst(r) == [name |-> NameOf[Chain(r)[1]], prompt |-> input[r].prompt, from |-> r]

\* What Cache.Store will write: filed under the name of the model that answered.
StoredEntry(r) == [name |-> NameOf[Model(r)], prompt |-> input[r].prompt, from |-> r]

ProviderAnswers(r) ==
    /\ ~input[r].stream
    /\ r \notin gone
    /\ Goto(r, "calling", "replying")
    /\ Record(r, Outcome(r, "ok", OK))
    /\ storeJobs' = storeJobs \cup (IF input[r].cold THEN {StoredEntry(r)} ELSE {})
    /\ SpawnLog(r, LogRow(Model(r), FALSE, depth[r]))
    /\ reply' = [reply EXCEPT ![r] = Served(r)]
    /\ UNCHANGED <<server, input, pos, depth, lastStatus, lastErr, wire,
                   cache, rows, lost, gone>>

\* Mutant: the request is logged when it is answered and when it ends.
WriteReplyAndLog(r) ==
    /\ Goto(r, "replying", "done")
    /\ SpawnLog(r, LogRow(reply[r].by, reply[r].hit, reply[r].depth))
    /\ UNCHANGED <<server, input, pos, depth, lastStatus, lastErr, reply, wire, trace,
                   cache, storeJobs, rows, lost, gone>>

\* writeJSON: the handler returns.
WriteReply(r) ==
    /\ Goto(r, "replying", "done")
    /\ UNCHANGED <<server, input, pos, depth, lastStatus, lastErr, reply, wire, trace,
                   jobs, gone>>

-----------------------------------------------------------------------------
(* ExecuteStream after a 200: headers are set before the first chunk, and   *)
(* whatever ends the body (the end marker, end of file, a read error, the   *)
(* timeout, a client that left) the result is a success.                    *)

StreamBegins(r) ==
    /\ input[r].stream
    /\ r \notin gone
    /\ Goto(r, "calling", "streaming")
    /\ reply' = [reply EXCEPT ![r] = Served(r)]
    /\ UNCHANGED <<server, input, pos, depth, lastStatus, lastErr, wire, trace, jobs, gone>>

StreamChunk(r) ==
    /\ pc[r] = "streaming" /\ r \notin gone
    /\ wire' = [wire EXCEPT ![r] = @ \cup {Model(r)}]
    /\ UNCHANGED <<server, pc, input, pos, depth, lastStatus, lastErr, reply, trace, jobs, gone>>

\* Mutant: a read error in the body is an error of the call.
StreamErrorFallsBack(r) ==
    /\ Goto(r, "streaming", "loop")
    /\ NextModel(r)
    /\ Record(r, Outcome(r, "err", Nil))
    /\ lastErr' = [lastErr EXCEPT ![r] = pos[r]]
    /\ UNCHANGED <<server, input, lastStatus, reply, wire, jobs, gone>>

StreamEnds(r) ==
    /\ Goto(r, "streaming", "done")
    /\ Record(r, Outcome(r, "ok", OK))
    /\ SpawnLog(r, LogRow(Model(r), FALSE, depth[r]))
    /\ UNCHANGED <<server, input, pos, depth, lastStatus, lastErr, reply, wire,
                   cache, storeJobs, rows, lost, gone>>

-----------------------------------------------------------------------------
(* The goroutines, and what else touches the cache. *)

StoreRuns(e) ==
    /\ e \in storeJobs
    /\ storeJobs' = storeJobs \ {e}
    /\ cache' = cache \cup {e}
    /\ UNCHANGED <<server, serving, logJobs, rows, lost, gone>>

StoreFails(e) ==
    /\ e \in storeJobs
    /\ storeJobs' = storeJobs \ {e}
    /\ UNCHANGED <<server, serving, cache, logJobs, rows, lost, gone>>

\* 24 h have passed, or the dashboard flushed the cache.
CacheDrop(e) ==
    /\ e \in cache
    /\ cache' = cache \ {e}
    /\ UNCHANGED <<server, serving, storeJobs, logJobs, rows, lost, gone>>

LogInserted(r) ==
    /\ logJobs[r] # <<>>
    /\ rows' = [rows EXCEPT ![r] = Append(@, Head(logJobs[r]))]
    /\ logJobs' = [logJobs EXCEPT ![r] = Tail(@)]
    /\ UNCHANGED <<server, serving, cache, storeJobs, lost, gone>>

\* The insert fails or takes over 5 s: the error is printed and the row dropped.
LogFails(r) ==
    /\ logJobs[r] # <<>>
    /\ logJobs' = [logJobs EXCEPT ![r] = Tail(@)]
    /\ lost' = [lost EXCEPT ![r] = @ + 1]
    /\ UNCHANGED <<server, serving, cache, storeJobs, rows, gone>>

-----------------------------------------------------------------------------
(* The client and the process. *)

Active(r) == pc[r] \notin {"idle", "done", "aborted"}

ClientGone(r) ==
    /\ Active(r) /\ r \notin gone
    /\ gone' = gone \cup {r}
    /\ UNCHANGED <<server, serving, jobs>>

Signal ==
    /\ server = "running"
    /\ server' = "draining"
    /\ UNCHANGED <<serving, jobs, gone>>

\* The process exits: its goroutines end with it.
Exit ==
    /\ server' = "stopped"
    /\ storeJobs' = {}
    /\ lost' = [r \in Requests |-> lost[r] + Len(logJobs[r])]
    /\ logJobs' = [r \in Requests |-> <<>>]
    /\ UNCHANGED <<cache, rows, gone>>

\* httpServer.Shutdown waits for the handlers, and for nothing else.
ShutdownDone ==
    /\ server = "draining"
    /\ \A r \in Requests : ~Active(r)
    /\ Exit
    /\ UNCHANGED serving

\* Shutdown's 30 s are over (log.Fatalf), or the process is killed.
Killed ==
    /\ server # "stopped"
    /\ Exit
    /\ pc' = [r \in Requests |-> IF Active(r) THEN "aborted" ELSE pc[r]]
    /\ UNCHANGED <<input, pos, depth, lastStatus, lastErr, reply, wire, trace>>

Restart ==
    /\ server = "stopped"
    /\ server' = "running"
    /\ UNCHANGED <<serving, jobs, gone>>

-----------------------------------------------------------------------------
HandlerStep(r) ==
    \/ LookupHit(r) \/ LookupMiss(r)
    \/ SkipModel(r) \/ CallProvider(r) \/ AllFailed(r)
    \/ CallFails(r) \/ ProviderRejects(r) \/ ProviderAnswers(r)
    \/ \E status \in Refusals : ProviderRefuses(r, status)
    \/ StreamBegins(r) \/ StreamEnds(r) \/ WriteReply(r)

RequestStep(r) ==
    \/ RejectBody(r) \/ Receive(r) \/ NoChain(r)
    \/ HandlerStep(r) \/ StreamChunk(r) \/ ClientGone(r)
    \/ LogInserted(r) \/ LogFails(r)

EntryStep(e) == StoreRuns(e) \/ StoreFails(e) \/ CacheDrop(e)

ProcessStep == Signal \/ ShutdownDone \/ Killed \/ Restart

Next ==
    \/ \E r \in Requests : RequestStep(r)
    \/ \E e \in storeJobs \cup cache : EntryStep(e)
    \/ ProcessStep

Spec == Init /\ [][Next]_vars

\* A handler runs on (a call ends within the client's 120 s), a log goroutine
\* ends (its insert has a 5 s timeout).  Nothing is assumed of clients, of
\* requests that arrive, of the cache or of the process.
Fairness == \A r \in Requests :
    /\ WF_vars(HandlerStep(r))
    /\ WF_vars(LogInserted(r) \/ LogFails(r))

FairSpec == Spec /\ Fairness
-----------------------------------------------------------------------------
(* Properties. *)

\* Every variable keeps its type; in particular the handler never looks past
\* the third model of a chain (proxy.go:79) nor past the chain's end.
TypeOK ==
    /\ server \in {"running", "draining", "stopped"}
    /\ pc \in [Requests -> {"idle", "lookup", "loop", "calling", "streaming",
                            "replying", "done", "aborted"}]
    /\ input \in [Requests -> Inputs \cup {NoInput}]
    /\ pos \in [Requests -> 1..MaxAttempts + 1]
    /\ depth \in [Requests -> 0..MaxAttempts]
    /\ lastStatus \in [Requests -> Refusals \cup {Nil}]
    /\ lastErr \in [Requests -> 0..MaxAttempts]
    /\ reply \in [Requests -> Replies]
    /\ wire \in [Requests -> SUBSET Models]
    /\ trace \in [Requests -> Seq(Outcomes)]
    /\ cache \subseteq Entries
    /\ storeJobs \subseteq Entries
    /\ logJobs \in [Requests -> Seq(Rows)]
    /\ rows \in [Requests -> Seq(Rows)]
    /\ lost \in [Requests -> Nat]
    /\ gone \subseteq Requests

Retryable(o) == o.kind # "ok" /\ o.status # BadRequest
Positions(r, kinds) == {k \in 1..Len(trace[r]) : trace[r][k].kind \in kinds}
\* The last of a set of positions, Nil when it is empty.
Latest(S) == IF S = {} THEN Nil ELSE CHOOSE k \in S : \A j \in S : j <= k

\* What the client must be told after the attempts of r: the first model that
\* answered, or the 400 that ended the request, or else the status of the
\* latest provider that returned one and the error of the latest call that
\* failed, which may come from two different attempts.
Verdict(r) ==
    LET n == Len(trace[r])
        end == trace[r][n]
        refused == Latest(Positions(r, {"status"}))
        failed == Latest(Positions(r, {"status", "err"}))
    IN  IF n > 0 /\ end.kind = "ok"
        THEN [status |-> OK, hit |-> FALSE, by |-> end.model, depth |-> n - 1,
              from |-> r, error |-> Nil]
        ELSE IF n > 0 /\ end.status = BadRequest THEN ErrorReply(BadRequest, n)
        ELSE ErrorReply(IF refused # Nil THEN trace[r][refused].status ELSE BadGateway,
                        failed)

\* A handler that went through its chain tells the client what its attempts
\* say: a failure only when every model it may try (three at most) was tried,
\* and as fallback depth the number of models before the one that answered,
\* the unconfigured ones included (proxy.go:78-192).
ReplyIsVerdict == \A r \in Requests :
    (pc[r] \in {"replying", "done"} /\ ~reply[r].hit /\ input[r] # NoInput) =>
        /\ reply[r] = Verdict(r)
        /\ \A k \in 1..Len(trace[r]) - 1 : Retryable(trace[r][k])
        /\ \A k \in 1..Len(trace[r]) : trace[r][k].model = Chain(r)[k]
        /\ Len(trace[r]) <= MaxAttempts
        /\ reply[r].status # OK /\ Retryable(trace[r][Len(trace[r])]) =>
              Len(trace[r]) \in {Len(Chain(r)), MaxAttempts}

\* r was answered by a provider, for model m.
AnsweredBy(r, m) ==
    /\ reply[r].status = OK /\ ~reply[r].hit /\ reply[r].by = m /\ reply[r].from = r

\* What the cache holds, or is about to, is the response a provider gave to a
\* cacheable request, filed under that request's prompt and under the name of
\* the model that answered it, which a fallback may have put far from the model
\* the client asked for (proxy.go:150-162).
CacheProvenance == \A e \in cache \cup storeJobs :
    /\ Cacheable(e.from) /\ e.prompt = input[e.from].prompt
    /\ \E m \in Models : NameOf[m] = e.name /\ AnsweredBy(e.from, m)

\* A hit serves a near enough prompt's response, produced by a model of the
\* name the headers give, and never a response that itself came from the cache
\* (proxy.go:57-68, semantic.go:81-143).
HitIsHonest == \A r \in Requests : reply[r].hit =>
    LET p == reply[r].from IN
    /\ Cacheable(r) /\ Cacheable(p)
    /\ Distance[input[r].prompt][input[p].prompt] <= MaxDistance
    /\ \E m \in Models : AnsweredBy(p, m) /\ NameOf[m] = NameOf[reply[r].by]

\* Once bytes of a stream reached the client, no step changes the headers it
\* saw, calls another model, or sends it another model's bytes: a broken
\* stream is never retried (executor.go:177-241, proxy.go:117-121).
StreamCommits == [][\A r \in Requests : wire[r] # {} =>
    /\ reply'[r] = reply[r] /\ wire'[r] = {reply[r].by} /\ wire[r] = {reply[r].by}
    /\ pc'[r] \in {"streaming", "done", "aborted"}]_vars

\* The number of log rows a request is owed at its place in the handler: one
\* when it was answered, or rejected on the non-streaming path.
Owed(r) ==
    IF \/ pc[r] \in {"replying", "done", "aborted"} /\ reply[r].hit
       \/ /\ pc[r] \in {"replying", "done", "aborted"} /\ trace[r] # <<>>
          /\ \/ trace[r][Len(trace[r])].kind = "ok"
             \/ trace[r][Len(trace[r])].status = BadRequest /\ ~input[r].stream
    THEN 1 ELSE 0

\* No row is written twice and none disappears unaccounted for: what a request
\* is owed is a running goroutine, a row, or a row lost to a failed insert or
\* to the end of the process (proxy.go:62, 119, 137, 168, 230-235).
LogAccounting == \A r \in Requests :
    Len(logJobs[r]) + Len(rows[r]) + lost[r] = Owed(r)

\* The row says what the client was told: same model, same cache state, same
\* fallback depth, although it is inserted by another goroutine after the
\* handler moved on (proxy.go:195-219).
RowMatchesReply == \A r \in Requests : \A i \in 1..Len(rows[r]) :
    reply[r].status = OK =>
        /\ rows[r][i].model = reply[r].by /\ rows[r][i].hit = reply[r].hit
        /\ rows[r][i].depth = reply[r].depth

\* Every request the server received is answered, or ends with the process,
\* whatever its providers, its client and the cache do.
EveryRequestEnds == \A r \in Requests : Active(r) ~> ~Active(r)

(* The contract, and what the handler's state means to it. *)

Decided(r) ==
    /\ pc[r] \in {"replying", "done", "aborted"}
    /\ reply[r].hit \/ (trace[r] # <<>> /\ trace[r][Len(trace[r])].kind = "ok")

Phase(r) ==
    CASE Decided(r) -> "answered"
      [] ~Decided(r) /\ pc[r] = "idle" -> "new"
      [] ~Decided(r) /\ pc[r] = "done" -> "failed"
      [] ~Decided(r) /\ pc[r] = "aborted" -> "dead"
      [] OTHER -> "open"

Ledger(r) ==
    CASE logJobs[r] # <<>> -> "owed"
      [] logJobs[r] = <<>> /\ rows[r] # <<>> -> "written"
      [] logJobs[r] = <<>> /\ rows[r] = <<>> /\ lost[r] > 0 -> "lost"
      [] OTHER -> "nothing"

Contract == INSTANCE ProxyContract WITH
    phase <- [r \in Requests |-> Phase(r)],
    source <- [r \in Requests |-> IF Decided(r) THEN reply[r].from ELSE NoRequest],
    reusable <- {e.from : e \in cache},
    ledger <- [r \in Requests |-> Ledger(r)]

\* The handler, with its fallbacks, goroutines and crashes, implements the
\* contract: every request is decided once, what answers it is its own response
\* or one that answered an earlier request, and one row at most is written.
ImplementsContract == Contract!Spec
=============================================================================
