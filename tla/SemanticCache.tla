--------------------------- MODULE SemanticCache ---------------------------
(***************************************************************************)
(* The semantic cache inside Redis: hashes under sc:<uuid>, written by a    *)
(* pipeline of two commands, found by a nearest-neighbour search over an    *)
(* embedding of the messages, dropped by Redis when their time is over, and *)
(* walked with SCAN by the dashboard, which flushes or counts them while    *)
(* entries come and go.                                                     *)
(***************************************************************************)
EXTENDS Integers, Sequences, FiniteSets

CONSTANTS
    Stores,         \* goroutines, each of which stores one response
    Requests,       \* chat requests: sequences of messages
    Names,          \* model names
    Distance(_, _), \* cosine distance of two embeddings
    MaxDistance,    \* 1 - threshold
    TTL,            \* cacheTTL, in ticks
    MaxLag,         \* how long after its first HSET a pipeline may run
    MaxTime,        \* the clock stops here
    MaxCount,       \* what a count may reach
    None

ASSUME CacheAssumption ==
    /\ TTL \in Nat /\ MaxLag \in Nat /\ MaxTime \in Nat /\ MaxCount \in Nat
    /\ MaxDistance \in Nat
    /\ None \notin Stores

VARIABLES
    clock,
    store,  \* what each store goroutine does: [at, req, name]
    hashes, \* the entries.  A key is the goroutine that wrote it: keys are fresh
    flush,  \* FlushAll: [at, todo, batch, before, kept]
    count,  \* EntryCount: [at, todo, before, n]
    hit     \* history: the latest hit, or None

vars == <<clock, store, hashes, flush, count, hit>>

Never == -1
Idle == [at |-> "idle", req |-> None, name |-> None]
Resting == [at |-> "idle", todo |-> {}, batch |-> {}, before |-> {}, kept |-> FALSE]
NoCount == [at |-> "idle", todo |-> {}, before |-> {}, n |-> 0]

Init ==
    /\ clock = 0
    /\ store = [s \in Stores |-> Idle]
    /\ hashes = <<>>
    /\ flush = Resting
    /\ count = NoCount
    /\ hit = None

Keys == DOMAIN hashes
Without(S) == [k \in Keys \ S |-> hashes[k]]

-----------------------------------------------------------------------------
(* What a request is looked up by. *)

\* ChatMessage.ContentString: a content that is an array counts as empty.
NoText == "no text"
ContentString(msg) == IF msg.kind = "text" THEN msg.content ELSE NoText

\* computeEmbedding: the roles and texts in order, and nothing else of the
\* request.  Distance stands for the hashing of their trigrams and words.
Embedding(req) == [i \in DOMAIN req |-> <<req[i].role, ContentString(req[i])>>]
Apart(req, other) == Distance(Embedding(req), Embedding(other))

-----------------------------------------------------------------------------
(* Store: a pipeline of HSET and EXPIRE, in a goroutine. *)

Begin(s, req, name) ==
    /\ store[s].at = "idle"
    /\ store' = [store EXCEPT ![s] = [at |-> "hset", req |-> req, name |-> name]]
    /\ UNCHANGED <<clock, hashes, flush, count, hit>>

\* A hash that is there already, because the pipeline was sent before, keeps the
\* time it has.
Written(s) == [k \in Keys \cup {s} |->
    IF k \in Keys THEN hashes[k]
    ELSE [req |-> store[s].req, name |-> store[s].name, created |-> clock, expiry |-> Never]]

HSet(s) ==
    /\ store[s].at = "hset"
    /\ hashes' = Written(s)
    /\ store' = [store EXCEPT ![s].at = "expire"]
    /\ UNCHANGED <<clock, flush, count, hit>>

\* Mutant: EXPIRE of a key that is not there yet.
ExpireFirst(s) ==
    /\ store[s].at = "expire"
    /\ store' = [store EXCEPT ![s].at = "done"]
    /\ UNCHANGED <<clock, hashes, flush, count, hit>>

\* Nothing happens when the key is gone already.  When the answers are lost, the
\* client sends the pipeline again.
Expire(s) ==
    /\ store[s].at = "expire"
    /\ hashes' = [k \in Keys |-> IF k = s THEN [hashes[k] EXCEPT !.expiry = clock + TTL]
                                 ELSE hashes[k]]
    /\ \E at \in {"done", "hset"} : store' = [store EXCEPT ![s].at = at]
    /\ UNCHANGED <<clock, flush, count, hit>>

\* The pipeline breaks off between its commands and is sent again.
Resend(s) ==
    /\ store[s].at = "expire"
    /\ store' = [store EXCEPT ![s].at = "hset"]
    /\ UNCHANGED <<clock, hashes, flush, count, hit>>

\* The pipeline breaks off and is given up: the error is logged and what was
\* written stays.
BreakOff(s) ==
    /\ store[s].at \in {"hset", "expire"}
    /\ store' = [store EXCEPT ![s].at = "broken"]
    /\ UNCHANGED <<clock, hashes, flush, count, hit>>

-----------------------------------------------------------------------------
(* Lookup, and time. *)

Tagged(name) == {k \in Keys : hashes[k].name = name}
Nearest(req, name) ==
    {k \in Tagged(name) : \A j \in Tagged(name) :
        Apart(req, hashes[k].req) <= Apart(req, hashes[j].req)}

\* Only the nearest is looked at.  A miss changes nothing.
LookupHits(req, name) ==
    /\ \E k \in Nearest(req, name) :
        /\ Apart(req, hashes[k].req) <= MaxDistance
        /\ hit' = [req |-> req, of |-> hashes[k].req]
    /\ UNCHANGED <<clock, store, hashes, flush, count>>

Overdue == {k \in Keys : hashes[k].expiry # Never /\ hashes[k].expiry <= clock}

KeyExpires ==
    /\ Overdue # {}
    /\ hashes' = Without(Overdue)
    /\ UNCHANGED <<clock, store, flush, count, hit>>

\* Redis drops a key when its time is over; a pipeline takes at most MaxLag.
Tick ==
    /\ clock < MaxTime
    /\ Overdue = {}
    /\ \A k \in Keys : store[k].at \in {"hset", "expire"} => clock < hashes[k].created + MaxLag
    /\ clock' = clock + 1
    /\ UNCHANGED <<store, hashes, flush, count, hit>>

-----------------------------------------------------------------------------
(* FlushAll and EntryCount.  SCAN returns any keys, some of them again; it is *)
(* at its end only after every key that was there all along.  A key whose     *)
(* pipeline may be sent again may go and come back meanwhile.                *)

Settled == {k \in Keys : store[k].at \in {"done", "broken"}}
Remaining(todo, batch) == (todo \ batch) \cap Keys

BeginFlush ==
    /\ flush.at = "idle"
    /\ flush' = [Resting EXCEPT !.at = "scan", !.todo = Settled, !.before = Settled]
    /\ UNCHANGED <<clock, store, hashes, count, hit>>

Scan ==
    /\ flush.at = "scan"
    /\ \E batch \in SUBSET Keys :
        flush' = [flush EXCEPT !.at = "del", !.batch = batch, !.todo = Remaining(@, batch)]
    /\ UNCHANGED <<clock, store, hashes, count, hit>>

ScanFails ==
    /\ flush.at = "scan"
    /\ flush' = [Resting EXCEPT !.at = "failed"]
    /\ UNCHANGED <<clock, store, hashes, count, hit>>

AfterFirstPage == {"scan", "done"} \* mutant
\* The next page, or the end when the cursor is back at 0.
AfterPage == {"scan"} \cup (IF flush.todo = {} THEN {"done"} ELSE {})

Del ==
    /\ flush.at = "del"
    /\ \E at \in AfterPage : flush' = [flush EXCEPT !.at = at, !.batch = {}]
    /\ hashes' = Without(flush.batch)
    /\ UNCHANGED <<clock, store, count, hit>>

\* The error of DEL is not looked at.
DelFails ==
    /\ flush.at = "del"
    /\ \E at \in AfterPage :
        flush' = [flush EXCEPT !.at = at, !.batch = {}, !.kept = TRUE]
    /\ UNCHANGED <<clock, store, hashes, count, hit>>

BeginCount ==
    /\ count.at = "idle"
    /\ count' = [NoCount EXCEPT !.at = "scan", !.todo = Settled, !.before = Settled]
    /\ UNCHANGED <<clock, store, hashes, flush, hit>>

CountLastPage(n, page) == page \* mutant
CountPage(n, page) == n + page
CountScan ==
    /\ count.at = "scan"
    /\ \E batch \in SUBSET Keys :
        /\ count.n + Cardinality(batch) <= MaxCount
        /\ \E at \in {"scan"} \cup IF Remaining(count.todo, batch) = {} THEN {"done"} ELSE {} :
            count' = [count EXCEPT !.at = at, !.todo = Remaining(@, batch),
                                   !.n = CountPage(@, Cardinality(batch))]
    /\ UNCHANGED <<clock, store, hashes, flush, hit>>

\* The statistics show 0 then.
CountFails ==
    /\ count.at = "scan"
    /\ count' = [NoCount EXCEPT !.at = "failed"]
    /\ UNCHANGED <<clock, store, hashes, flush, hit>>

-----------------------------------------------------------------------------
StoreStep(s) == HSet(s) \/ Expire(s) \/ Resend(s) \/ BreakOff(s)
Next ==
    \/ \E s \in Stores :
         \/ \E req \in Requests, name \in Names : Begin(s, req, name)
         \/ StoreStep(s)
    \/ \E req \in Requests, name \in Names : LookupHits(req, name)
    \/ KeyExpires \/ Tick
    \/ BeginFlush \/ Scan \/ ScanFails \/ Del \/ DelFails
    \/ BeginCount \/ CountScan \/ CountFails

Spec == Init /\ [][Next]_vars

-----------------------------------------------------------------------------
(* Properties. *)

\* A response whose pipeline went through is dropped a day later, however late
\* its EXPIRE ran and whoever walks the keys meanwhile (semantic.go:175-186).
StoredThenExpires == \A k \in Keys : store[k].at = "done" =>
    /\ hashes[k].expiry # Never
    /\ clock <= hashes[k].created + MaxLag + TTL

\* A flush that succeeded, and whose deletions did, leaves no entry whose store was
\* over when it began, although entries come and go while it walks, and stores under
\* way may bring back what it deleted (semantic.go:190-207).
FlushIsComplete ==
    (flush.at = "done" /\ ~flush.kept) => flush.before \cap Keys = {}

\* A count misses no entry that was stored before its beginning and is there at its
\* end; it may count entries twice (semantic.go:210-225).
CountMissesNone == count.at = "done" => Cardinality(count.before \cap Keys) <= count.n
=============================================================================
