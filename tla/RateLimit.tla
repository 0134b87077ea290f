----------------------------- MODULE RateLimit -----------------------------
(***************************************************************************)
(* middleware.RateLimit for one API key.  Each request reads the clock of  *)
(* the process and then sends one Redis pipeline: remove what left the     *)
(* window, count, add itself, set the key's expiry.  A pipeline is no       *)
(* transaction: the commands of several connections interleave.  A request *)
(* that is refused has been added all the same.                            *)
(***************************************************************************)
EXTENDS Integers, Sequences, FiniteSets

CONSTANTS
    Conns,       \* handlers that may be in the middleware at the same time
    Limit,       \* rate_limit_rpm of the key
    Window,      \* one minute, in ticks of the clock (milliseconds)
    MaxLag,      \* how long a pipeline may take: the client's timeouts bound it
    MaxTime,     \* the clock stops here
    MaxRequests, \* requests made in all
    MaxResends   \* requests whose pipeline is sent again

ASSUME RateAssumption ==
    /\ Conns # {} /\ IsFiniteSet(Conns)
    /\ Limit \in Nat /\ Window \in Nat \ {0} /\ MaxLag \in 0..Window - 1
    /\ MaxTime \in Nat /\ MaxRequests \in Nat /\ MaxResends \in Nat

VARIABLES
    clock,
    asked,    \* history: the requests made, as members [id, score]
    pc,       \* the command each connection sends next
    mine,     \* the member each connection adds; its score is the time it read
    count,    \* what ZCARD returned to it
    zset,     \* the sorted set
    expiry,   \* when Redis drops the key, or Never
    served,   \* history: the requests let through because of their count
    refused,  \* history: the requests answered 429
    resent,   \* history: the requests whose pipeline was sent again
    whole     \* history: no pipeline was given up so far

limitVars == <<clock, asked, pc, mine, count, zset, expiry, served, refused, resent, whole>>

Never == -1
NoMember == [id |-> 0, score |-> 0]

LimitInit ==
    /\ clock = 0
    /\ asked = {}
    /\ pc = [c \in Conns |-> "idle"]
    /\ mine = [c \in Conns |-> NoMember]
    /\ count = [c \in Conns |-> 0]
    /\ zset = {}
    /\ expiry = Never
    /\ served = {}
    /\ refused = {}
    /\ resent = {}
    /\ whole = TRUE

Goto(c, from, to) == pc[c] = from /\ pc' = [pc EXCEPT ![c] = to]
\* The handler leaves the middleware.
Leave(c) ==
    /\ pc' = [pc EXCEPT ![c] = "idle"]
    /\ mine' = [mine EXCEPT ![c] = NoMember]
    /\ count' = [count EXCEPT ![c] = 0]

\* now := time.Now(); the member is that time in nanoseconds, taken to be unique.
Arrive(c) ==
    LET e == [id |-> Cardinality(asked) + 1, score |-> clock] IN
    /\ e.id <= MaxRequests
    /\ asked' = asked \cup {e}
    /\ mine' = [mine EXCEPT ![c] = e]
    /\ Goto(c, "idle", "remove")
    /\ UNCHANGED <<clock, count, zset, expiry, served, refused, resent, whole>>

\* Mutant: what is exactly one window old is kept.
OutdatedExclusive(c) == {e \in zset : e.score < mine[c].score - Window}

\* ZREMRANGEBYSCORE key 0 windowStart: both ends included.
Outdated(c) == {e \in zset : e.score <= mine[c].score - Window}

\* An empty set is no key, and has no expiry.
Remove(c) ==
    /\ Goto(c, "remove", "count")
    /\ zset' = zset \ Outdated(c)
    /\ expiry' = IF zset' = {} THEN Never ELSE expiry
    /\ UNCHANGED <<clock, asked, mine, count, served, refused, resent, whole>>

Count(c) ==
    /\ Goto(c, "count", "add")
    /\ count' = [count EXCEPT ![c] = Cardinality(zset)]
    /\ UNCHANGED <<clock, asked, mine, zset, expiry, served, refused, resent, whole>>

Add(c) ==
    /\ Goto(c, "add", "expire")
    /\ zset' = zset \cup {mine[c]}
    /\ UNCHANGED <<clock, asked, mine, count, expiry, served, refused, resent, whole>>

KeyLifetime == 2 * Window

WithinInclusive(c) == count[c] <= Limit \* mutant
Within(c) == count[c] < Limit

\* EXPIRE, the last command; the handler then reads the answers and decides.
Decide(c) ==
    /\ pc[c] = "expire"
    /\ expiry' = IF zset = {} THEN Never ELSE clock + KeyLifetime
    /\ \/ Within(c) /\ served' = served \cup {mine[c]} /\ UNCHANGED refused
       \/ ~Within(c) /\ refused' = refused \cup {mine[c]} /\ UNCHANGED served
       \/ UNCHANGED <<served, refused>>  \* the answers are lost: let through
    /\ Leave(c)
    /\ UNCHANGED <<clock, asked, zset, resent, whole>>

\* The pipeline breaks off, wherever it was, or its answers are lost, and the client
\* sends it again, the same commands from the first on: a request that has added
\* itself counts itself then.
Resend(c) ==
    /\ pc[c] # "idle"
    /\ pc' = [pc EXCEPT ![c] = "remove"]
    /\ count' = [count EXCEPT ![c] = 0]
    /\ \/ UNCHANGED expiry
       \/ pc[c] = "expire" /\ expiry' = IF zset = {} THEN Never ELSE clock + KeyLifetime
    /\ resent' = resent \cup {mine[c]} /\ Cardinality(resent') <= MaxResends
    /\ UNCHANGED <<clock, asked, mine, zset, served, refused, whole>>

\* The pipeline breaks off and the client gives it up: no later command reaches
\* Redis, and the request is let through whatever its count.
Break(c) ==
    /\ pc[c] # "idle"
    /\ Leave(c)
    /\ whole' = FALSE
    /\ UNCHANGED <<clock, asked, zset, expiry, served, refused, resent>>

Tick ==
    /\ clock < MaxTime
    /\ \A c \in Conns : pc[c] # "idle" => clock < mine[c].score + MaxLag
    /\ clock' = clock + 1
    /\ UNCHANGED <<asked, pc, mine, count, zset, expiry, served, refused, resent, whole>>

KeyExpires ==
    /\ expiry # Never /\ clock >= expiry
    /\ zset' = {} /\ expiry' = Never
    /\ UNCHANGED <<clock, asked, pc, mine, count, served, refused, resent, whole>>

-----------------------------------------------------------------------------
(* Properties. *)

\* The requests of a window of the given length, the later end included.
InWindow(S, end, length) == {e \in S : e.score > end - length /\ e.score <= end}
Others == Cardinality(Conns) - 1

\* How far the limit can be passed in a window: by the handlers in the middleware
\* at the same time, which do not see each other.  The window is shorter by the
\* time a pipeline takes, as a slow handler counts what a later one left over.
\* After a pipeline broke off before its EXPIRE the key may be dropped between
\* the ZADD and the EXPIRE of other handlers (ratelimit.go:22-46).
BoundedBurst == \A end \in 0..MaxTime :
    Cardinality(InWindow(served, end, Window - MaxLag))
        <= Limit + Others + (IF whole THEN 0 ELSE Cardinality(Conns))

\* A request is refused only when the limit of other requests was made since its
\* own window began, or all but one when its pipeline was sent twice: no one who
\* waited out the Retry-After of a minute is refused for what is a minute old,
\* although the refused count as well, and handlers that read the clock earlier come
\* later (ratelimit.go:27-54).
RefusedForCause == \A e \in refused :
    Cardinality({q \in asked \ {e} : q.score > e.score - Window})
        >= Limit - (IF e \in resent THEN 1 ELSE 0)
=============================================================================
