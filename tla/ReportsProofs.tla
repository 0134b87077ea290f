--------------------------- MODULE ReportsProofs ---------------------------
(***************************************************************************)
(* Theorems about the pages over the request log: for any number of calls   *)
(* under way, any log, and whatever the user does.                          *)
(***************************************************************************)
EXTENDS Reports, FiniteSetTheorems, TLAPS

\* The parts of each call.
PartsOf == [requests  |-> {"count", "select"},
            overview  |-> {"day", "reqs", "hits", "total", "usage"},
            analytics |-> {"usage", "models"},
            stats     |-> {"total", "hits", "entries"},
            flush     |-> {"flush"}]
KindsOn == [requests |-> {"requests"}, overview |-> {"overview"}, analytics |-> {"analytics"},
            cache |-> {"stats", "flush"}]

\* A call: what the backend did and what it has still to do are its parts.
Form(c) ==
    /\ DOMAIN c = {"id", "kind", "arg", "todo", "res", "here", "fresh"}
    /\ c.here \in BOOLEAN /\ c.fresh \in BOOLEAN
    /\ c.kind \in DOMAIN PartsOf
    /\ c.todo \cap DOMAIN c.res = {}
    /\ c.todo \cup DOMAIN c.res = PartsOf[c.kind]

\* A page makes its own calls; only a flush survives it.
CallsFormed ==
    \A c \in calls : Form(c) /\ c.kind \in KindsOn[at] /\ (c.here \/ c.kind = "flush")
ScreenFormed == "due" \in DOMAIN ui /\ ui.due \in BOOLEAN /\ doubt \in BOOLEAN
LogFormed == log \in Seq(Rows) /\ old \in Nat /\ Len(log) <= MaxRows
Formed == at \in Pages /\ CallsFormed /\ ScreenFormed /\ LogFormed

-----------------------------------------------------------------------------
(* The request log. *)

\* A question that nothing overtook is about what is on screen, there is one at most, and
\* none while another is due.
Asked ==
    /\ \A c \in calls : c.fresh => c.arg = Params(ui) /\ ~ui.due
    /\ \A c, d \in calls : c.fresh /\ d.fresh => c = d
    /\ ui.due \/ doubt \/ ui.for = Params(ui) \/ \E c \in calls : c.fresh

RequestsUi ==
    /\ DOMAIN ui = DOMAIN RequestsMounted
    /\ ui.page \in Nat \ {0} /\ ui.limit \in Limits /\ ui.pages \in Nat

\* How many rows of question f are newer than row i.
Newer(f, i) == Cardinality({j \in Matching(f) : j > i})

\* The rows S are among T, but for those that are pushed behind page p of f.
Covers(f, p, S, T) == \A i \in S : i \in T \/ Newer(f, i) >= p * f.limit

\* A walk is on the page that was shown last, or asks for the next one; of the rows it
\* has to see it has seen those that are not pushed behind the pages it was on.
OnItsPage ==
    /\ ui.for = [Params(ui) EXCEPT !.page = ui.for.page]
    /\ ui.for.page \in Nat \ {0} /\ ui.page \in {ui.for.page, ui.for.page + 1}
HasSeen ==
    /\ walk.base \subseteq Matching(ui.for)
    /\ Covers(ui.for, ui.for.page, walk.base, walk.seen)
    /\ ~walk.slipped /\ ui.for.page >= ui.pages => walk.base \subseteq walk.seen
Walking ==
    /\ DOMAIN walk = DOMAIN NoWalk /\ walk.on \in BOOLEAN
    /\ walk.on => /\ ~doubt
                  /\ \A c \in calls : c.fresh => ui.loading
                  /\ OnItsPage /\ HasSeen

\* What is counted is of the question, and is counted before rows are selected.
Counts(c) ==
    /\ c.arg.limit \in Limits
    /\ "count" \in DOMAIN c.res => c.res["count"] \subseteq Matching(c.arg)
    /\ "select" \in DOMAIN c.res => "count" \in DOMAIN c.res

\* The rows a call brings to a walk: to the one that is on, or to one that begins.
Brings(c, base, seen) ==
    LET sel == c.res["select"] IN
    /\ Covers(c.arg, c.arg.page, base, seen \cup sel.rows)
    /\ ~sel.slipped /\ c.arg.page >= TotalPages(Cardinality(c.res["count"]), c.arg.limit)
         => base \subseteq seen \cup sel.rows
BringsRows(c) ==
    "select" \in DOMAIN c.res =>
        /\ c.arg.page = 1 => Brings(c, c.res["count"], {})
        /\ walk.on => Brings(c, walk.base, walk.seen)
Brought == \A c \in calls : Counts(c) /\ (c.fresh => BringsRows(c))

RequestsInv == at = "requests" => RequestsUi /\ Asked /\ Walking /\ Brought

-----------------------------------------------------------------------------
(* The overview. *)

\* Of the counts, in the order they are read: the day is within all.
DayFirst(res) ==
    /\ "reqs" \in DOMAIN res => "day" \in DOMAIN res
    /\ "hits" \in DOMAIN res => "reqs" \in DOMAIN res
    /\ "total" \in DOMAIN res => "hits" \in DOMAIN res
    /\ "day" \in DOMAIN res => res["day"] \in Int /\ res["day"] <= Len(log)
    /\ "total" \in DOMAIN res => res["total"] = Failed \/ (res["total"] \in Int /\ res["day"] <= res["total"])
OverviewInv ==
    at = "overview" => (\A c \in calls : DayFirst(c.res)) /\ DayWithinAll

-----------------------------------------------------------------------------
(* The analytics. *)

OfRange(x, r) == \E n \in 0..MaxRows : x = [range |-> r, rows |-> n]
AnalyticsInv ==
    at = "analytics" =>
        /\ \A c \in calls : /\ c.arg \in Ranges
                            /\ \A p \in DOMAIN c.res : OfRange(c.res[p], c.arg)
                            /\ c.fresh => c.arg = ui.range
        /\ ui.range \in Ranges
        /\ {"range", "usage", "models"} \subseteq DOMAIN ui
        /\ ui.usage # None => \E r \in Ranges : OfRange(ui.usage, r) /\ OfRange(ui.models, r)
        /\ \/ ui.due \/ doubt \/ ui.usage = None \/ ui.usage.range = ui.range
           \/ \E c \in calls : c.fresh

-----------------------------------------------------------------------------
(* The cache. *)

Counted(c) == c.kind = "stats" /\ c.fresh
CacheInv ==
    at = "cache" =>
        /\ "stats" \in DOMAIN ui
        /\ \A c \in calls : c.kind = "flush" => DOMAIN c.arg = {"id"}
        /\ \A c \in calls :
             Counted(c) /\ "entries" \in DOMAIN c.res => c.res["entries"] \subseteq entries
        /\ \/ ui.due \/ doubt
           \/ \E c \in calls : c.kind = "flush" /\ c.here /\ c.todo = {}
           \/ \E c \in calls : Counted(c)
           \/ ui.stats["entries"] \subseteq entries

ReportsInv == Formed /\ RequestsInv /\ OverviewInv /\ AnalyticsInv /\ CacheInv

-----------------------------------------------------------------------------
(* Calls. *)

\* A call that was just made.
LEMMA NewCall ==
    ASSUME NEW k \in DOMAIN PartsOf, NEW a
    PROVE  /\ Form(Call(k, a, PartsOf[k]))
           /\ Call(k, a, PartsOf[k]).kind = k /\ Call(k, a, PartsOf[k]).arg = a
           /\ Call(k, a, PartsOf[k]).here = TRUE /\ Call(k, a, PartsOf[k]).fresh = TRUE
           /\ DOMAIN Call(k, a, PartsOf[k]).res = {}
  BY DEF Call, Form

\* A call of which the backend did one more part.
LEMMA PartDone ==
    ASSUME NEW c, Form(c), NEW p \in c.todo, NEW r
    PROVE  /\ Form(Did(c, p, r))
           /\ Did(c, p, r).kind = c.kind /\ Did(c, p, r).arg = c.arg
           /\ Did(c, p, r).here = c.here /\ Did(c, p, r).fresh = c.fresh
           /\ Did(c, p, r).todo = c.todo \ {p}
           /\ DOMAIN Did(c, p, r).res = DOMAIN c.res \cup {p}
           /\ Did(c, p, r).res[p] = r
           /\ \A q \in DOMAIN c.res : Did(c, p, r).res[q] = c.res[q]
  <1> DEFINE res == [q \in DOMAIN c.res \cup {p} |-> IF q = p THEN r ELSE c.res[q]]
             d == Did(c, p, r)
  <1>1. /\ DOMAIN d = DOMAIN c /\ d.res = res /\ d.todo = c.todo \ {p}
        /\ d.kind = c.kind /\ d.arg = c.arg /\ d.here = c.here /\ d.fresh = c.fresh
    BY DEF Did, Form
  <1>2. DOMAIN res = DOMAIN c.res \cup {p} /\ res[p] = r
        /\ \A q \in DOMAIN c.res : res[q] = c.res[q]
    BY DEF Form
  <1> HIDE DEF res, d
  <1>3. Form(d)
    BY <1>1, <1>2 DEF Form
  <1> QED
    BY <1>1, <1>2, <1>3 DEF d

\* A call whose answer was made stale, and one whose page is gone.
LEMMA Marked ==
    ASSUME NEW c, Form(c), NEW e \in BOOLEAN
    PROVE  /\ Form([c EXCEPT !.fresh = e])
           /\ [c EXCEPT !.fresh = e].kind = c.kind /\ [c EXCEPT !.fresh = e].arg = c.arg
           /\ [c EXCEPT !.fresh = e].here = c.here /\ [c EXCEPT !.fresh = e].fresh = e
           /\ [c EXCEPT !.fresh = e].todo = c.todo /\ [c EXCEPT !.fresh = e].res = c.res
           /\ Form([c EXCEPT !.here = e])
           /\ [c EXCEPT !.here = e].kind = c.kind /\ [c EXCEPT !.here = e].arg = c.arg
           /\ [c EXCEPT !.here = e].here = e /\ [c EXCEPT !.here = e].fresh = c.fresh
           /\ [c EXCEPT !.here = e].todo = c.todo /\ [c EXCEPT !.here = e].res = c.res
  BY DEF Form

\* e is b, but for being fresh.
Like(e, b) ==
    /\ Form(e) /\ e.kind = b.kind /\ e.here = b.here /\ e.arg = b.arg /\ e.res = b.res
    /\ e.todo = b.todo

LEMMA Refreshed ==
    ASSUME NEW b, Form(b), NEW g \in BOOLEAN, NEW e, e = [b EXCEPT !.fresh = g]
    PROVE  Like(e, b) /\ e.fresh = g
  BY DEF Form, Like

-----------------------------------------------------------------------------
(* Which steps a page takes. *)

Insertion == \E k \in Rows : InsertRow(k) /\ UNCHANGED <<browser, cache, walk>>

LEMMA StepsOfRequests ==
    ASSUME Formed, at = "requests", Next
    PROVE  Insertion \/ (RequestsNext /\ UNCHANGED cache) \/ Return
  <1>1. \A c \in calls : c.kind = "requests" /\ c.here
    BY DEF Formed, CallsFormed, KindsOn
  <1>2. ~StatisticsNext
    BY <1>1 DEF StatisticsNext, LoadOverview, LoadAnalytics, LoadCache, HandleFlush, StoreEntry,
                Read, FlushAll, ShowOverview, ShowAnalytics, ShowStats, KeepStatistics, Flushed,
                FlushAlert
  <1> QED
    BY <1>1, <1>2 DEF Next, Insertion, Forget

LEMMA NoRequestsElsewhere == Formed /\ at # "requests" => ~RequestsNext
  <1> SUFFICES ASSUME Formed, at # "requests", RequestsNext PROVE FALSE
    OBVIOUS
  <1>1. \A c \in calls : c.kind # "requests"
    BY DEF Formed, CallsFormed, KindsOn, Pages, Mounted
  <1> QED
    BY <1>1 DEF RequestsNext, TimerFires, LoadRequests, CountRows, SelectRows, ShowRows, KeepRows

LEMMA StepsOfOverview ==
    ASSUME Formed, at = "overview", Next
    PROVE  \/ Insertion
           \/ Age /\ UNCHANGED <<browser, cache, walk>>
           \/ LoadOverview
           \/ \E c \in calls :
                \/ (GetOverviewStats(c) \/ GetUsageOverTime(c))
                     /\ UNCHANGED <<at, ui, clicks, doubt, requestLog, cache>>
                \/ ShowOverview(c) \/ KeepStatistics(c)
           \/ Return
  <1>1. \A c \in calls : c.kind = "overview" /\ c.here
    BY DEF Formed, CallsFormed, KindsOn
  <1>2. ~RequestsNext
    BY NoRequestsElsewhere
  <1> QED
    BY <1>1, <1>2 DEF Next, Insertion, Forget, StatisticsNext, LoadAnalytics, LoadCache,
                      HandleFlush, StoreEntry, Read, FlushAll, ShowAnalytics, ShowStats, Flushed,
                      FlushAlert

LEMMA StepsOfAnalytics ==
    ASSUME Formed, at = "analytics", Next
    PROVE  \/ Insertion
           \/ \E r \in Ranges : SelectRange(r)
           \/ LoadAnalytics
           \/ \E c \in calls :
                \/ (GetUsageOverTime(c) \/ GetModelUsageBreakdown(c))
                     /\ UNCHANGED <<at, ui, clicks, doubt, requestLog, cache>>
                \/ ShowAnalytics(c) \/ KeepStatistics(c)
           \/ Return
  <1>1. \A c \in calls : c.kind = "analytics" /\ c.here
    BY DEF Formed, CallsFormed, KindsOn
  <1>2. ~RequestsNext
    BY NoRequestsElsewhere
  <1> QED
    BY <1>1, <1>2 DEF Next, Insertion, Forget, StatisticsNext, LoadOverview, LoadCache,
                      HandleFlush, StoreEntry, Read, FlushAll, ShowOverview, ShowStats, Flushed,
                      FlushAlert

LEMMA StepsOfCache ==
    ASSUME Formed, at = "cache", Next
    PROVE  \/ Insertion
           \/ LoadCache \/ HandleFlush \/ StoreEntry
           \/ \E c \in calls :
                \/ c.kind = "stats" /\ (GetCacheOverview(c) \/ EntryCount(c))
                     /\ UNCHANGED <<at, ui, clicks, doubt, requestLog, cache>>
                \/ FlushAll(c) \/ ShowStats(c) \/ KeepStatistics(c) \/ Flushed(c) \/ FlushAlert(c)
                \/ Forget(c) /\ UNCHANGED <<requestLog, cache, walk>>
           \/ Return
  <1>1. \A c \in calls : c.kind \in {"stats", "flush"}
    BY DEF Formed, CallsFormed, KindsOn
  <1>2. ~RequestsNext
    BY NoRequestsElsewhere
  <1> QED
    BY <1>1, <1>2 DEF Next, Insertion, StatisticsNext, LoadOverview, LoadAnalytics,
                      Read, ShowOverview, ShowAnalytics

-----------------------------------------------------------------------------
(* What every step keeps. *)

\* The backend does a part of a call.
LEMMA ServedForms ==
    ASSUME Formed, NEW c \in calls, NEW p \in c.todo, NEW r, calls' = Served(c, p, r), at' = at
    PROVE  CallsFormed'
  <1>1. Form(c) /\ c.kind \in KindsOn[at] /\ (c.here \/ c.kind = "flush")
    BY DEF Formed, CallsFormed
  <1>2. /\ Form(Did(c, p, r)) /\ Did(c, p, r).kind = c.kind /\ Did(c, p, r).here = c.here
    BY <1>1, PartDone
  <1> QED
    BY <1>1, <1>2 DEF Served, Formed, CallsFormed

\* The page asks.
LEMMA AskForms ==
    ASSUME Formed, NEW k \in KindsOn[at], NEW a, Ask(Call(k, a, PartsOf[k])), at' = at
    PROVE  CallsFormed'
  <1>1. k \in DOMAIN PartsOf
    BY DEF Formed, KindsOn, PartsOf, Pages, Mounted
  <1> HIDE DEF Call
  <1>2. /\ Form(Call(k, a, PartsOf[k])) /\ Call(k, a, PartsOf[k]).kind = k
        /\ Call(k, a, PartsOf[k]).here = TRUE
    BY <1>1, NewCall
  <1> QED
    BY <1>2 DEF Ask, Formed, CallsFormed

\* Answers are taken.
LEMMA FewerForm == Formed /\ calls' \subseteq calls /\ at' = at => CallsFormed'
  BY DEF Formed, CallsFormed

\* A call is given up; the page may be gone.
LEMMA LeftForms ==
    ASSUME Formed, NEW c \in calls
    PROVE  /\ \A d \in Left(c) : /\ Form(d) /\ d.kind \in KindsOn[at] /\ d.kind = "flush"
                                 /\ d.here = FALSE /\ d.fresh = c.fresh /\ d.arg = c.arg
                                 /\ d.res = c.res /\ d.todo = c.todo
           /\ c.kind # "flush" => Left(c) = {}
  <1>1. Form(c) /\ c.kind \in KindsOn[at] /\ c.kind \in DOMAIN PartsOf
    BY DEF Formed, CallsFormed, Form
  <1>2. c.kind \in Edits => c.kind = "flush"
    BY <1>1 DEF Edits, PartsOf
  <1>3. \A d \in Left(c) : d = [c EXCEPT !.here = FALSE] /\ c.kind = "flush"
    BY <1>2 DEF Left
  <1>4. ASSUME NEW d \in Left(c)
        PROVE  /\ Form(d) /\ d.kind = c.kind /\ d.here = FALSE /\ d.fresh = c.fresh
               /\ d.arg = c.arg /\ d.res = c.res /\ d.todo = c.todo
    <2>1. d = [c EXCEPT !.here = FALSE]
      BY <1>3, <1>4
    <2> QED
      BY <1>1, <2>1, Marked
  <1> QED
    BY <1>1, <1>3, <1>4

LEMMA ThrowForms ==
    ASSUME Formed, NEW c \in calls, NEW s, Throw(c, s)
    PROVE  CallsFormed' /\ at' = at /\ doubt' \in BOOLEAN /\ (c.kind # "flush" => doubt' = TRUE)
  <1>1. calls' = (calls \ {c}) \cup Left(c) /\ at' = at /\ doubt' = (doubt \/ c.kind \notin Edits \/ c.res # <<>>)
    BY DEF Throw
  <1>2. CallsFormed'
    BY <1>1, LeftForms DEF Formed, CallsFormed
  <1>3. c.kind # "flush" => c.kind \notin Edits
    <2>1. c.kind \in DOMAIN PartsOf
      BY DEF Formed, CallsFormed, Form
    <2> QED
      BY <2>1 DEF PartsOf, Edits
  <1> QED
    BY <1>1, <1>2, <1>3 DEF Formed, ScreenFormed

\* The page is opened anew.
LEMMA ReturnForms ==
    ASSUME Formed, Return
    PROVE  /\ Formed' /\ at' = at /\ ui' = Mounted[at] /\ doubt' = FALSE
           /\ \A d \in calls' : d.kind = "flush" /\ d.here = FALSE
                            /\ \E c \in calls : d.arg = c.arg /\ c.kind = "flush"
           /\ at # "cache" => calls' = {}
  <1>1. /\ at' = at /\ ui' = Mounted[at] /\ doubt' = FALSE
        /\ calls' = UNION {Left(c) : c \in calls} /\ UNCHANGED <<log, old>>
    BY DEF Return, Visit, requestLog
  <1>2. \A d \in calls' : \E c \in calls : d \in Left(c)
    BY <1>1
  <1>3. \A d \in calls' : /\ Form(d) /\ d.kind \in KindsOn[at] /\ d.kind = "flush"
                          /\ d.here = FALSE
                          /\ \E c \in calls : d.arg = c.arg /\ c.kind = "flush"
    BY <1>2, LeftForms
  <1>4. at \in {"requests", "overview", "analytics", "cache"}
    BY DEF Formed, Pages, Mounted
  <1>5. "due" \in DOMAIN ui' /\ ui'.due = TRUE
    <2>1. CASE at = "requests"
      BY <1>1, <2>1 DEF Mounted, RequestsMounted
    <2>2. CASE at = "overview"
      BY <1>1, <2>2 DEF Mounted, OverviewMounted
    <2>3. CASE at = "analytics"
      BY <1>1, <2>3 DEF Mounted, AnalyticsMounted
    <2>4. CASE at = "cache"
      BY <1>1, <2>4 DEF Mounted, CacheMounted
    <2> QED
      BY <1>4, <2>1, <2>2, <2>3, <2>4
  <1>6. at # "cache" => calls' = {}
    BY <1>3, <1>4 DEF KindsOn
  <1> QED
    BY <1>1, <1>3, <1>5, <1>6 DEF Formed, CallsFormed, ScreenFormed, LogFormed

\* The proxy inserts a row: what was there is as it was.
LEMMA InsertionForms ==
    ASSUME Formed, Insertion
    PROVE  /\ Formed' /\ UNCHANGED <<at, ui, calls, clicks, doubt, entries, stores, walk>>
           /\ Len(log') = Len(log) + 1
           /\ \A i \in 1..Len(log) : log'[i] = log[i]
  <1>1. PICK k \in Rows : InsertRow(k) /\ UNCHANGED <<browser, cache, walk>>
    BY DEF Insertion
  <1>2. log \in Seq(Rows) /\ log' = Append(log, k) /\ Len(log) < MaxRows /\ old' = old
    BY <1>1 DEF InsertRow, Formed, LogFormed
  <1>3. /\ log' \in Seq(Rows) /\ Len(log') = Len(log) + 1
        /\ \A i \in 1..Len(log) : log'[i] = log[i]
    BY <1>2
  <1>4. Len(log') <= MaxRows
    <2>1. Len(log) \in Nat /\ MaxRows \in Nat
      BY <1>2, LogAssumption
    <2> QED
      BY <1>2, <1>3, <2>1
  <1>5. LogFormed'
    BY <1>2, <1>3, <1>4 DEF LogFormed, Formed
  <1>6. UNCHANGED <<at, ui, calls, clicks, doubt, entries, stores, walk>>
    BY <1>1 DEF browser, cache
  <1> QED
    BY <1>3, <1>5, <1>6 DEF Formed, CallsFormed, ScreenFormed

-----------------------------------------------------------------------------
(* The analytics. *)

LEMMA AnalyticsStep ==
    ASSUME Formed, AnalyticsInv, at = "analytics", Next
    PROVE  Formed' /\ AnalyticsInv' /\ at' = at
  <1>a. /\ \A c \in calls : /\ c.arg \in Ranges
                            /\ \A p \in DOMAIN c.res : OfRange(c.res[p], c.arg)
                            /\ c.fresh => c.arg = ui.range
        /\ ui.range \in Ranges
        /\ {"range", "usage", "models"} \subseteq DOMAIN ui
        /\ ui.usage # None => \E r \in Ranges : OfRange(ui.usage, r) /\ OfRange(ui.models, r)
        /\ \/ ui.due \/ doubt \/ ui.usage = None \/ ui.usage.range = ui.range
           \/ \E c \in calls : c.fresh
    BY DEF AnalyticsInv
  <1>f. \A c \in calls : Form(c) /\ c.kind = "analytics" /\ c.here
    BY DEF Formed, CallsFormed, KindsOn
  <1>n. Len(log) \in 0..MaxRows
    BY LogAssumption DEF Formed, LogFormed
  <1>1. CASE Insertion
    BY <1>1, InsertionForms DEF AnalyticsInv
  <1>2. ASSUME NEW r \in Ranges, SelectRange(r)
        PROVE  Formed' /\ AnalyticsInv' /\ at' = at
    <2>1. /\ ui' = [ui EXCEPT !.range = r, !.due = TRUE]
          /\ calls' = {[c EXCEPT !.fresh = FALSE] : c \in calls}
          /\ UNCHANGED <<at, doubt, log, old>>
      BY <1>2 DEF SelectRange, Rest, requestLog
    <2>2. /\ ui'.range = r /\ ui'.due = TRUE /\ DOMAIN ui' = DOMAIN ui
          /\ ui'.usage = ui.usage /\ ui'.models = ui.models
      BY <1>a, <2>1 DEF Formed, ScreenFormed
    <2>3. \A d \in calls' : \E c \in calls :
             /\ Form(d) /\ d.kind = c.kind /\ d.here = c.here /\ d.fresh = FALSE
             /\ d.arg = c.arg /\ d.res = c.res
      <3>1. \A c \in calls :
               LET d == [c EXCEPT !.fresh = FALSE]
               IN  /\ Form(d) /\ d.kind = c.kind /\ d.here = c.here /\ d.fresh = FALSE
                   /\ d.arg = c.arg /\ d.res = c.res
        BY <1>f, Marked
      <3> QED
        BY <2>1, <3>1, ZenonT(60)
    <2>4. Formed'
      BY <2>1, <2>2, <2>3 DEF Formed, CallsFormed, ScreenFormed, LogFormed
    <2>5. AnalyticsInv'
      BY <1>a, <2>1, <2>2, <2>3 DEF AnalyticsInv
    <2> QED
      BY <2>1, <2>4, <2>5
  <1>3. CASE LoadAnalytics
    <2> DEFINE d == Call("analytics", ui.range, PartsOf["analytics"])
    <2>1. /\ ui' = [ui EXCEPT !.due = FALSE, !.loading = TRUE]
          /\ Ask(d) /\ UNCHANGED <<at, doubt, log, old>>
      BY <1>3 DEF LoadAnalytics, GetAnalytics, Rest, requestLog, PartsOf
    <2>2. d.arg = ui.range /\ d.fresh = TRUE /\ DOMAIN d.res = {}
      BY DEF Call
    <2>3. CallsFormed'
      <3>1. "analytics" \in KindsOn[at]
        BY DEF KindsOn
      <3> QED
        BY <2>1, <3>1, AskForms
    <2>4. calls' = calls \cup {d}
      BY <2>1 DEF Ask
    <2> HIDE DEF d
    <2>5. /\ ui'.due = FALSE /\ DOMAIN ui' = DOMAIN ui /\ ui'.range = ui.range
          /\ ui'.usage = ui.usage /\ ui'.models = ui.models
      BY <1>a, <2>1 DEF Formed, ScreenFormed
    <2>6. Formed'
      BY <2>1, <2>3, <2>5 DEF Formed, ScreenFormed, LogFormed
    <2>7. AnalyticsInv'
      BY <1>a, <2>1, <2>2, <2>4, <2>5 DEF AnalyticsInv
    <2> QED
      BY <2>1, <2>6, <2>7
  <1>4. ASSUME NEW c \in calls, GetUsageOverTime(c) \/ GetModelUsageBreakdown(c),
               UNCHANGED <<at, ui, clicks, doubt, requestLog, cache>>
        PROVE  Formed' /\ AnalyticsInv' /\ at' = at
    <2> DEFINE r == [range |-> c.arg, rows |-> Len(log)]
    <2>1. PICK p \in c.todo : calls' = Served(c, p, r)
      BY <1>4 DEF GetUsageOverTime, GetModelUsageBreakdown
    <2>2. UNCHANGED <<at, ui, doubt, log, old>>
      BY <1>4 DEF requestLog
    <2>3. OfRange(r, c.arg)
      BY <1>n DEF OfRange
    <2> DEFINE d == Did(c, p, r)
    <2>4. /\ d.arg = c.arg /\ d.fresh = c.fresh
          /\ DOMAIN d.res = DOMAIN c.res \cup {p} /\ d.res[p] = r
          /\ \A q \in DOMAIN c.res : d.res[q] = c.res[q]
      BY <1>f, PartDone
    <2>5. calls' = (calls \ {c}) \cup {d}
      BY <2>1 DEF Served
    <2>6. Formed'
      BY <2>1, <2>2, ServedForms DEF Formed, ScreenFormed, LogFormed
    <2> HIDE DEF d, r
    <2>7. \A p_ \in DOMAIN d.res : OfRange(d.res[p_], c.arg)
      BY <1>a, <2>3, <2>4
    <2>8. AnalyticsInv'
      BY <1>a, <2>2, <2>4, <2>5, <2>7 DEF AnalyticsInv
    <2> QED
      BY <2>2, <2>6, <2>8
  <1>5. ASSUME NEW c \in calls, ShowAnalytics(c)
        PROVE  Formed' /\ AnalyticsInv' /\ at' = at
    <2>1. /\ ui' = [ui EXCEPT !.usage = c.res["usage"], !.models = c.res["models"],
                              !.loading = FALSE]
          /\ calls' = calls \ {c} /\ doubt' = ~c.fresh /\ c.todo = {}
          /\ UNCHANGED <<at, log, old>>
      BY <1>5 DEF ShowAnalytics, Resume, Answered, Rest, requestLog
    <2>2. DOMAIN c.res = {"usage", "models"}
      BY <1>f, <2>1 DEF Form, PartsOf
    <2>3. /\ ui'.due = ui.due /\ DOMAIN ui' = DOMAIN ui /\ ui'.range = ui.range
          /\ ui'.usage = c.res["usage"] /\ ui'.models = c.res["models"]
      BY <1>a, <2>1 DEF Formed, ScreenFormed
    <2>4. OfRange(ui'.usage, c.arg) /\ OfRange(ui'.models, c.arg) /\ c.arg \in Ranges
      BY <1>a, <2>2, <2>3
    <2>5. ui'.usage.range = c.arg
      BY <2>4 DEF OfRange
    <2>6. Formed'
      <3>1. c.fresh \in BOOLEAN
        BY <1>f DEF Form
      <3> QED
        BY <2>1, <2>3, <3>1, FewerForm DEF Formed, ScreenFormed, LogFormed
    <2>7. doubt' \/ ui'.usage.range = ui'.range
      BY <1>a, <2>1, <2>3, <2>5
    <2>8. AnalyticsInv'
      BY <1>a, <2>1, <2>3, <2>4, <2>7 DEF AnalyticsInv
    <2> QED
      BY <2>1, <2>6, <2>8
  <1>6. ASSUME NEW c \in calls, KeepStatistics(c)
        PROVE  Formed' /\ AnalyticsInv' /\ at' = at
    <2>1. Throw(c, [ui EXCEPT !.loading = FALSE]) /\ UNCHANGED <<log, old>>
      BY <1>6 DEF KeepStatistics, Rest, requestLog
    <2>2. CallsFormed' /\ at' = at /\ doubt' = TRUE
      BY <1>f, <2>1, ThrowForms
    <2>3. ui' = [ui EXCEPT !.loading = FALSE] /\ calls' \subseteq calls
      BY <1>f, <2>1, LeftForms DEF Throw
    <2>4. /\ ui'.due = ui.due /\ DOMAIN ui' = DOMAIN ui /\ ui'.range = ui.range
          /\ ui'.usage = ui.usage /\ ui'.models = ui.models
      BY <1>a, <2>3 DEF Formed, ScreenFormed
    <2>5. Formed'
      BY <2>1, <2>2, <2>4 DEF Formed, ScreenFormed, LogFormed
    <2>6. AnalyticsInv'
      BY <1>a, <2>2, <2>3, <2>4 DEF AnalyticsInv
    <2> QED
      BY <2>2, <2>5, <2>6
  <1>7. CASE Return
    <2>1. Formed' /\ at' = at /\ calls' = {} /\ ui' = AnalyticsMounted
      BY <1>7, ReturnForms DEF Mounted
    <2>2. AnalyticsInv'
      BY <2>1, RangeAssumption DEF AnalyticsInv, AnalyticsMounted
    <2> QED
      BY <2>1, <2>2
  <1> QED
    BY <1>1, <1>2, <1>3, <1>4, <1>5, <1>6, <1>7, StepsOfAnalytics

-----------------------------------------------------------------------------
(* The overview. *)

LEMMA OverviewStep ==
    ASSUME Formed, OverviewInv, at = "overview", Next
    PROVE  Formed' /\ OverviewInv' /\ at' = at
  <1>a. (\A c \in calls : DayFirst(c.res)) /\ DayWithinAll
    BY DEF OverviewInv
  <1>f. \A c \in calls : Form(c) /\ c.kind = "overview" /\ c.here
    BY DEF Formed, CallsFormed, KindsOn
  <1>n. Len(log) \in Nat /\ old \in Nat /\ Day \in Int /\ Day <= Len(log)
    BY DEF Formed, LogFormed, Day
  \* What the backend does next: the rows never get fewer.
  <1>1. CASE Insertion
    <2>1. /\ Formed' /\ UNCHANGED <<at, ui, calls>> /\ Len(log') = Len(log) + 1
      BY <1>1, InsertionForms
    <2>2. \A c \in calls : DayFirst(c.res)'
      BY <1>a, <1>n, <2>1 DEF DayFirst
    <2>3. DayWithinAll'
      BY <1>a, <2>1 DEF DayWithinAll
    <2> QED
      BY <2>1, <2>2, <2>3 DEF OverviewInv
  <1>2. CASE Age /\ UNCHANGED <<browser, cache, walk>>
    <2>1. UNCHANGED <<at, ui, calls, doubt, log>> /\ old' = old + 1
      BY <1>2 DEF Age, browser
    <2>2. Formed'
      BY <1>n, <2>1 DEF Formed, CallsFormed, ScreenFormed, LogFormed
    <2> QED
      BY <1>a, <2>1, <2>2 DEF OverviewInv, DayFirst, DayWithinAll
  <1>3. CASE LoadOverview
    <2> DEFINE d == Call("overview", "7d", PartsOf["overview"])
    <2>1. /\ ui' = [ui EXCEPT !.due = FALSE]
          /\ Ask(d) /\ UNCHANGED <<at, doubt, log, old>>
      BY <1>3 DEF LoadOverview, GetDashboardOverview, Rest, requestLog, PartsOf
    <2>2. DOMAIN d.res = {}
      BY DEF Call
    <2>3. CallsFormed'
      <3>1. "overview" \in KindsOn[at]
        BY DEF KindsOn
      <3> QED
        BY <2>1, <3>1, AskForms
    <2>4. calls' = calls \cup {d}
      BY <2>1 DEF Ask
    <2> HIDE DEF d
    <2>5. ui'.due = FALSE /\ DOMAIN ui' = DOMAIN ui /\ ui'.overview = ui.overview
      BY <2>1 DEF Formed, ScreenFormed
    <2>6. Formed'
      BY <2>1, <2>3, <2>5 DEF Formed, ScreenFormed, LogFormed
    <2>7. DayFirst(d.res)
      BY <2>2 DEF DayFirst
    <2>8. OverviewInv'
      BY <1>a, <2>1, <2>4, <2>5, <2>7 DEF OverviewInv, DayWithinAll, DayFirst
    <2> QED
      BY <2>1, <2>6, <2>8
  <1>4. ASSUME NEW c \in calls, GetOverviewStats(c) \/ GetUsageOverTime(c),
               UNCHANGED <<at, ui, clicks, doubt, requestLog, cache>>
        PROVE  Formed' /\ OverviewInv' /\ at' = at
    <2>1. Form(c) /\ DayFirst(c.res)
          /\ c.todo \cup DOMAIN c.res = {"day", "reqs", "hits", "total", "usage"}
          /\ c.todo \cap DOMAIN c.res = {}
      BY <1>a, <1>f DEF Form, PartsOf
    <2>2. UNCHANGED <<at, ui, doubt, log, old>>
      BY <1>4 DEF requestLog
    <2>3. ASSUME NEW p \in c.todo, NEW r, calls' = Served(c, p, r),
                 p = "day" => r = Day,
                 p = "reqs" => "day" \in DOMAIN c.res,
                 p = "hits" => "reqs" \in DOMAIN c.res,
                 p = "total" => "hits" \in DOMAIN c.res /\ (r = Failed \/ r = Len(log))
          PROVE  Formed' /\ OverviewInv' /\ at' = at
      <3> DEFINE d == Did(c, p, r)
      <3>1. /\ DOMAIN d.res = DOMAIN c.res \cup {p} /\ d.res[p] = r
            /\ \A q \in DOMAIN c.res : d.res[q] = c.res[q]
        BY <2>1, PartDone
      <3>2. calls' = (calls \ {c}) \cup {d}
        BY <2>3 DEF Served
      <3>3. Formed'
        BY <2>2, <2>3, ServedForms DEF Formed, ScreenFormed, LogFormed
      <3> HIDE DEF d
      <3>4. p \notin DOMAIN c.res
        BY <2>1
      <3>5. DayFirst(d.res)
        <4>1. "day" \in DOMAIN d.res => d.res["day"] \in Int /\ d.res["day"] <= Len(log)
          BY <1>n, <2>1, <2>3, <3>1 DEF DayFirst
        <4>2. p = "total" => "day" \in DOMAIN c.res
          BY <2>1, <2>3 DEF DayFirst
        <4>3. "total" \in DOMAIN d.res =>
                 d.res["total"] = Failed
                 \/ (d.res["total"] \in Int /\ d.res["day"] <= d.res["total"])
          <5>1. CASE p = "total"
            BY <1>n, <2>1, <2>3, <3>1, <4>1, <4>2, <5>1
          <5>2. CASE p # "total"
            BY <2>1, <3>1, <3>4, <5>2 DEF DayFirst
          <5> QED
            BY <5>1, <5>2
        <4>4. /\ "reqs" \in DOMAIN d.res => "day" \in DOMAIN d.res
              /\ "hits" \in DOMAIN d.res => "reqs" \in DOMAIN d.res
              /\ "total" \in DOMAIN d.res => "hits" \in DOMAIN d.res
          BY <2>1, <2>3, <3>1 DEF DayFirst
        <4> QED
          BY <4>1, <4>3, <4>4 DEF DayFirst
      <3>6. OverviewInv'
        BY <1>a, <2>2, <3>2, <3>5 DEF OverviewInv, DayWithinAll, DayFirst
      <3> QED
        BY <2>2, <3>3, <3>6
    <2>4. CASE GetUsageOverTime(c)
      BY <2>3, <2>4 DEF GetUsageOverTime
    <2>5. CASE After(c, "day", {}) /\ calls' = Served(c, "day", Day)
      BY <2>3, <2>5 DEF After
    <2>6. CASE After(c, "reqs", {"day"}) /\ Reads(c, "reqs", Day)
      <3>1. "reqs" \in c.todo /\ "day" \in DOMAIN c.res
        BY <2>1, <2>6 DEF After
      <3> QED
        BY <2>3, <2>6, <3>1 DEF Reads
    <2>7. CASE After(c, "hits", {"reqs"}) /\ Reads(c, "hits", Hits(old + 1 .. Len(log)))
      <3>1. "hits" \in c.todo /\ "reqs" \in DOMAIN c.res
        BY <2>1, <2>7 DEF After
      <3> QED
        BY <2>3, <2>7, <3>1 DEF Reads
    <2>8. CASE After(c, "total", {"hits"}) /\ Reads(c, "total", Len(log))
      <3>1. "total" \in c.todo /\ "hits" \in DOMAIN c.res
        BY <2>1, <2>8 DEF After
      <3> QED
        BY <2>3, <2>8, <3>1 DEF Reads
    <2> QED
      BY <1>4, <2>4, <2>5, <2>6, <2>7, <2>8 DEF GetOverviewStats
  <1>5. ASSUME NEW c \in calls, ShowOverview(c)
        PROVE  Formed' /\ OverviewInv' /\ at' = at
    <2>1. /\ ui' = [ui EXCEPT !.overview = c.res, !.usage = c.res["usage"], !.loading = FALSE]
          /\ calls' = calls \ {c} /\ doubt' = ~c.fresh /\ c.todo = {}
          /\ UNCHANGED <<at, log, old>>
      BY <1>5 DEF ShowOverview, Resume, Answered, Rest, requestLog
    <2>2. DayFirst(c.res) /\ "total" \in DOMAIN c.res /\ "day" \in DOMAIN c.res
      BY <1>a, <1>f, <2>1 DEF Form, PartsOf
    <2>3. ui'.due = ui.due /\ DOMAIN ui' = DOMAIN ui
      BY <2>1 DEF Formed, ScreenFormed
    <2>4. ui'.overview = c.res \/ ui'.overview = ui.overview
      BY <2>1
    <2>5. Formed'
      <3>1. c.fresh \in BOOLEAN
        BY <1>f DEF Form
      <3> QED
        BY <2>1, <2>3, <3>1, FewerForm DEF Formed, ScreenFormed, LogFormed
    <2>6. DayWithinAll'
      <3>1. c.res["total"] = Failed \/ c.res["day"] <= c.res["total"]
        BY <2>2 DEF DayFirst
      <3> QED
        BY <1>a, <2>1, <2>4, <3>1 DEF DayWithinAll
    <2>7. OverviewInv'
      BY <1>a, <2>1, <2>6 DEF OverviewInv, DayFirst
    <2> QED
      BY <2>1, <2>5, <2>7
  <1>6. ASSUME NEW c \in calls, KeepStatistics(c)
        PROVE  Formed' /\ OverviewInv' /\ at' = at
    <2>1. Throw(c, [ui EXCEPT !.loading = FALSE]) /\ UNCHANGED <<log, old>>
      BY <1>6 DEF KeepStatistics, Rest, requestLog
    <2>2. CallsFormed' /\ at' = at /\ doubt' = TRUE
      BY <1>f, <2>1, ThrowForms
    <2>3. ui' = [ui EXCEPT !.loading = FALSE] /\ calls' \subseteq calls
      BY <1>f, <2>1, LeftForms DEF Throw
    <2>4. ui'.due = ui.due /\ DOMAIN ui' = DOMAIN ui /\ ui'.overview = ui.overview
      BY <2>3 DEF Formed, ScreenFormed
    <2>5. Formed'
      BY <2>1, <2>2, <2>4 DEF Formed, ScreenFormed, LogFormed
    <2>6. OverviewInv'
      BY <1>a, <2>1, <2>2, <2>3, <2>4 DEF OverviewInv, DayWithinAll, DayFirst
    <2> QED
      BY <2>2, <2>5, <2>6
  <1>7. CASE Return
    <2>1. Formed' /\ at' = at /\ calls' = {} /\ ui' = OverviewMounted
      BY <1>7, ReturnForms DEF Mounted
    <2>2. OverviewInv'
      BY <2>1 DEF OverviewInv, OverviewMounted, DayWithinAll
    <2> QED
      BY <2>1, <2>2
  <1> QED
    BY <1>1, <1>2, <1>3, <1>4, <1>5, <1>6, <1>7, StepsOfOverview

-----------------------------------------------------------------------------
(* The cache. *)

LEMMA CacheStep ==
    ASSUME Formed, CacheInv, at = "cache", Next
    PROVE  Formed' /\ CacheInv' /\ at' = at
  <1> DEFINE Flushing == \E c \in calls : c.kind = "flush" /\ c.here /\ c.todo = {}
             Counting == \E c \in calls : Counted(c)
  <1>a. /\ "stats" \in DOMAIN ui
        /\ \A c \in calls : c.kind = "flush" => DOMAIN c.arg = {"id"}
        /\ \A c \in calls :
             Counted(c) /\ "entries" \in DOMAIN c.res => c.res["entries"] \subseteq entries
        /\ ui.due \/ doubt \/ Flushing \/ Counting \/ ui.stats["entries"] \subseteq entries
    BY DEF CacheInv
  <1>f. \A c \in calls : /\ Form(c) /\ c.kind \in {"stats", "flush"}
                         /\ (c.here \/ c.kind = "flush")
    BY DEF Formed, CallsFormed, KindsOn
  <1>k. KindsOn[at] = {"stats", "flush"}
    BY DEF KindsOn
  <1>u. ui.due \in BOOLEAN /\ "due" \in DOMAIN ui /\ doubt \in BOOLEAN
    BY DEF Formed, ScreenFormed
  <1>1. CASE Insertion
    BY <1>1, InsertionForms DEF CacheInv, Counted
  <1>2. CASE StoreEntry
    <2>1. UNCHANGED <<at, ui, calls, doubt, log, old>> /\ entries \subseteq entries'
      BY <1>2 DEF StoreEntry, browser, requestLog
    <2>2. Formed'
      BY <2>1 DEF Formed, CallsFormed, ScreenFormed, LogFormed
    <2>3. CacheInv'
      BY <1>a, <2>1 DEF CacheInv, Counted
    <2> QED
      BY <2>1, <2>2, <2>3
  <1>3. CASE LoadCache
    <2> DEFINE d == Call("stats", None, PartsOf["stats"])
    <2>1. /\ ui' = [ui EXCEPT !.due = FALSE]
          /\ Ask(d) /\ UNCHANGED <<at, doubt, log, old, entries>>
      BY <1>3 DEF LoadCache, GetCacheStats, Rest, requestLog, cache, PartsOf
    <2>2. DOMAIN d.res = {} /\ d.kind = "stats" /\ d.fresh = TRUE
      BY DEF Call
    <2>3. CallsFormed'
      BY <1>k, <2>1, AskForms
    <2>4. calls' = calls \cup {d}
      BY <2>1 DEF Ask
    <2> HIDE DEF d
    <2>5. ui'.due = FALSE /\ DOMAIN ui' = DOMAIN ui
      BY <1>u, <2>1
    <2>6. Formed'
      BY <2>1, <2>3, <2>5 DEF Formed, ScreenFormed, LogFormed
    <2>7. CacheInv'
      BY <1>a, <2>1, <2>2, <2>4, <2>5 DEF CacheInv, Counted
    <2> QED
      BY <2>1, <2>6, <2>7
  <1>4. CASE HandleFlush
    <2> DEFINE d == Call("flush", [id |-> None], PartsOf["flush"])
    <2>1. /\ ui' = [ui EXCEPT !.flushing = TRUE]
          /\ Ask(d) /\ UNCHANGED <<at, doubt, log, old, entries>>
      BY <1>4 DEF HandleFlush, FlushCache, Rest, requestLog, cache, PartsOf
    <2>2. d.kind = "flush" /\ DOMAIN d.arg = {"id"}
      BY DEF Call
    <2>3. CallsFormed'
      BY <1>k, <2>1, AskForms
    <2>4. calls' = calls \cup {d}
      BY <2>1 DEF Ask
    <2> HIDE DEF d
    <2>5. ui'.due = ui.due /\ DOMAIN ui' = DOMAIN ui /\ ui'.stats = ui.stats
      BY <1>a, <1>u, <2>1
    <2>6. Formed'
      BY <1>u, <2>1, <2>3, <2>5 DEF Formed, ScreenFormed, LogFormed
    <2>7. CacheInv'
      BY <1>a, <2>1, <2>2, <2>4, <2>5 DEF CacheInv, Counted
    <2> QED
      BY <2>1, <2>6, <2>7
  \* A part of a count: what is read of the entries is there.
  <1>5. ASSUME NEW c \in calls, c.kind = "stats", GetCacheOverview(c) \/ EntryCount(c),
               UNCHANGED <<at, ui, clicks, doubt, requestLog, cache>>
        PROVE  Formed' /\ CacheInv' /\ at' = at
    <2>1. UNCHANGED <<at, ui, doubt, log, old, entries>>
      BY <1>5 DEF requestLog, cache
    <2>2. PICK p \in c.todo : \E r : calls' = Served(c, p, r) /\ (p = "entries" => r \subseteq entries)
      <3>1. CASE GetCacheOverview(c)
        BY <3>1 DEF GetCacheOverview, After, Reads
      <3>2. CASE EntryCount(c)
        <4>1. "entries" \in c.todo
          BY <3>2 DEF EntryCount, After
        <4>2. PICK n \in {entries, {}} : calls' = Served(c, "entries", n)
          BY <3>2 DEF EntryCount
        <4> QED
          BY <4>1, <4>2
      <3> QED
        BY <1>5, <3>1, <3>2
    <2>3. PICK r : calls' = Served(c, p, r) /\ (p = "entries" => r \subseteq entries)
      BY <2>2
    <2> DEFINE d == Did(c, p, r)
    <2>4. /\ d.kind = c.kind /\ d.fresh = c.fresh
          /\ DOMAIN d.res = DOMAIN c.res \cup {p} /\ d.res[p] = r
          /\ \A q \in DOMAIN c.res : d.res[q] = c.res[q]
      BY <1>f, PartDone
    <2>5. calls' = (calls \ {c}) \cup {d}
      BY <2>3 DEF Served
    <2>6. Formed'
      BY <2>1, <2>3, ServedForms DEF Formed, ScreenFormed, LogFormed
    <2> HIDE DEF d
    <2>7. Counted(d) /\ "entries" \in DOMAIN d.res => d.res["entries"] \subseteq entries
      <3>1. CASE p = "entries"
        BY <2>3, <2>4, <3>1
      <3>2. CASE p # "entries"
        BY <1>a, <2>4, <3>2 DEF Counted
      <3> QED
        BY <3>1, <3>2
    <2>8. Counted(c) => Counted(d)
      BY <2>4 DEF Counted
    <2>9. (ui.due \/ doubt \/ Flushing \/ Counting \/ ui.stats["entries"] \subseteq entries)'
      <3>1. Flushing => Flushing'
        BY <1>5, <2>5
      <3>2. Counting => Counting'
        BY <2>5, <2>8 DEF Counted
      <3> QED
        BY <1>a, <2>1, <3>1, <3>2
    <2>10. CacheInv'
      BY <1>5, <1>a, <2>1, <2>4, <2>5, <2>7, <2>9 DEF CacheInv, Counted
    <2> QED
      BY <2>1, <2>6, <2>10
  \* A flush is carried out: counts under way are stale, and the page will count again.
  <1>6. ASSUME NEW c \in calls, FlushAll(c)
        PROVE  Formed' /\ CacheInv' /\ at' = at
    <2> DEFINE d == Did(c, "flush", None)
    <2>1. /\ c.kind = "flush" /\ "flush" \in c.todo /\ entries' = {}
          /\ calls' = (Outdated(calls \ {c}, c.arg.id) \cup (IF c.here THEN {d} ELSE {}))
          /\ doubt' = (doubt \/ ~c.here)
          /\ UNCHANGED <<at, ui, log, old>>
      BY <1>6 DEF FlushAll, Edit, requestLog
    <2>2. /\ Form(d) /\ d.kind = "flush" /\ d.here = c.here /\ d.arg = c.arg
          /\ d.todo = {}
      <3>1. Form(c) /\ c.todo \subseteq {"flush"}
        BY <1>f, <2>1 DEF Form, PartsOf
      <3> QED
        BY <2>1, <3>1, PartDone
    <2> HIDE DEF d
    <2>3. \A e \in Outdated(calls \ {c}, c.arg.id) :
            \E b \in calls : Like(e, b) /\ (Counted(e) => e.res = <<>>)
      <3>1. \A e \in Outdated(calls \ {c}, c.arg.id) :
              \E b \in calls, g \in BOOLEAN :
                e = [b EXCEPT !.fresh = g] /\ (b.kind = "stats" /\ g => b.res = <<>>)
        <4>1. \A b \in calls : b.fresh \in BOOLEAN
          BY <1>f DEF Form
        <4>2. \A b \in calls :
                LET g == b.fresh /\ (b.res = <<>> \/ (b.kind \in Edits /\ b.arg.id # c.arg.id))
                IN  g \in BOOLEAN /\ (b.kind = "stats" /\ g => b.res = <<>>)
          BY <4>1 DEF Edits
        <4> QED
          BY <4>2 DEF Outdated
      <3>2. ASSUME NEW b \in calls, NEW g \in BOOLEAN, b.kind = "stats" /\ g => b.res = <<>>, NEW e,
                   e = [b EXCEPT !.fresh = g]
            PROVE  Like(e, b) /\ (Counted(e) => e.res = <<>>)
        <4>1. Like(e, b) /\ e.fresh = g
          <5>1. Form(b)
            BY <1>f
          <5>2. Like(e, b) /\ e.fresh = g
            BY <3>2, <5>1, Refreshed
          <5> QED
            BY <5>2
        <4>2. Counted(e) => e.res = <<>>
          BY <3>2, <4>1 DEF Counted, Like
        <4> QED
          BY <4>1, <4>2
      <3> QED
        BY <3>1, <3>2
    <2> DEFINE O == Outdated(calls \ {c}, c.arg.id)
    <2> HIDE DEF O
    <2>o. /\ calls' \subseteq O \cup {d} /\ (c.here => d \in calls')
          /\ (~c.here => calls' = O)
      BY <2>1 DEF O
    <2>x. \A e \in O : \E b \in calls : Like(e, b) /\ (Counted(e) => e.res = <<>>)
      BY <2>3 DEF O
    <2>4. CallsFormed'
      <3>1. \A e \in O : Form(e) /\ e.kind \in {"stats", "flush"} /\ (e.here \/ e.kind = "flush")
        BY <1>f, <2>x DEF Like
      <3>2. Form(d) /\ d.kind \in {"stats", "flush"} /\ (d.here \/ d.kind = "flush")
        BY <2>2
      <3>3. KindsOn[at'] = {"stats", "flush"}
        BY <1>k, <2>1
      <3> QED
        BY <2>o, <3>1, <3>2, <3>3 DEF CallsFormed
    <2>5. Formed'
      BY <1>u, <2>1, <2>4 DEF Formed, ScreenFormed, LogFormed
    <2>6. \A e \in calls' : Counted(e) => "entries" \notin DOMAIN e.res
      <3>1. \A e \in calls' : Counted(e) => e.res = <<>>
        BY <2>o, <2>2, <2>x DEF Counted
      <3>2. DOMAIN <<>> = {}
        OBVIOUS
      <3> QED
        BY <3>1, <3>2
    <2>7. doubt' \/ Flushing'
      BY <2>o, <2>1, <2>2
    <2>8. \A e \in calls' : e.kind = "flush" => DOMAIN e.arg = {"id"}
      BY <1>a, <2>o, <2>1, <2>2, <2>x DEF Like
    <2>9. CacheInv'
      BY <1>a, <2>1, <2>6, <2>7, <2>8 DEF CacheInv, Counted
    <2> QED
      BY <2>1, <2>5, <2>9
  <1>7. ASSUME NEW c \in calls, ShowStats(c)
        PROVE  Formed' /\ CacheInv' /\ at' = at
    <2>1. /\ ui' = [ui EXCEPT !.stats = c.res, !.loading = FALSE]
          /\ calls' = calls \ {c} /\ doubt' = ~c.fresh /\ c.todo = {} /\ c.kind = "stats"
          /\ UNCHANGED <<at, log, old, entries>>
      BY <1>7 DEF ShowStats, Resume, Answered, Rest, requestLog, cache
    <2>2. "entries" \in DOMAIN c.res /\ c.fresh \in BOOLEAN
      BY <1>f, <2>1 DEF Form, PartsOf
    <2>3. ui'.due = ui.due /\ DOMAIN ui' = DOMAIN ui /\ ui'.stats = c.res
      BY <1>a, <1>u, <2>1
    <2>4. Formed'
      BY <1>u, <2>1, <2>2, <2>3, FewerForm DEF Formed, ScreenFormed, LogFormed
    <2>5. doubt' \/ ui'.stats["entries"] \subseteq entries'
      BY <1>a, <2>1, <2>2, <2>3 DEF Counted
    <2>6. CacheInv'
      BY <1>a, <2>1, <2>3, <2>5 DEF CacheInv, Counted
    <2> QED
      BY <2>1, <2>4, <2>6
  <1>8. ASSUME NEW c \in calls, KeepStatistics(c)
        PROVE  Formed' /\ CacheInv' /\ at' = at
    <2>1. /\ Throw(c, [ui EXCEPT !.loading = FALSE]) /\ UNCHANGED <<log, old, entries>>
          /\ c.kind # "flush"
      BY <1>8 DEF KeepStatistics, Rest, requestLog, cache
    <2>2. CallsFormed' /\ at' = at /\ doubt' = TRUE
      BY <2>1, ThrowForms
    <2>3. ui' = [ui EXCEPT !.loading = FALSE] /\ calls' \subseteq calls
      BY <2>1, LeftForms DEF Throw
    <2>4. ui'.due = ui.due /\ DOMAIN ui' = DOMAIN ui
      BY <1>u, <2>3
    <2>5. Formed'
      BY <1>u, <2>1, <2>2, <2>4 DEF Formed, ScreenFormed, LogFormed
    <2>6. CacheInv'
      BY <1>a, <2>1, <2>2, <2>3, <2>4 DEF CacheInv, Counted
    <2> QED
      BY <2>2, <2>5, <2>6
  <1>9. ASSUME NEW c \in calls, Flushed(c)
        PROVE  Formed' /\ CacheInv' /\ at' = at
    <2>1. /\ ui' = [ui EXCEPT !.flushing = FALSE, !.due = TRUE]
          /\ calls' = calls \ {c}
          /\ UNCHANGED <<at, doubt, log, old, entries>>
      BY <1>9 DEF Flushed, Resume, Rest, requestLog, cache
    <2>2. ui'.due = TRUE /\ DOMAIN ui' = DOMAIN ui
      BY <1>u, <2>1
    <2>3. Formed'
      BY <1>u, <2>1, <2>2, FewerForm DEF Formed, ScreenFormed, LogFormed
    <2>4. CacheInv'
      BY <1>a, <2>1, <2>2 DEF CacheInv, Counted
    <2> QED
      BY <2>1, <2>3, <2>4
  \* A flush that failed for the page: either it was not carried out, or nobody knows.
  <1>10. ASSUME NEW c \in calls, FlushAlert(c)
         PROVE  Formed' /\ CacheInv' /\ at' = at
    <2>1. /\ Throw(c, [ui EXCEPT !.flushing = FALSE]) /\ UNCHANGED <<log, old, entries>>
          /\ c.kind = "flush"
      BY <1>10 DEF FlushAlert, Rest, requestLog, cache
    <2>2. CallsFormed' /\ at' = at /\ doubt' \in BOOLEAN
      BY <2>1, ThrowForms
    <2>3. /\ ui' = [ui EXCEPT !.flushing = FALSE] /\ calls' = (calls \ {c}) \cup Left(c)
          /\ doubt' = (doubt \/ c.kind \notin Edits \/ c.res # <<>>)
      BY <2>1 DEF Throw
    <2>4. ui'.due = ui.due /\ DOMAIN ui' = DOMAIN ui /\ ui'.stats = ui.stats
      BY <1>a, <1>u, <2>3
    <2>5. Formed'
      BY <1>u, <2>1, <2>2, <2>4 DEF Formed, ScreenFormed, LogFormed
    <2>6. \A d \in Left(c) : d.kind = "flush" /\ d.arg = c.arg
      BY LeftForms
    <2>7. c.todo = {} => doubt'
      <3>1. c.todo = {} => DOMAIN c.res = {"flush"}
        BY <1>f, <2>1 DEF Form, PartsOf
      <3>2. DOMAIN <<>> = {}
        OBVIOUS
      <3> QED
        BY <2>3, <3>1, <3>2
    <2>8. (ui.due \/ doubt \/ Flushing \/ Counting \/ ui.stats["entries"] \subseteq entries)'
      <3>1. Flushing => doubt' \/ Flushing'
        BY <2>3, <2>7
      <3>2. Counting => Counting'
        BY <2>1, <2>3 DEF Counted
      <3> QED
        BY <1>a, <2>1, <2>3, <2>4, <3>1, <3>2
    <2>9. CacheInv'
      BY <1>a, <2>1, <2>2, <2>3, <2>4, <2>6, <2>8 DEF CacheInv, Counted
    <2> QED
      BY <2>2, <2>5, <2>9
  <1>11. ASSUME NEW c \in calls, Forget(c), UNCHANGED <<requestLog, cache, walk>>
         PROVE  Formed' /\ CacheInv' /\ at' = at
    <2>1. /\ ~c.here /\ calls' = calls \ {c}
          /\ UNCHANGED <<at, ui, doubt, log, old, entries>>
      BY <1>11 DEF Forget, requestLog, cache
    <2>2. c.kind = "flush"
      BY <1>f, <2>1
    <2>3. Formed'
      BY <2>1, FewerForm DEF Formed, ScreenFormed, LogFormed
    <2>4. (Flushing => Flushing') /\ (Counting => Counting')
      BY <2>1, <2>2 DEF Counted
    <2>5. CacheInv'
      BY <1>a, <2>1, <2>4 DEF CacheInv, Counted
    <2> QED
      BY <2>1, <2>3, <2>5
  <1>12. CASE Return
    <2>1. /\ Formed' /\ at' = at /\ ui' = CacheMounted
          /\ \A d \in calls' : d.kind = "flush" /\ \E c \in calls : d.arg = c.arg /\ c.kind = "flush"
      BY <1>12, ReturnForms DEF Mounted
    <2>2. CacheInv'
      BY <1>a, <2>1 DEF CacheInv, CacheMounted, Counted
    <2> QED
      BY <2>1, <2>2
  <1> QED
    BY <1>1, <1>2, <1>3, <1>4, <1>5, <1>6, <1>7, <1>8, <1>9, <1>10, <1>11, <1>12, StepsOfCache

-----------------------------------------------------------------------------
(* The request log: counting rows. *)

LEMMA MatchingIsFinite ==
    ASSUME LogFormed, NEW f
    PROVE  Matching(f) \subseteq 1..Len(log) /\ IsFiniteSet(Matching(f)) /\ Cardinality(Matching(f)) \in Nat
  <1>1. Len(log) \in Nat /\ DOMAIN log = 1..Len(log)
    BY DEF LogFormed
  <1>2. Matching(f) \subseteq 1..Len(log)
    BY <1>1 DEF Matching
  <1>3. IsFiniteSet(1..Len(log))
    BY <1>1, FS_Interval
  <1>4. IsFiniteSet(Matching(f))
    BY <1>2, <1>3, FS_Subset
  <1> QED
    BY <1>2, <1>4, FS_CardinalityType

\* Fewer rows are newer than a row than there are.
LEMMA NewerIsLess ==
    ASSUME LogFormed, NEW f, NEW i \in Matching(f)
    PROVE  Newer(f, i) \in Nat /\ Newer(f, i) < Cardinality(Matching(f))
  <1> DEFINE M == Matching(f)
             N == {j \in M : j > i}
  <1>1. M \subseteq 1..Len(log) /\ IsFiniteSet(M) /\ Cardinality(M) \in Nat
    BY MatchingIsFinite
  <1>2. N \subseteq M \ {i}
    <2>1. Len(log) \in Nat
      BY DEF LogFormed
    <2> QED
      BY <1>1, <2>1
  <1>3. IsFiniteSet(M \ {i}) /\ Cardinality(M \ {i}) = Cardinality(M) - 1
    BY <1>1, FS_RemoveElement
  <1>4. IsFiniteSet(N) /\ Cardinality(N) <= Cardinality(M \ {i})
    BY <1>2, <1>3, FS_Subset
  <1>5. Cardinality(N) \in Nat
    BY <1>4, FS_CardinalityType
  <1>6. Newer(f, i) = Cardinality(N)
    BY DEF Newer
  <1> HIDE DEF M, N
  <1>7. Newer(f, i) \in Nat /\ Newer(f, i) < Cardinality(M)
    BY <1>1, <1>3, <1>4, <1>5, <1>6
  <1> QED
    BY <1>7 DEF M

\* Questions that differ in the page are about the same rows.
LEMMA SameRows ==
    ASSUME NEW f, NEW g, f.search = g.search, f.provider = g.provider, f.status = g.status
    PROVE  Matching(f) = Matching(g) /\ \A i : Newer(f, i) = Newer(g, i)
  <1>1. Matching(f) = Matching(g)
    BY DEF Matching, Satisfies
  <1> QED
    BY <1>1 DEF Newer

\* After a row came, what matched matches, and as many rows are newer, or more.
LEMMA RowsComeAfter ==
    ASSUME Formed, Insertion, NEW f
    PROVE  /\ Matching(f) \subseteq Matching(f)'
           /\ \A i \in Matching(f) : Newer(f, i) \in Nat /\ Newer(f, i)' \in Nat
                                     /\ Newer(f, i) <= Newer(f, i)'
  <1>1. LogFormed /\ LogFormed' /\ Len(log') = Len(log) + 1 /\ \A i \in 1..Len(log) : log'[i] = log[i]
    BY InsertionForms DEF Formed
  <1>2. Matching(f) \subseteq Matching(f)'
    <2>1. DOMAIN log = 1..Len(log) /\ DOMAIN log' = 1..Len(log') /\ Len(log) \in Nat
      BY <1>1 DEF LogFormed
    <2>2. \A i \in DOMAIN log : i \in DOMAIN log' /\ log'[i] = log[i]
      BY <1>1, <2>1
    <2> QED
      BY <2>2 DEF Matching
  <1>3. ASSUME NEW i \in Matching(f)
        PROVE  Newer(f, i) \in Nat /\ Newer(f, i)' \in Nat /\ Newer(f, i) <= Newer(f, i)'
    <2> DEFINE N == {j \in Matching(f) : j > i}
               M == {j \in Matching(f)' : j > i}
    <2>1. N \subseteq M /\ M \subseteq Matching(f)'
      BY <1>2
    <2>2. IsFiniteSet(Matching(f)')
      <3>1. Len(log') \in Nat /\ DOMAIN log' = 1..Len(log')
        BY <1>1 DEF LogFormed
      <3>2. Matching(f)' \subseteq 1..Len(log')
        BY <3>1 DEF Matching
      <3>3. IsFiniteSet(1..Len(log'))
        BY <3>1, FS_Interval
      <3> QED
        BY <3>2, <3>3, FS_Subset
    <2>3. IsFiniteSet(M)
      BY <2>1, <2>2, FS_Subset
    <2>4. IsFiniteSet(N) /\ Cardinality(N) <= Cardinality(M)
      BY <2>1, <2>3, FS_Subset
    <2>5. Cardinality(N) \in Nat /\ Cardinality(M) \in Nat
      BY <2>3, <2>4, FS_CardinalityType
    <2>6. Newer(f, i) = Cardinality(N) /\ Newer(f, i)' = Cardinality(M)
      BY DEF Newer
    <2> QED
      BY <2>4, <2>5, <2>6
  <1> QED
    BY <1>2, <1>3

LEMMA TimesGrows ==
    ASSUME NEW l \in Nat, NEW p \in Nat, NEW q \in Nat, p >= q
    PROVE  l * q <= p * l
  <1>1. p = q + (p - q) /\ p - q \in Nat
    OBVIOUS
  <1>2. PICK d \in Nat : p = q + d
    BY <1>1
  <1>3. p * l = l * q + l * d
    BY <1>2
  <1>4. l * d \in Nat /\ l * q \in Nat
    BY <1>2
  <1> QED
    BY <1>3, <1>4

\* So many pages hold so many rows.
LEMMA PagesHoldAll ==
    ASSUME NEW n \in Nat, NEW l \in Nat \ {0}
    PROVE  /\ TotalPages(n, l) \in Nat
           /\ \A p \in Nat : p >= TotalPages(n, l) => n <= p * l
  <1> DEFINE q == n \div l
             m == n % l
  <1>1. q \in Nat /\ m \in Nat /\ m < l /\ n = l * q + m
    OBVIOUS
  <1>2. TotalPages(n, l) = q + (IF m # 0 THEN 1 ELSE 0)
    BY DEF TotalPages
  <1> HIDE DEF q, m
  <1>3. ASSUME NEW p \in Nat, p >= TotalPages(n, l)
        PROVE  n <= p * l
    <2>1. CASE m = 0
      <3>1. p >= q /\ n = l * q
        BY <1>1, <1>2, <1>3, <2>1
      <3> QED
        BY <1>1, <3>1, TimesGrows
    <2>2. CASE m # 0
      <3>1. p >= q + 1
        BY <1>1, <1>2, <1>3, <2>2
      <3>2. l * (q + 1) <= p * l
        BY <1>1, <3>1, TimesGrows
      <3>3. l * (q + 1) = l * q + l
        BY <1>1
      <3>4. l * q \in Nat /\ p * l \in Nat
        BY <1>1
      <3> QED
        BY <1>1, <3>2, <3>3, <3>4
    <2> QED
      BY <2>1, <2>2
  <1> QED
    BY <1>1, <1>2, <1>3

\* A page holds the rows that are not before it and not behind it.
LEMMA PageHoldsItsRows ==
    ASSUME LogFormed, NEW f, f.page \in Nat \ {0}, f.limit \in Nat \ {0},
           NEW i \in Matching(f), Newer(f, i) >= (f.page - 1) * f.limit
    PROVE  i \in RowsOf(f) \/ Newer(f, i) >= f.page * f.limit
  <1> DEFINE n == Newer(f, i)
             o == (f.page - 1) * f.limit
  <1>1. n \in Nat
    BY NewerIsLess
  <1>2. o \in Nat /\ f.page * f.limit = o + f.limit
    OBVIOUS
  <1>3. RowsOf(f) = {j \in Matching(f) : Newer(f, j) \in o..(o + f.limit - 1)}
    BY DEF RowsOf, Newer, Offset
  <1>4. n >= o
    OBVIOUS
  <1> HIDE DEF o
  <1>5. n \in o..(o + f.limit - 1) \/ n >= f.page * f.limit
    <2> HIDE DEF n
    <2> QED
      BY <1>1, <1>2, <1>4
  <1> QED
    BY <1>3, <1>5

\* Who has seen the rows before a page and gets the page has seen them up to its end,
\* and if it is the last, all.
LEMMA PageCovers ==
    ASSUME LogFormed, NEW f, f.page \in Nat \ {0}, f.limit \in Nat \ {0},
           NEW base, base \subseteq Matching(f), NEW seen, Covers(f, f.page - 1, base, seen)
    PROVE  /\ Covers(f, f.page, base, seen \cup RowsOf(f))
           /\ f.page >= TotalPages(Cardinality(Matching(f)), f.limit) => base \subseteq seen \cup RowsOf(f)
  <1>1. Covers(f, f.page, base, seen \cup RowsOf(f))
    BY PageHoldsItsRows DEF Covers
  <1>2. ASSUME f.page >= TotalPages(Cardinality(Matching(f)), f.limit), NEW i \in base
        PROVE  i \in seen \cup RowsOf(f)
    <2> DEFINE n == Cardinality(Matching(f))
               m == Newer(f, i)
               e == f.page * f.limit
    <2>1. n \in Nat
      BY MatchingIsFinite
    <2>2. n <= e
      <3> HIDE DEF n
      <3> QED
        BY <1>2, <2>1, PagesHoldAll DEF n
    <2>3. m \in Nat /\ m < n
      BY NewerIsLess
    <2>4. e \in Nat
      OBVIOUS
    <2>5. i \in seen \cup RowsOf(f) \/ m >= e
      BY <1>1 DEF Covers
    <2> HIDE DEF n, m, e
    <2>6. ~(m >= e)
      BY <2>1, <2>2, <2>3, <2>4
    <2> QED
      BY <2>5, <2>6
  <1> QED
    BY <1>1, <1>2

-----------------------------------------------------------------------------
(* The request log: what the user does. *)

\* A handler leaves the state r: what was shown and what is due is as it was.
Kept(r) ==
    /\ DOMAIN r = DOMAIN ui
    /\ r.due = ui.due /\ r.for = ui.for /\ r.loading = ui.loading /\ r.pages = ui.pages
    /\ r.page \in Nat \ {0} /\ r.limit \in Limits
\* Only the button for the next page keeps a walk on another page.
StaysOnWalk(r) ==
    \/ walk' = NoWalk
    \/ walk' = walk /\ Params(r) = Params(ui)
    \/ /\ walk' = walk /\ ~ui.loading /\ ~ui.due
       /\ r.page = ui.page + 1 /\ r.limit = ui.limit /\ r.debounced = ui.debounced
       /\ r.status = ui.status /\ r.provider = ui.provider
UserActs == \E r : Kept(r) /\ Leave(r) /\ StaysOnWalk(r)

LEMMA TurnsPage ==
    ASSUME RequestsUi, NEW n \in Nat \ {0}, LET r == [ui EXCEPT !.page = n] IN Leave(r) /\ Astray(r)
    PROVE  UserActs
  <1> DEFINE r == [ui EXCEPT !.page = n]
  <1>1. Kept(r)
    BY DEF RequestsUi, RequestsMounted, Kept
  <1>2. Leave(r) /\ Astray(r)
    OBVIOUS
  <1> HIDE DEF r
  <1>3. StaysOnWalk(r)
    BY <1>2 DEF Astray, StaysOnWalk
  <1> QED
    BY <1>1, <1>2, <1>3 DEF UserActs

\* What a handler that is not for the next page leaves.
LEMMA Chooses ==
    ASSUME NEW r, Kept(r), Leave(r), Astray(r)
    PROVE  UserActs
  <1>1. StaysOnWalk(r)
    BY DEF Astray, StaysOnWalk
  <1> QED
    BY <1>1 DEF UserActs

LEMMA ActsOfUser ==
    ASSUME RequestsUi, RequestsNext
    PROVE  \/ UserActs
           \/ LoadRequests
           \/ \E c \in calls : CountRows(c) \/ SelectRows(c) \/ ShowRows(c) \/ KeepRows(c)
  <1>u. /\ DOMAIN ui = DOMAIN RequestsMounted
        /\ ui.page \in Nat \ {0} /\ ui.limit \in Limits /\ ui.pages \in Nat
    BY DEF RequestsUi
  <1>1. ASSUME NEW s \in Searches, TypeSearch(s) PROVE UserActs
    <2> DEFINE r == [ui EXCEPT !.search = s, !.timer = TRUE]
    <2>1. Leave(r) /\ Astray(r)
      BY <1>1 DEF TypeSearch, Do
    <2>2. Kept(r)
      BY <1>u DEF Kept, RequestsMounted
    <2> HIDE DEF r
    <2> QED
      BY <2>1, <2>2, Chooses
  <1>2. ASSUME NEW s \in Statuses, PickStatus(s) PROVE UserActs
    <2> DEFINE r == [ui EXCEPT !.status = s, !.page = 1]
    <2>1. Leave(r) /\ Astray(r)
      BY <1>2 DEF PickStatus, Do
    <2>2. Kept(r)
      BY <1>u DEF Kept, RequestsMounted
    <2> HIDE DEF r
    <2> QED
      BY <2>1, <2>2, Chooses
  <1>3. ASSUME NEW p \in Providers, PickProvider(p) PROVE UserActs
    <2> DEFINE r == [ui EXCEPT !.provider = p, !.page = 1]
    <2>1. Leave(r) /\ Astray(r)
      BY <1>3 DEF PickProvider, Do
    <2>2. Kept(r)
      BY <1>u DEF Kept, RequestsMounted
    <2> HIDE DEF r
    <2> QED
      BY <2>1, <2>2, Chooses
  <1>4. ASSUME NEW n \in Limits, HandlePageSizeChange(n) PROVE UserActs
    <2> DEFINE r == [ui EXCEPT !.limit = n, !.page = 1]
    <2>1. Leave(r) /\ Astray(r)
      BY <1>4 DEF HandlePageSizeChange, Do
    <2>2. Kept(r)
      BY <1>u DEF Kept, RequestsMounted
    <2> HIDE DEF r
    <2> QED
      BY <2>1, <2>2, Chooses
  <1>5. CASE TimerFires
    <2> DEFINE r == [ui EXCEPT !.timer = FALSE, !.debounced = ui.search, !.page = 1]
    <2>1. Leave(r) /\ Astray(r)
      BY <1>5 DEF TimerFires
    <2>2. Kept(r)
      BY <1>u DEF Kept, RequestsMounted
    <2> HIDE DEF r
    <2> QED
      BY <2>1, <2>2, Chooses
  <1>6. ASSUME NEW p \in GetPageNumbers, JumpTo(p) PROVE UserActs
    <2>1. p \in Nat \ {0}
      BY <1>u DEF GetPageNumbers
    <2> QED
      BY <1>6, <2>1, TurnsPage DEF JumpTo, Do
  <1>7. CASE First
    BY <1>7, TurnsPage DEF First, Do
  <1>8. CASE Previous
    <2>1. ui.page - 1 \in Nat \ {0}
      BY <1>8, <1>u DEF Previous
    <2>2. [ui EXCEPT !.page = @ - 1] = [ui EXCEPT !.page = ui.page - 1]
      OBVIOUS
    <2> QED
      BY <1>8, <2>1, <2>2, TurnsPage DEF Previous, Do
  <1>9. CASE Last1
    <2>1. ui.pages \in Nat \ {0}
      BY <1>9, <1>u DEF Last1
    <2> QED
      BY <1>9, <2>1, TurnsPage DEF Last1, Do
  <1>10. CASE Next1
    <2> DEFINE r == [ui EXCEPT !.page = @ + 1]
    <2>1. Leave(r) /\ walk' = IF ui.loading \/ ui.due THEN NoWalk ELSE walk
      BY <1>10 DEF Next1
    <2>2. Kept(r)
      BY <1>u DEF Kept, RequestsMounted
    <2>3. /\ r.page = ui.page + 1 /\ r.limit = ui.limit /\ r.debounced = ui.debounced
          /\ r.status = ui.status /\ r.provider = ui.provider
      BY <1>u DEF RequestsMounted
    <2> HIDE DEF r
    <2>4. StaysOnWalk(r)
      BY <2>1, <2>3 DEF StaysOnWalk
    <2> QED
      BY <2>1, <2>2, <2>4 DEF UserActs
  <1> QED
    BY <1>1, <1>2, <1>3, <1>4, <1>5, <1>6, <1>7, <1>8, <1>9, <1>10 DEF RequestsNext

\* What an act of the user leaves of the calls.
LEMMA CallsAfterAct ==
    ASSUME Formed, NEW r, calls' = {[c EXCEPT !.fresh = @ /\ Params(r) = Params(ui)] : c \in calls}
    PROVE  /\ \A d \in calls' : \E c \in calls :
                Like(d, c) /\ (d.fresh => c.fresh /\ Params(r) = Params(ui))
           /\ Params(r) = Params(ui) =>
                /\ \A c \in calls : c.fresh => \E d \in calls' : d.fresh
                /\ (\A c, d \in calls : c.fresh /\ d.fresh => c = d)
                     => \A c, d \in calls' : c.fresh /\ d.fresh => c = d
  <1> DEFINE same == Params(r) = Params(ui)
             Mark(c) == [c EXCEPT !.fresh = c.fresh /\ same]
  <1>1. calls' = {Mark(c) : c \in calls}
    OBVIOUS
  <1>2. ASSUME NEW c \in calls
        PROVE  /\ Like(Mark(c), c)
               /\ Mark(c).fresh => c.fresh /\ same
               /\ c.fresh /\ same => Mark(c).fresh
    <2> DEFINE g == c.fresh /\ same
               e == [c EXCEPT !.fresh = g]
    <2>1. Form(c) /\ g \in BOOLEAN /\ e = [c EXCEPT !.fresh = g]
      BY DEF Formed, CallsFormed, Form
    <2> HIDE DEF g, e
    <2>2. Like(e, c) /\ (e.fresh => g) /\ (g => e.fresh)
      BY <2>1, Refreshed
    <2> QED
      BY <2>2 DEF e, g
  <1>3. same \in BOOLEAN
    OBVIOUS
  <1> HIDE DEF same, Mark
  <1>4. \A d \in calls' : \E c \in calls : d = Mark(c) /\ Like(d, c) /\ (d.fresh => c.fresh /\ same)
    BY <1>1, <1>2
  <1>5. same => \A c \in calls : c.fresh => \E d \in calls' : d.fresh
    BY <1>1, <1>2
  <1>6. ASSUME \A c, d \in calls : c.fresh /\ d.fresh => c = d
        PROVE  \A c, d \in calls' : c.fresh /\ d.fresh => c = d
    BY <1>4, <1>6
  <1> QED
    BY <1>4, <1>5, <1>6 DEF same

LEMMA UserActsStep ==
    ASSUME Formed, RequestsInv, at = "requests", UserActs
    PROVE  Formed' /\ RequestsInv' /\ at' = at
  <1>a. RequestsUi /\ Asked /\ Walking /\ Brought
    BY DEF RequestsInv
  <1>1. PICK r : Kept(r) /\ Leave(r) /\ StaysOnWalk(r)
    BY DEF UserActs
  <1>2. /\ calls' = {[c EXCEPT !.fresh = @ /\ Params(r) = Params(ui)] : c \in calls}
        /\ UNCHANGED <<at, doubt, log, old>>
    BY <1>1 DEF Leave, requestLog
  <1>3. /\ DOMAIN ui' = DOMAIN ui /\ ui'.due = (ui.due \/ Params(r) # Params(ui))
        /\ ui'.for = ui.for /\ ui'.loading = ui.loading /\ ui'.pages = ui.pages
        /\ ui'.page = r.page /\ ui'.limit = r.limit /\ ui'.debounced = r.debounced
        /\ ui'.status = r.status /\ ui'.provider = r.provider
    <2>1. ui' = [r EXCEPT !.due = ui.due \/ Params(r) # Params(ui)] /\ DOMAIN r = DOMAIN RequestsMounted
      BY <1>1, <1>a DEF Leave, Kept, Dependencies, RequestsUi
    <2> QED
      BY <1>1, <1>a, <2>1 DEF Kept, RequestsMounted
  <1>4. Params(ui') = Params(r)
    BY <1>3 DEF Params
  <1>5. /\ \A d \in calls' : \E c \in calls :
             Like(d, c) /\ (d.fresh => c.fresh /\ Params(r) = Params(ui))
        /\ Params(r) = Params(ui) =>
             /\ \A c \in calls : c.fresh => \E d \in calls' : d.fresh
             /\ \A c, d \in calls' : c.fresh /\ d.fresh => c = d
    BY <1>2, <1>a, CallsAfterAct, SMTT(30) DEF Asked
  <1>6. Formed'
    <2>1. CallsFormed'
      BY <1>2, <1>5 DEF Formed, CallsFormed, Like
    <2>2. ScreenFormed'
      BY <1>2, <1>3 DEF Formed, ScreenFormed
    <2> QED
      BY <1>2, <2>1, <2>2 DEF Formed, LogFormed
  <1>7. RequestsUi'
    BY <1>1, <1>3, <1>a DEF RequestsUi, Kept
  <1>8. \A d \in calls' : Counts(d)'
    <2>1. ASSUME NEW d \in calls' PROVE Counts(d)'
      <3>1. PICK c \in calls : Like(d, c)
        BY <1>5
      <3>2. Counts(c)
        BY <1>a DEF Brought
      <3> QED
        BY <1>2, <3>1, <3>2 DEF Counts, Like, Matching
    <2> QED
      BY <2>1
  <1>9. CASE Params(r) = Params(ui)
    <2>w. walk' = walk \/ walk' = NoWalk
      BY <1>1 DEF StaysOnWalk
    <2>1. Params(ui') = Params(ui) /\ ui'.due = ui.due /\ ui'.page = ui.page
      <3>1. Params(r).page = Params(ui).page
        BY <1>9
      <3> QED
        BY <1>3, <1>4, <1>9, <1>a DEF Params, Formed, ScreenFormed
    <2>2. Asked'
      <3>1. \A d \in calls' : d.fresh => d.arg = Params(ui) /\ ~ui.due
        BY <1>5, <1>a DEF Asked, Like
      <3> QED
        BY <1>2, <1>3, <1>5, <1>9, <1>a, <2>1, <3>1 DEF Asked
    <2>3. Walking'
      <3>1. walk.on => ~doubt /\ (\A d \in calls' : d.fresh => ui.loading) /\ OnItsPage /\ HasSeen
        BY <1>5, <1>a DEF Walking
      <3>2. OnItsPage => OnItsPage'
        BY <1>3, <2>1 DEF OnItsPage
      <3>3. CASE walk' = walk
        <4>1. HasSeen => HasSeen'
          BY <1>2, <1>3, <3>3 DEF HasSeen, Covers, Newer, Matching
        <4> QED
          BY <1>2, <1>3, <1>a, <3>1, <3>2, <3>3, <4>1 DEF Walking
      <3>4. CASE walk' = NoWalk
        BY <3>4 DEF Walking, NoWalk
      <3> QED
        BY <2>w, <3>3, <3>4
    <2>4. \A d \in calls' : d.fresh => BringsRows(d)'
      <3>1. ASSUME NEW d \in calls', d.fresh PROVE BringsRows(d)'
        <4>1. PICK c \in calls : Like(d, c) /\ c.fresh
          BY <1>5, <3>1
        <4>2. BringsRows(c)
          BY <1>a, <4>1 DEF Brought
        <4>3. d.arg = c.arg /\ d.res = c.res
          BY <4>1 DEF Like
        <4>4. walk'.on => walk' = walk
          BY <2>w DEF NoWalk
        <4> QED
          BY <1>2, <4>2, <4>3, <4>4 DEF BringsRows, Brings, Covers, Newer, Matching
      <3> QED
        BY <3>1
    <2> QED
      BY <1>2, <1>6, <1>7, <1>8, <2>2, <2>3, <2>4 DEF RequestsInv, Brought
  \* Something else is asked for: what is under way is overtaken.
  <1>10. CASE Params(r) # Params(ui)
    <2>1. ui'.due = TRUE /\ \A d \in calls' : ~d.fresh
      BY <1>3, <1>5, <1>10
    <2>2. Asked'
      BY <2>1 DEF Asked
    <2>3. Walking'
      <3>1. CASE walk' = NoWalk
        BY <3>1 DEF Walking, NoWalk
      <3>2. CASE /\ walk' = walk /\ ~ui.loading /\ ~ui.due
                 /\ r.page = ui.page + 1 /\ r.limit = ui.limit /\ r.debounced = ui.debounced
                 /\ r.status = ui.status /\ r.provider = ui.provider
        <4>1. SUFFICES ASSUME walk.on
                       PROVE  ~doubt' /\ OnItsPage' /\ HasSeen'
          BY <1>a, <2>1, <3>2 DEF Walking
        <4>2. ~doubt /\ (\A c \in calls : ~c.fresh) /\ OnItsPage /\ HasSeen
          BY <1>a, <3>2, <4>1 DEF Walking
        <4>3. ui.for = Params(ui)
          BY <1>a, <3>2, <4>2 DEF Asked
        <4>4. ui.for.page = ui.page
          BY <4>3 DEF Params
        <4>5. OnItsPage'
          <5>1. ui'.for = Params(ui)
            BY <1>3, <4>3
          <5>2. Params(ui) = [Params(ui') EXCEPT !.page = ui.page]
            BY <1>3, <3>2 DEF Params
          <5>3. ui.page \in Nat \ {0} /\ ui'.page = ui.page + 1
            BY <1>3, <1>a, <3>2 DEF RequestsUi
          <5> QED
            BY <1>3, <4>4, <5>1, <5>2, <5>3 DEF OnItsPage
        <4>6. HasSeen'
          BY <1>2, <1>3, <3>2, <4>2 DEF HasSeen, Covers, Newer, Matching
        <4> QED
          BY <1>2, <4>2, <4>5, <4>6
      <3> QED
        BY <1>1, <1>10, <3>1, <3>2 DEF StaysOnWalk
    <2> QED
      BY <1>2, <1>6, <1>7, <1>8, <2>1, <2>2, <2>3 DEF RequestsInv, Brought
  <1> QED
    BY <1>9, <1>10

-----------------------------------------------------------------------------
(* The request log: what the backend does. *)

\* A row comes: the rows of a walk are pushed back, none is lost.
LEMMA InsertionKeepsWalk ==
    ASSUME Formed, RequestsInv, at = "requests", Insertion
    PROVE  Formed' /\ RequestsInv' /\ at' = at
  <1>a. RequestsUi /\ Asked /\ Walking /\ Brought
    BY DEF RequestsInv
  <1>1. Formed' /\ UNCHANGED <<at, ui, calls, doubt, walk>>
    BY InsertionForms
  <1>2. ASSUME NEW f, f.page \in Nat, f.limit \in Nat, NEW S, NEW T,
               S \subseteq Matching(f), Covers(f, f.page, S, T)
        PROVE  Covers(f, f.page, S, T)'
    <2> DEFINE e == f.page * f.limit
    <2>1. e \in Nat
      BY <1>2
    <2>2. \A i \in S : i \in T \/ Newer(f, i) >= e
      BY <1>2 DEF Covers
    <2> HIDE DEF e
    <2>3. \A i \in S : i \in T \/ Newer(f, i)' >= e
      <3>1. ASSUME NEW i \in S, Newer(f, i) >= e PROVE Newer(f, i)' >= e
        <4> DEFINE m == Newer(f, i)
                   n == Newer(f, i)'
        <4>1. m \in Nat /\ n \in Nat /\ m <= n
          BY <1>2, RowsComeAfter
        <4>2. m >= e
          BY <3>1
        <4> HIDE DEF m, n
        <4>3. n >= e
          BY <2>1, <4>1, <4>2
        <4> QED
          BY <4>3 DEF n
      <3> QED
        BY <2>2, <3>1
    <2> QED
      BY <2>3 DEF Covers, e
  <1>l. Limits \subseteq Nat
    BY LimitAssumption
  <1>3. RequestsUi' /\ Asked'
    BY <1>1, <1>a DEF RequestsUi, Asked
  <1>4. Walking'
    <2>1. SUFFICES ASSUME walk.on PROVE OnItsPage' /\ HasSeen'
      BY <1>1, <1>a DEF Walking
    <2>2. OnItsPage /\ HasSeen
      BY <1>a, <2>1 DEF Walking
    <2>3. OnItsPage' /\ ui.for.page \in Nat /\ ui.for.limit \in Nat
      BY <1>1, <1>l, <1>a, <2>2 DEF OnItsPage, RequestsUi, Params
    <2>4. walk.base \subseteq Matching(ui.for)' /\ Covers(ui.for, ui.for.page, walk.base, walk.seen)'
      <3>1. walk.base \subseteq Matching(ui.for)
            /\ Covers(ui.for, ui.for.page, walk.base, walk.seen)
        BY <2>2 DEF HasSeen
      <3>2. PICK f : f = ui.for
        OBVIOUS
      <3>3. Covers(f, f.page, walk.base, walk.seen)
        BY <3>1, <3>2
      <3>4. PICK S, T : S = walk.base /\ T = walk.seen
        OBVIOUS
      <3>5. S \subseteq Matching(f) /\ Covers(f, f.page, S, T)
        BY <3>1, <3>2, <3>4
      <3>6. S \subseteq Matching(f)' /\ Covers(f, f.page, S, T)'
        BY <1>2, <2>3, <3>2, <3>5, RowsComeAfter
      <3>7. walk'.base = S /\ walk'.seen = T /\ ui'.for = f
        BY <1>1, <3>2, <3>4
      <3>8. Matching(ui.for)' = Matching(f)'
        BY <3>7 DEF Matching
      <3>9. \A i : Newer(ui.for, i)' = Newer(f, i)'
        BY <3>8 DEF Newer
      <3>10. \A i \in S : i \in T \/ Newer(f, i)' >= f.page * f.limit
        BY <3>6 DEF Covers
      <3>11. \A i \in walk'.base : i \in walk'.seen \/ Newer(ui.for, i)' >= ui'.for.page * ui'.for.limit
        BY <3>7, <3>9, <3>10
      <3>12. Covers(ui.for, ui.for.page, walk.base, walk.seen)'
        BY <3>11 DEF Covers
      <3>13. walk.base \subseteq Matching(ui.for)'
        BY <3>4, <3>6, <3>8
      <3> QED
        BY <3>12, <3>13
    <2>5. HasSeen'
      BY <1>1, <2>2, <2>4 DEF HasSeen
    <2> QED
      BY <2>3, <2>5
  <1>5. Brought'
    <2>1. ASSUME NEW c \in calls PROVE Counts(c)' /\ (c.fresh => BringsRows(c)')
      <3>1. Counts(c) /\ (c.fresh => BringsRows(c))
        BY <1>a DEF Brought
      <3>2. Counts(c)'
        <4>1. Matching(c.arg) \subseteq Matching(c.arg)'
          BY RowsComeAfter
        <4> QED
          BY <3>1, <4>1 DEF Counts
      <3>3. ASSUME c.fresh, "select" \in DOMAIN c.res
            PROVE  /\ c.arg.page = 1 => Brings(c, c.res["count"], {})'
                   /\ walk'.on => Brings(c, walk.base, walk.seen)'
        <4>1. c.arg = Params(ui) /\ c.arg.page \in Nat /\ c.arg.limit \in Nat
          <5>1. c.arg = Params(ui)
            BY <1>a, <3>3 DEF Asked
          <5>2. Params(ui).page = ui.page /\ Params(ui).limit = ui.limit
            BY DEF Params
          <5>3. ui.page \in Nat /\ ui.limit \in Nat
            BY <1>a, <1>l DEF RequestsUi
          <5> QED
            BY <5>1, <5>2, <5>3
        <4>2. /\ c.arg.page = 1 => Brings(c, c.res["count"], {})
              /\ walk.on => Brings(c, walk.base, walk.seen)
          BY <3>1, <3>3 DEF BringsRows
        <4>3. ASSUME NEW S, NEW T, S \subseteq Matching(c.arg), Brings(c, S, T)
              PROVE  Brings(c, S, T)'
          <5>1. Covers(c.arg, c.arg.page, S, T \cup c.res["select"].rows)
            BY <4>3 DEF Brings
          <5>2. Covers(c.arg, c.arg.page, S, T \cup c.res["select"].rows)'
            BY <1>2, <4>1, <4>3, <5>1
          <5> QED
            BY <4>3, <5>2 DEF Brings
        <4>4. c.res["count"] \subseteq Matching(c.arg)
          BY <3>1, <3>3 DEF Counts
        <4>5. walk.on => walk.base \subseteq Matching(c.arg)
          <5>1. SUFFICES ASSUME walk.on PROVE walk.base \subseteq Matching(c.arg)
            OBVIOUS
          <5>2. OnItsPage /\ HasSeen
            BY <1>a, <5>1 DEF Walking
          <5>3. Matching(ui.for) = Matching(c.arg)
            <6>1. /\ ui.for.search = c.arg.search /\ ui.for.provider = c.arg.provider
                  /\ ui.for.status = c.arg.status
              BY <4>1, <5>2 DEF OnItsPage, Params
            <6> QED
              BY <6>1, SameRows
          <5> QED
            BY <5>2, <5>3 DEF HasSeen
        <4>6. PICK B, S : B = walk.base /\ S = walk.seen
          OBVIOUS
        <4>7. walk.on => Brings(c, B, S)'
          BY <4>2, <4>3, <4>5, <4>6
        <4>8. Brings(c, walk.base, walk.seen)' = Brings(c, B, S)'
          BY <1>1, <4>6
        <4> QED
          BY <1>1, <4>2, <4>3, <4>4, <4>7, <4>8
      <3> QED
        BY <1>1, <3>2, <3>3 DEF BringsRows
    <2> QED
      BY <1>1, <2>1 DEF Brought
  <1> QED
    BY <1>1, <1>3, <1>4, <1>5 DEF RequestsInv

\* The rows are counted.
LEMMA CountKeepsWalk ==
    ASSUME Formed, RequestsInv, at = "requests", NEW c \in calls, CountRows(c)
    PROVE  Formed' /\ RequestsInv' /\ at' = at
  <1>a. RequestsUi /\ Asked /\ Walking /\ Brought
    BY DEF RequestsInv
  <1> DEFINE n == Matching(c.arg)
             d == Did(c, "count", n)
  <1>1. /\ "count" \in c.todo /\ calls' = Served(c, "count", n)
        /\ UNCHANGED <<at, ui, doubt, log, old, walk>>
    BY DEF CountRows, requestLog
  <1>2. /\ d.arg = c.arg /\ d.fresh = c.fresh
        /\ DOMAIN d.res = DOMAIN c.res \cup {"count"} /\ d.res["count"] = n
        /\ "count" \notin DOMAIN c.res
    <2>1. Form(c)
      BY DEF Formed, CallsFormed
    <2> QED
      BY <1>1, <2>1, PartDone DEF Form
  <1>3. Formed'
    BY <1>1, ServedForms DEF Formed, ScreenFormed, LogFormed
  <1>4. calls' = (calls \ {c}) \cup {d}
    BY <1>1 DEF Served
  <1> HIDE DEF d
  <1>5. "select" \notin DOMAIN d.res
    BY <1>2, <1>a DEF Brought, Counts
  <1>6. Counts(d) /\ BringsRows(d)
    <2>1. d.arg.limit \in Limits
      BY <1>2, <1>a DEF Brought, Counts
    <2> QED
      BY <1>2, <1>5, <2>1 DEF Counts, BringsRows
  <1>7. \A b \in calls' : Counts(b) /\ (b.fresh => BringsRows(b))
    BY <1>4, <1>6, <1>a DEF Brought
  <1>8. RequestsUi' /\ Brought'
    <2>1. \A b \in calls' : Counts(b)' /\ (b.fresh => BringsRows(b)')
      BY <1>1, <1>7 DEF Counts, BringsRows, Brings, Covers, Newer, Matching
    <2> QED
      BY <1>1, <1>a, <2>1 DEF RequestsUi, Brought
  <1>9. Asked'
    BY <1>1, <1>2, <1>4, <1>a DEF Asked
  <1>10. Walking'
    BY <1>1, <1>2, <1>4, <1>a DEF Walking, OnItsPage, HasSeen, Covers, Newer, Matching
  <1> QED
    BY <1>1, <1>3, <1>8, <1>9, <1>10 DEF RequestsInv

\* A page of rows is selected: with what was seen before it covers the rows up to its end.
LEMMA SelectKeepsWalk ==
    ASSUME Formed, RequestsInv, at = "requests", NEW c \in calls, SelectRows(c)
    PROVE  Formed' /\ RequestsInv' /\ at' = at
  <1>a. RequestsUi /\ Asked /\ Walking /\ Brought
    BY DEF RequestsInv
  <1> DEFINE f == c.arg
             n == c.res["count"]
             r == [rows |-> RowsOf(f), slipped |-> Matching(f) # n]
             d == Did(c, "select", r)
  <1>1. /\ "select" \in c.todo /\ c.todo = {"select"} /\ calls' = Served(c, "select", r)
        /\ UNCHANGED <<at, ui, doubt, log, old, walk>>
    BY DEF SelectRows, requestLog
  <1>f. Form(c) /\ c.kind = "requests"
    BY DEF Formed, CallsFormed, KindsOn
  <1>2. "count" \in DOMAIN c.res
    BY <1>1, <1>f DEF Form, PartsOf
  <1>3. /\ d.arg = f /\ d.fresh = c.fresh /\ "count" \in DOMAIN d.res
        /\ d.res["select"] = r /\ d.res["count"] = n
    BY <1>1, <1>2, <1>f, PartDone
  <1>4. Formed'
    BY <1>1, ServedForms DEF Formed, ScreenFormed, LogFormed
  <1>5. calls' = (calls \ {c}) \cup {d}
    BY <1>1 DEF Served
  <1>6. f.limit \in Limits /\ n \subseteq Matching(f)
    BY <1>2, <1>a DEF Brought, Counts
  <1>7. ASSUME c.fresh, NEW base, NEW seen, base \subseteq Matching(f), Covers(f, f.page - 1, base, seen)
        PROVE  Brings(d, base, seen)
    <2>1. f = Params(ui)
      BY <1>7, <1>a DEF Asked
    <2>2. f.page \in Nat \ {0} /\ f.limit \in Nat \ {0}
      <3>1. f.page = ui.page
        BY <2>1 DEF Params
      <3> QED
        BY <1>6, <1>a, <3>1, LimitAssumption DEF RequestsUi
    <2> HIDE DEF f
    <2>3. /\ Covers(f, f.page, base, seen \cup RowsOf(f))
          /\ f.page >= TotalPages(Cardinality(Matching(f)), f.limit) => base \subseteq seen \cup RowsOf(f)
      BY <1>7, <2>2, PageCovers DEF Formed
    <2>4. r.rows = RowsOf(f) /\ (~r.slipped => Matching(f) = n)
      BY DEF r
    <2> HIDE DEF r, n, d
    <2> QED
      BY <1>3, <2>3, <2>4 DEF Brings
  <1> HIDE DEF d, r
  <1>8. ASSUME c.fresh PROVE BringsRows(d)
    <2>1. ASSUME f.page = 1 PROVE Brings(d, n, {})
      <3>1. ASSUME NEW i \in n PROVE Newer(f, i) >= (f.page - 1) * f.limit
        <4>1. Newer(f, i) \in Nat
          BY <1>6, NewerIsLess DEF Formed
        <4>2. (f.page - 1) * f.limit = 0
          <5>1. f.limit \in Nat
            BY <1>6, LimitAssumption
          <5> HIDE DEF f
          <5>2. f.page - 1 = 0
            BY <2>1
          <5> QED
            BY <5>1, <5>2
        <4> QED
          BY <4>1, <4>2
      <3>2. Covers(f, f.page - 1, n, {})
        BY <3>1 DEF Covers
      <3> QED
        BY <1>6, <1>7, <1>8, <3>2
    <2>2. ASSUME walk.on PROVE Brings(d, walk.base, walk.seen)
      <3>1. OnItsPage /\ HasSeen
        BY <1>a, <2>2 DEF Walking
      <3> DEFINE g == ui.for
      <3>2. f = Params(ui) /\ f.page = ui.page /\ f.limit = ui.limit
        BY <1>8, <1>a DEF Asked, Params
      <3>3. /\ g.search = f.search /\ g.provider = f.provider /\ g.status = f.status
            /\ g.limit = f.limit /\ g.page \in Nat \ {0} /\ f.page \in {g.page, g.page + 1}
        BY <3>1, <3>2 DEF OnItsPage, Params
      <3> HIDE DEF f, g
      <3>4. Matching(g) = Matching(f) /\ \A i : Newer(g, i) = Newer(f, i)
        BY <3>3, SameRows
      <3>5. walk.base \subseteq Matching(g) /\ Covers(g, g.page, walk.base, walk.seen)
        BY <3>1 DEF HasSeen, g
      <3>6. ASSUME NEW i \in walk.base, Newer(f, i) >= g.page * g.limit
            PROVE  Newer(f, i) >= (f.page - 1) * f.limit
        <4>1. Newer(f, i) \in Nat
          BY <3>4, <3>5, NewerIsLess DEF Formed
        <4>2. f.limit \in Nat
          BY <1>6, LimitAssumption DEF f
        <4>3. CASE f.page = g.page + 1
          <5>1. (f.page - 1) * f.limit = g.page * g.limit
            BY <3>3, <4>3
          <5> QED
            BY <3>6, <5>1
        <4>4. CASE f.page = g.page
          <5>1. (f.page - 1) * f.limit = g.page * g.limit - f.limit /\ g.page * g.limit \in Nat
            BY <3>3, <4>2, <4>4
          <5> QED
            BY <3>6, <4>1, <4>2, <5>1
        <4> QED
          BY <3>3, <4>3, <4>4
      <3>7. Covers(f, f.page - 1, walk.base, walk.seen)
        BY <3>4, <3>5, <3>6 DEF Covers
      <3> QED
        BY <1>7, <1>8, <3>4, <3>5, <3>7 DEF f
    <2> QED
      BY <1>3, <2>1, <2>2 DEF BringsRows
  <1>9. Counts(d)
    BY <1>3, <1>6 DEF Counts
  <1>10. \A b \in calls' : Counts(b) /\ (b.fresh => BringsRows(b))
    BY <1>3, <1>5, <1>8, <1>9, <1>a DEF Brought
  <1>11. RequestsUi' /\ Brought'
    <2>1. \A b \in calls' : Counts(b)' /\ (b.fresh => BringsRows(b)')
      BY <1>1, <1>10 DEF Counts, BringsRows, Brings, Covers, Newer, Matching
    <2> QED
      BY <1>1, <1>a, <2>1 DEF RequestsUi, Brought
  <1>12. Asked'
    BY <1>1, <1>3, <1>5, <1>a DEF Asked
  <1>13. Walking'
    BY <1>1, <1>3, <1>5, <1>a DEF Walking, OnItsPage, HasSeen, Covers, Newer, Matching
  <1> QED
    BY <1>1, <1>4, <1>11, <1>12, <1>13 DEF RequestsInv

-----------------------------------------------------------------------------
(* The request log: what the page does. *)

\* The page asks: nothing else that is under way is about what is on screen.
LEMMA LoadKeepsWalk ==
    ASSUME Formed, RequestsInv, at = "requests", LoadRequests
    PROVE  Formed' /\ RequestsInv' /\ at' = at
  <1>a. RequestsUi /\ Asked /\ Walking /\ Brought
    BY DEF RequestsInv
  <1> DEFINE d == Call("requests", Params(ui), PartsOf["requests"])
  <1>1. /\ ui.due /\ ui' = [ui EXCEPT !.due = FALSE, !.loading = TRUE]
        /\ Ask(d) /\ UNCHANGED <<at, doubt, log, old, walk>>
    BY DEF LoadRequests, ListRequests, requestLog, PartsOf
  <1>2. d.arg = Params(ui) /\ d.fresh = TRUE /\ DOMAIN d.res = {}
    BY DEF Call
  <1>3. CallsFormed'
    <2>1. "requests" \in KindsOn[at]
      BY DEF KindsOn
    <2> QED
      BY <1>1, <2>1, AskForms
  <1>4. calls' = calls \cup {d}
    BY <1>1 DEF Ask
  <1> HIDE DEF d
  <1>5. /\ DOMAIN ui' = DOMAIN ui /\ ui'.due = FALSE /\ ui'.loading = TRUE /\ ui'.for = ui.for
        /\ ui'.page = ui.page /\ ui'.limit = ui.limit /\ ui'.pages = ui.pages
    BY <1>1, <1>a DEF RequestsUi, RequestsMounted
  <1>6. Params(ui') = Params(ui)
    BY <1>1, <1>a DEF RequestsUi, RequestsMounted, Params
  <1>7. Formed'
    BY <1>1, <1>3, <1>5 DEF Formed, ScreenFormed, LogFormed
  <1>8. RequestsUi'
    BY <1>5, <1>a DEF RequestsUi
  <1>9. \A c \in calls : ~c.fresh
    BY <1>1, <1>a DEF Asked
  <1>10. Asked'
    <2>1. \A c \in calls' : c.fresh => c = d
      BY <1>4, <1>9
    <2> QED
      BY <1>2, <1>4, <1>5, <1>6, <2>1 DEF Asked
  <1>11. Walking'
    <2>1. OnItsPage => OnItsPage'
      BY <1>5, <1>6 DEF OnItsPage
    <2>2. HasSeen => HasSeen'
      BY <1>1, <1>5 DEF HasSeen, Covers, Newer, Matching
    <2> QED
      BY <1>1, <1>5, <1>a, <2>1, <2>2 DEF Walking
  <1>12. Counts(d) /\ BringsRows(d)
    <2>1. d.arg.limit \in Limits
      BY <1>2, <1>a DEF RequestsUi, Params
    <2> QED
      BY <1>2, <2>1 DEF Counts, BringsRows
  <1>13. \A b \in calls' : Counts(b) /\ (b.fresh => BringsRows(b))
    BY <1>4, <1>12, <1>a DEF Brought
  <1>14. Brought'
    <2>1. \A b \in calls' : Counts(b)' /\ (b.fresh => BringsRows(b)')
      BY <1>1, <1>13 DEF Counts, BringsRows, Brings, Covers, Newer, Matching
    <2> QED
      BY <2>1 DEF Brought
  <1> QED
    BY <1>1, <1>7, <1>8, <1>10, <1>11, <1>14 DEF RequestsInv

\* An answer is shown: a walk goes on with it, begins with it, or is over.
LEMMA ShowKeepsWalk ==
    ASSUME Formed, RequestsInv, at = "requests", NEW c \in calls, ShowRows(c)
    PROVE  Formed' /\ RequestsInv' /\ at' = at
  <1>a. RequestsUi /\ Asked /\ Walking /\ Brought
    BY DEF RequestsInv
  <1> DEFINE total == Cardinality(c.res["count"])
             sel == c.res["select"]
             pages == TotalPages(total, c.arg.limit)
  <1>1. /\ ui' = [ui EXCEPT !.rows = sel.rows, !.total = total, !.pages = pages,
                            !.loading = FALSE, !.for = c.arg]
        /\ calls' = calls \ {c} /\ doubt' = ~c.fresh /\ c.todo = {} /\ walk' = Walked(c)
        /\ UNCHANGED <<at, log, old>>
    BY DEF ShowRows, Resume, Answered, requestLog
  <1>f. Form(c) /\ c.kind = "requests" /\ c.fresh \in BOOLEAN
    BY DEF Formed, CallsFormed, KindsOn, Form
  <1>2. DOMAIN c.res = {"count", "select"}
    BY <1>1, <1>f DEF Form, PartsOf
  <1>3. c.arg.limit \in Limits /\ c.res["count"] \subseteq Matching(c.arg)
    BY <1>2, <1>a DEF Brought, Counts
  <1>4. pages \in Nat
    <2>1. IsFiniteSet(c.res["count"])
      BY <1>3, MatchingIsFinite, FS_Subset DEF Formed
    <2>2. total \in Nat
      BY <2>1, FS_CardinalityType
    <2>3. c.arg.limit \in Nat \ {0}
      BY <1>3, LimitAssumption
    <2> HIDE DEF total
    <2> QED
      BY <2>2, <2>3, PagesHoldAll
  <1> HIDE DEF total, pages
  <1>5. /\ DOMAIN ui' = DOMAIN ui /\ ui'.due = ui.due /\ ui'.loading = FALSE /\ ui'.for = c.arg
        /\ ui'.page = ui.page /\ ui'.limit = ui.limit /\ ui'.pages = pages
    BY <1>1, <1>a DEF RequestsUi, RequestsMounted
  <1>6. Params(ui') = Params(ui)
    BY <1>1, <1>a DEF RequestsUi, RequestsMounted, Params
  <1>7. Formed'
    BY <1>1, <1>5, <1>f, FewerForm DEF Formed, ScreenFormed, LogFormed
  <1>8. RequestsUi'
    BY <1>4, <1>5, <1>a DEF RequestsUi
  <1>9. c.fresh => c.arg = Params(ui) /\ \A b \in calls' : ~b.fresh
    BY <1>1, <1>a DEF Asked
  <1>10. Asked'
    <2>1. doubt' \/ ui'.for = Params(ui')
      BY <1>1, <1>5, <1>6, <1>9, <1>f
    <2> QED
      BY <1>1, <1>5, <1>6, <1>a, <2>1 DEF Asked
  <1>11. ~c.fresh => walk' = NoWalk
    BY <1>1 DEF Walked
  <1>12. \A b \in calls' : Counts(b)' /\ (b.fresh => BringsRows(b)')
    <2>1. ASSUME NEW b \in calls' PROVE Counts(b)' /\ (b.fresh => BringsRows(b)')
      <3>1. b \in calls /\ Counts(b) /\ (b.fresh => BringsRows(b))
        BY <1>1, <1>a DEF Brought
      <3>2. b.fresh => ~walk'.on
        BY <1>9, <1>11 DEF NoWalk
      <3> QED
        BY <1>1, <3>1, <3>2 DEF Counts, BringsRows, Brings, Covers, Newer, Matching
    <2> QED
      BY <2>1
  <1>13. ASSUME c.fresh, walk'.on, NEW base, NEW seen, walk'.base = base, walk'.seen = seen \cup sel.rows,
                walk'.slipped = sel.slipped, base \subseteq Matching(c.arg), Brings(c, base, seen)
         PROVE  OnItsPage' /\ HasSeen'
    <2>1. OnItsPage'
      <3>1. ui'.for = Params(ui') /\ ui'.page \in Nat \ {0}
        BY <1>5, <1>6, <1>8, <1>9, <1>13 DEF RequestsUi
      <3>2. ui'.for.page = ui'.page /\ ui'.for = [Params(ui') EXCEPT !.page = ui'.page]
        BY <3>1 DEF Params
      <3> QED
        BY <3>1, <3>2 DEF OnItsPage
    <2>2. Covers(c.arg, c.arg.page, base, seen \cup sel.rows)'
      BY <1>1, <1>13 DEF Brings, Covers, Newer, Matching
    <2>3. base \subseteq Matching(c.arg)'
      BY <1>1, <1>13 DEF Matching
    <2>4. ~sel.slipped /\ c.arg.page >= pages => base \subseteq seen \cup sel.rows
      BY <1>13 DEF Brings, pages, total
    <2> QED
      BY <1>5, <1>13, <2>1, <2>2, <2>3, <2>4 DEF HasSeen, Covers, Newer, Matching
  <1>14. Walking'
    <2>1. CASE ~c.fresh
      <3>1. walk' = NoWalk
        BY <1>11, <2>1
      <3> QED
        BY <3>1 DEF Walking, NoWalk
    <2>2. CASE c.fresh /\ c.arg.page = 1
      <3>1. walk' = [on |-> TRUE, base |-> c.res["count"], seen |-> sel.rows, slipped |-> sel.slipped]
        BY <1>1, <2>2 DEF Walked
      <3>2. Brings(c, c.res["count"], {})
        BY <1>2, <1>a, <2>2 DEF Brought, BringsRows
      <3>3. OnItsPage' /\ HasSeen'
        BY <1>3, <1>13, <2>2, <3>1, <3>2
      <3>4. DOMAIN walk' = DOMAIN NoWalk /\ walk'.on = TRUE
        BY <3>1 DEF NoWalk
      <3>5. ~doubt' /\ \A b \in calls' : ~b.fresh
        BY <1>1, <1>9, <2>2
      <3> QED
        BY <3>3, <3>4, <3>5 DEF Walking
    <2>3. CASE c.fresh /\ c.arg.page # 1 /\ ~walk.on
      <3>1. walk' = NoWalk
        BY <1>1, <2>3 DEF Walked
      <3> QED
        BY <3>1 DEF Walking, NoWalk
    <2>4. CASE c.fresh /\ c.arg.page # 1 /\ walk.on
      <3>1. walk' = [walk EXCEPT !.seen = @ \cup sel.rows, !.slipped = sel.slipped]
        BY <1>1, <2>4 DEF Walked
      <3>2. /\ DOMAIN walk' = DOMAIN NoWalk /\ walk'.on = walk.on /\ walk'.base = walk.base
            /\ walk'.seen = walk.seen \cup sel.rows /\ walk'.slipped = sel.slipped
        BY <1>a, <3>1 DEF Walking, NoWalk
      <3>3. Brings(c, walk.base, walk.seen)
        BY <1>2, <1>a, <2>4 DEF Brought, BringsRows
      <3>4. walk.base \subseteq Matching(c.arg)
        <4>1. OnItsPage /\ HasSeen
          BY <1>a, <2>4 DEF Walking
        <4>2. /\ ui.for.search = c.arg.search /\ ui.for.provider = c.arg.provider
              /\ ui.for.status = c.arg.status
          BY <1>9, <2>4, <4>1 DEF OnItsPage, Params
        <4>3. Matching(ui.for) = Matching(c.arg)
          BY <4>2, SameRows
        <4> QED
          BY <4>1, <4>3 DEF HasSeen
      <3>5. OnItsPage' /\ HasSeen'
        <4>1. PICK B, S : B = walk.base /\ S = walk.seen
          OBVIOUS
        <4> QED
          BY <1>13, <2>4, <3>2, <3>3, <3>4, <4>1
      <3> QED
        BY <1>1, <1>9, <1>a, <2>4, <3>2, <3>5 DEF Walking
    <2> QED
      BY <1>f, <1>a, <2>1, <2>2, <2>3, <2>4 DEF Walking
  <1> QED
    BY <1>1, <1>7, <1>8, <1>10, <1>12, <1>14 DEF RequestsInv, Brought

\* A call failed: the rows stay, and nobody knows that they are what is asked for.
LEMMA KeepKeepsWalk ==
    ASSUME Formed, RequestsInv, at = "requests", NEW c \in calls, KeepRows(c)
    PROVE  Formed' /\ RequestsInv' /\ at' = at
  <1>a. RequestsUi /\ Asked /\ Walking /\ Brought
    BY DEF RequestsInv
  <1>1. /\ Throw(c, [ui EXCEPT !.loading = FALSE]) /\ c.kind = "requests" /\ walk' = NoWalk
        /\ UNCHANGED <<log, old>>
    BY DEF KeepRows, requestLog
  <1>2. CallsFormed' /\ at' = at /\ doubt' = TRUE
    BY <1>1, ThrowForms
  <1>3. ui' = [ui EXCEPT !.loading = FALSE] /\ calls' \subseteq calls
    BY <1>1, LeftForms DEF Throw
  <1>4. /\ DOMAIN ui' = DOMAIN ui /\ ui'.due = ui.due /\ ui'.page = ui.page /\ ui'.limit = ui.limit
        /\ ui'.pages = ui.pages /\ Params(ui') = Params(ui)
    BY <1>3, <1>a DEF RequestsUi, RequestsMounted, Params
  <1>5. Formed'
    BY <1>1, <1>2, <1>4 DEF Formed, ScreenFormed, LogFormed
  <1>6. RequestsUi' /\ Asked'
    BY <1>2, <1>3, <1>4, <1>a DEF RequestsUi, Asked
  <1>7. Walking' /\ ~walk'.on
    BY <1>1 DEF Walking, NoWalk
  <1>8. \A b \in calls' : Counts(b)' /\ (b.fresh => BringsRows(b)')
    BY <1>1, <1>3, <1>7, <1>a DEF Brought, Counts, BringsRows, Brings, Covers, Newer, Matching
  <1> QED
    BY <1>2, <1>5, <1>6, <1>7, <1>8 DEF RequestsInv, Brought

LEMMA RequestsStep ==
    ASSUME Formed, RequestsInv, at = "requests", Next
    PROVE  Formed' /\ RequestsInv' /\ at' = at
  <1>1. CASE Insertion
    BY <1>1, InsertionKeepsWalk
  <1>2. CASE RequestsNext
    <2>1. RequestsUi
      BY DEF RequestsInv
    <2> QED
      BY <1>2, <2>1, ActsOfUser, UserActsStep, LoadKeepsWalk, CountKeepsWalk, SelectKeepsWalk,
         ShowKeepsWalk, KeepKeepsWalk
  <1>3. CASE Return
    <2>1. /\ Formed' /\ at' = at /\ ui' = RequestsMounted /\ calls' = {} /\ walk' = NoWalk
      BY <1>3, ReturnForms DEF Mounted, Return
    <2>2. RequestsUi'
      <3>1. ui'.page = 1 /\ ui'.limit = FirstLimit /\ ui'.pages = 0
        BY <2>1 DEF RequestsMounted
      <3> QED
        BY <2>1, <3>1, LimitAssumption DEF RequestsUi
    <2>3. Asked' /\ Brought'
      BY <2>1 DEF Asked, Brought, RequestsMounted
    <2>4. Walking'
      BY <2>1 DEF Walking, NoWalk
    <2> QED
      BY <2>1, <2>2, <2>3, <2>4 DEF RequestsInv
  <1> QED
    BY <1>1, <1>2, <1>3, StepsOfRequests

-----------------------------------------------------------------------------
(* The inductive invariant. *)

LEMMA InitInv == Init => ReportsInv
  <1> SUFFICES ASSUME Init PROVE ReportsInv
    OBVIOUS
  <1>1. /\ at \in Pages /\ ui = Mounted[at] /\ calls = {} /\ doubt = FALSE /\ walk = NoWalk
        /\ log = FirstLog /\ old = 0
    BY DEF Init, LogInit
  <1>2. LogFormed
    BY <1>1, LogAssumption DEF LogFormed
  <1>3. CASE at = "requests"
    <2>1. ui = RequestsMounted
      BY <1>1, <1>3 DEF Mounted
    <2>2. ui.page = 1 /\ ui.limit = FirstLimit /\ ui.pages = 0 /\ ui.due = TRUE
          /\ "due" \in DOMAIN ui
      BY <2>1 DEF RequestsMounted
    <2>3. RequestsUi
      BY <2>1, <2>2, LimitAssumption DEF RequestsUi
    <2>4. Asked /\ Brought /\ CallsFormed /\ ScreenFormed
      BY <1>1, <2>2 DEF Asked, Brought, CallsFormed, ScreenFormed
    <2>5. Walking
      BY <1>1 DEF Walking, NoWalk
    <2> QED
      BY <1>1, <1>2, <1>3, <2>3, <2>4, <2>5
      DEF ReportsInv, Formed, RequestsInv, OverviewInv, AnalyticsInv, CacheInv
  <1>4. CASE at = "overview"
    <2>1. ui = OverviewMounted
      BY <1>1, <1>4 DEF Mounted
    <2>2. "due" \in DOMAIN ui /\ ui.due = TRUE /\ ui.overview = None
      BY <2>1 DEF OverviewMounted
    <2>3. Formed
      BY <1>1, <1>2, <2>2 DEF Formed, CallsFormed, ScreenFormed
    <2> QED
      BY <1>1, <1>4, <2>2, <2>3
      DEF ReportsInv, RequestsInv, OverviewInv, AnalyticsInv, CacheInv, DayWithinAll
  <1>5. CASE at = "analytics"
    <2>1. ui = AnalyticsMounted
      BY <1>1, <1>5 DEF Mounted
    <2>2. /\ {"due", "range", "usage", "models"} \subseteq DOMAIN ui /\ ui.due = TRUE
          /\ ui.range = FirstRange /\ ui.usage = None
      BY <2>1 DEF AnalyticsMounted
    <2>3. Formed
      BY <1>1, <1>2, <2>2 DEF Formed, CallsFormed, ScreenFormed
    <2> QED
      BY <1>1, <1>5, <2>2, <2>3, RangeAssumption
      DEF ReportsInv, RequestsInv, OverviewInv, AnalyticsInv, CacheInv
  <1>6. CASE at = "cache"
    <2>1. ui = CacheMounted
      BY <1>1, <1>6 DEF Mounted
    <2>2. {"due", "stats"} \subseteq DOMAIN ui /\ ui.due = TRUE
      BY <2>1 DEF CacheMounted
    <2>3. Formed
      BY <1>1, <1>2, <2>2 DEF Formed, CallsFormed, ScreenFormed
    <2> QED
      BY <1>1, <1>6, <2>2, <2>3
      DEF ReportsInv, RequestsInv, OverviewInv, AnalyticsInv, CacheInv
  <1> QED
    BY <1>1, <1>3, <1>4, <1>5, <1>6 DEF Pages, Mounted

\* A behaviour is about one page, whose part of the invariant its steps keep.
LEMMA NextInv == ReportsInv /\ [Next]_vars => ReportsInv'
  <1> SUFFICES ASSUME ReportsInv, [Next]_vars PROVE ReportsInv'
    OBVIOUS
  <1>a. Formed /\ RequestsInv /\ OverviewInv /\ AnalyticsInv /\ CacheInv
    BY DEF ReportsInv
  <1>1. CASE Next
    <2>1. CASE at = "requests"
      <3>1. Formed' /\ RequestsInv' /\ at' = at
        BY <1>1, <1>a, <2>1, RequestsStep
      <3> QED
        BY <2>1, <3>1 DEF ReportsInv, OverviewInv, AnalyticsInv, CacheInv
    <2>2. CASE at = "overview"
      <3>1. Formed' /\ OverviewInv' /\ at' = at
        BY <1>1, <1>a, <2>2, OverviewStep
      <3> QED
        BY <2>2, <3>1 DEF ReportsInv, RequestsInv, AnalyticsInv, CacheInv
    <2>3. CASE at = "analytics"
      <3>1. Formed' /\ AnalyticsInv' /\ at' = at
        BY <1>1, <1>a, <2>3, AnalyticsStep
      <3> QED
        BY <2>3, <3>1 DEF ReportsInv, RequestsInv, OverviewInv, CacheInv
    <2>4. CASE at = "cache"
      <3>1. Formed' /\ CacheInv' /\ at' = at
        BY <1>1, <1>a, <2>4, CacheStep
      <3> QED
        BY <2>4, <3>1 DEF ReportsInv, RequestsInv, OverviewInv, AnalyticsInv
    <2> QED
      BY <1>a, <2>1, <2>2, <2>3, <2>4 DEF Formed, Pages, Mounted
  <1>2. CASE UNCHANGED vars
    <2>1. UNCHANGED <<at, ui, calls, doubt, log, old, entries, walk>>
      BY <1>2 DEF vars, browser, requestLog, cache
    <2>2. Formed'
      BY <1>a, <2>1 DEF Formed, CallsFormed, ScreenFormed, LogFormed
    <2>3. OverviewInv' /\ AnalyticsInv' /\ CacheInv'
      BY <1>a, <2>1
      DEF OverviewInv, DayWithinAll, DayFirst, AnalyticsInv, CacheInv, Counted
    <2>4. RequestsUi' = RequestsUi /\ Asked' = Asked
      BY <2>1 DEF RequestsUi, Asked
    <2>5. Walking => Walking'
      BY <2>1 DEF Walking, OnItsPage, HasSeen, Covers, Newer, Matching
    <2>6. Brought => Brought'
      BY <2>1 DEF Brought, Counts, BringsRows, Brings, Covers, Newer, Matching
    <2> QED
      BY <1>a, <2>1, <2>2, <2>3, <2>4, <2>5, <2>6 DEF ReportsInv, RequestsInv
  <1> QED
    BY <1>1, <1>2

\* Whatever the answers and their order, each page keeps its part of the invariant.
THEOREM ReportsInductive == Spec => []ReportsInv
  BY InitInv, NextInv, PTL DEF Spec

-----------------------------------------------------------------------------
(* The properties. *)

\* When nothing is outstanding, the request log and the analytics show what is chosen on
\* screen, in whatever order the answers came: unless the last one was of an earlier
\* choice, or failed (requests/page.tsx:80-106, analytics/page.tsx:48-54).
THEOREM ShownRowsAreAsked == Spec => []ShownIsAsked
  <1>1. ReportsInv => ShownIsAsked
    <2> SUFFICES ASSUME ReportsInv PROVE ShownIsAsked
      OBVIOUS
    <2>1. Formed /\ RequestsInv /\ AnalyticsInv
      BY DEF ReportsInv
    <2>2. RequestsShownAreAsked
      <3> SUFFICES ASSUME at = "requests", ~ui.due, Waiting = {}, ~doubt PROVE ui.for = Params(ui)
        BY DEF RequestsShownAreAsked, RequestsQuiet
      <3>1. \A c \in calls : c.here
        BY <2>1 DEF Formed, CallsFormed, KindsOn
      <3>2. calls = {}
        BY <3>1 DEF Waiting
      <3> QED
        BY <2>1, <3>2 DEF RequestsInv, Asked
    <2>3. RangesAgree
      <3> SUFFICES ASSUME at = "analytics", ui.usage # None
                   PROVE  /\ ui.models # None /\ ui.usage.range = ui.models.range
                          /\ Quiet /\ ~doubt => ui.usage.range = ui.range
        BY DEF RangesAgree
      <3>1. PICK r \in Ranges : OfRange(ui.usage, r) /\ OfRange(ui.models, r)
        BY <2>1 DEF AnalyticsInv
      <3>2. ui.usage.range = r /\ ui.models.range = r /\ ui.models # None
        BY <3>1, NoneAssumption DEF OfRange
      <3>3. ASSUME Quiet, ~doubt PROVE ui.usage.range = ui.range
        <4>1. \A c \in calls : c.here
          BY <2>1 DEF Formed, CallsFormed, KindsOn
        <4>2. calls = {} /\ ~ui.due
          BY <3>3, <4>1 DEF Quiet, Waiting
        <4> QED
          BY <2>1, <3>3, <4>2 DEF AnalyticsInv
      <3> QED
        BY <3>2, <3>3
    <2> QED
      BY <2>2, <2>3 DEF ShownIsAsked
  <1> QED
    BY <1>1, ReportsInductive, PTL

\* Who goes through the log page by page, waiting for each, sees at the last page every
\* row that was there at the first, for pages of any size, however many rows come in
\* between: unless one came between the COUNT and the SELECT of the last page
\* (requests/page.tsx:376, queries.go:524-553).
THEOREM WalksMissNone == Spec => []WalkMissesNone
  <1>1. ReportsInv => WalkMissesNone
    <2> SUFFICES ASSUME ReportsInv, at = "requests", ~ui.due, Waiting = {}, walk.on,
                        ui.page >= ui.pages, ~walk.slipped
                 PROVE  walk.base \subseteq walk.seen
      BY DEF WalkMissesNone, AtTheEnd, RequestsQuiet
    <2>1. Formed /\ Asked /\ Walking
      BY DEF ReportsInv, RequestsInv
    <2>2. \A c \in calls : c.here
      BY <2>1 DEF Formed, CallsFormed, KindsOn
    <2>3. calls = {}
      BY <2>2 DEF Waiting
    <2>4. ~doubt /\ HasSeen
      BY <2>1 DEF Walking
    <2>5. ui.for = Params(ui)
      BY <2>1, <2>3, <2>4 DEF Asked
    <2>6. ui.for.page >= ui.pages
      BY <2>5 DEF Params
    <2> QED
      BY <2>4, <2>6 DEF HasSeen
  <1> QED
    BY <1>1, ReportsInductive, PTL

\* The requests of the last day never exceed all requests, although rows come and age
\* between the queries that count them: unless the count of all failed
\* (queries.go:570-597).
THEOREM DaysAreWithinAll == Spec => []DayWithinAll
  <1>1. ReportsInv => DayWithinAll
    BY DEF ReportsInv, OverviewInv, DayWithinAll
  <1> QED
    BY <1>1, ReportsInductive, PTL

\* When nothing is outstanding on the cache page, no entry is counted that was flushed,
\* although counts are under way while a flush is carried out, and a flush of a page that
\* was left may be carried out later: unless a count or a flush seemed to fail, or an
\* answer of before the flush came last
\* (cache/page.tsx:35-59).
THEOREM FlushesAreShown == Spec => []FlushIsShown
  <1>1. ReportsInv => FlushIsShown
    <2> SUFFICES ASSUME ReportsInv, at = "cache", Quiet, ~doubt
                 PROVE  ui.stats["entries"] \subseteq entries
      BY DEF FlushIsShown
    <2>1. Formed /\ CacheInv
      BY DEF ReportsInv
    <2>2. \A c \in calls : c.here => FALSE
      BY DEF Quiet, Waiting
    <2>3. ~\E c \in calls : Counted(c)
      <3>1. \A c \in calls : c.kind = "flush" /\ ~c.here
        BY <2>1, <2>2 DEF Formed, CallsFormed
      <3> QED
        BY <3>1 DEF Counted
    <2> QED
      BY <2>1, <2>2, <2>3 DEF CacheInv, Quiet
  <1> QED
    BY <1>1, ReportsInductive, PTL
=============================================================================
