-------------------------- MODULE StatisticsPages --------------------------
(***************************************************************************)
(* The pages that show sums over the request log: the overview, analytics   *)
(* over a range of days, and the cache with the button that flushes it.     *)
(***************************************************************************)
EXTENDS Browser, RequestLog

CONSTANTS
    Ranges,   \* the tabs of the analytics page; the first is chosen at first
    FirstRange,
    MaxStores \* responses stored in the cache

ASSUME RangeAssumption == FirstRange \in Ranges /\ MaxStores \in Nat
\* None is nothing that a query gives.
ASSUME NoneAssumption ==
    \A r \in Ranges, n \in 0..MaxRows : [range |-> r, rows |-> n] # None

VARIABLES
    entries, \* entries of the semantic cache, numbered as they are stored
    stores   \* how many were ever stored

cache == <<entries, stores>>
CacheInit == entries = {} /\ stores = 0

Failed == -1

OverviewMounted == [loading |-> TRUE, due |-> TRUE, overview |-> None, usage |-> None]
AnalyticsMounted ==
    [loading |-> TRUE, due |-> TRUE, range |-> FirstRange, usage |-> None, models |-> None]
CacheMounted == [loading |-> TRUE, due |-> TRUE, flushing |-> FALSE, stats |-> None]

\* The endpoints, with the queries each makes.
GetDashboardOverview == Call("overview", "7d", {"day", "reqs", "hits", "total", "usage"})
GetAnalytics(r) == Call("analytics", r, {"usage", "models"})
GetCacheStats == Call("stats", None, {"total", "hits", "entries"})
FlushCache == Call("flush", [id |-> None], {"flush"})

-----------------------------------------------------------------------------
(* The backend. *)

\* Each query of a handler comes after those before it; a query that fails gives
\* zero and no error.
After(c, p, earlier) == p \in c.todo /\ c.todo \cap earlier = {}
Reads(c, p, n) == calls' = Served(c, p, n) \/ calls' = Served(c, p, Failed)

\* Mutant: the totals are read before those of the last day.
OverviewTotalsFirst(c) ==
    \/ After(c, "total", {}) /\ Reads(c, "total", Len(log))
    \/ After(c, "day", {"total"}) /\ calls' = Served(c, "day", Day)
    \/ After(c, "reqs", {"day"}) /\ Reads(c, "reqs", Day)
    \/ After(c, "hits", {"reqs"}) /\ Reads(c, "hits", Hits(old + 1 .. Len(log)))
GetOverviewStats(c) ==
    \/ After(c, "day", {}) /\ calls' = Served(c, "day", Day)
    \/ After(c, "reqs", {"day"}) /\ Reads(c, "reqs", Day)
    \/ After(c, "hits", {"reqs"}) /\ Reads(c, "hits", Hits(old + 1 .. Len(log)))
    \/ After(c, "total", {"hits"}) /\ Reads(c, "total", Len(log))
\* What is read is told by the range it was read for.
GetUsageOverTime(c) ==
    "usage" \in c.todo /\ calls' = Served(c, "usage", [range |-> c.arg, rows |-> Len(log)])
GetModelUsageBreakdown(c) ==
    "models" \in c.todo /\ calls' = Served(c, "models", [range |-> c.arg, rows |-> Len(log)])
GetCacheOverview(c) ==
    \/ After(c, "total", {}) /\ Reads(c, "total", Len(log))
    \/ After(c, "hits", {"total"}) /\ Reads(c, "hits", Hits(DOMAIN log))
\* Its error is ignored too.
EntryCount(c) ==
    /\ After(c, "entries", {"total", "hits"})
    /\ \E counted \in {entries, {}} : calls' = Served(c, "entries", counted)

Read(c) ==
    /\ \/ c.kind = "overview" /\ (GetOverviewStats(c) \/ GetUsageOverTime(c))
       \/ c.kind = "analytics" /\ (GetUsageOverTime(c) \/ GetModelUsageBreakdown(c))
       \/ c.kind = "stats" /\ (GetCacheOverview(c) \/ EntryCount(c))
    /\ UNCHANGED <<at, ui, clicks, doubt, requestLog, cache>>

StoreEntry ==
    /\ at = "cache" /\ stores < MaxStores
    /\ stores' = stores + 1 /\ entries' = entries \cup {stores'}
    /\ UNCHANGED <<browser, requestLog>>
FlushAll(c) ==
    /\ c.kind = "flush" /\ "flush" \in c.todo
    /\ entries' = {}
    /\ Edit(c, "flush", None)
    /\ UNCHANGED <<at, ui, clicks, requestLog, stores>>

-----------------------------------------------------------------------------
(* The pages.  Promise.all: a page goes on when all parts are there.        *)

Rest == UNCHANGED <<requestLog, cache>>

SelectRange(r) ==
    /\ at = "analytics" /\ ui.range # r /\ Click
    /\ ui' = [ui EXCEPT !.range = r, !.due = TRUE]
    /\ calls' = {[c EXCEPT !.fresh = FALSE] : c \in calls}
    /\ UNCHANGED <<at, doubt>> /\ Rest

\* The effect of a page, or the load after a flush: asks.
LoadOverview ==
    /\ at = "overview" /\ ui.due
    /\ ui' = [ui EXCEPT !.due = FALSE]
    /\ Ask(GetDashboardOverview)
    /\ UNCHANGED <<at, clicks, doubt>> /\ Rest
LoadAnalytics ==
    /\ at = "analytics" /\ ui.due
    /\ ui' = [ui EXCEPT !.due = FALSE, !.loading = TRUE]
    /\ Ask(GetAnalytics(ui.range))
    /\ UNCHANGED <<at, clicks, doubt>> /\ Rest
LoadCache ==
    /\ at = "cache" /\ ui.due
    /\ ui' = [ui EXCEPT !.due = FALSE]
    /\ Ask(GetCacheStats)
    /\ UNCHANGED <<at, clicks, doubt>> /\ Rest

ShowOverview(c) ==
    /\ Answered(c) /\ c.kind = "overview"
    /\ Resume(c, [ui EXCEPT !.overview = c.res, !.usage = c.res["usage"], !.loading = FALSE])
    /\ doubt' = ~c.fresh /\ Rest
ShowAnalytics(c) ==
    /\ Answered(c) /\ c.kind = "analytics"
    /\ Resume(c, [ui EXCEPT !.usage = c.res["usage"], !.models = c.res["models"],
                            !.loading = FALSE])
    /\ doubt' = ~c.fresh /\ Rest
ShowStats(c) ==
    /\ Answered(c) /\ c.kind = "stats"
    /\ Resume(c, [ui EXCEPT !.stats = c.res, !.loading = FALSE])
    /\ doubt' = ~c.fresh /\ Rest
\* An error is logged; what was shown stays.
KeepStatistics(c) ==
    /\ c.kind \in {"overview", "analytics", "stats"}
    /\ Throw(c, [ui EXCEPT !.loading = FALSE]) /\ Rest

\* After the confirmation; the button is disabled until the answer.
HandleFlush ==
    /\ at = "cache" /\ ~ui.flushing /\ Click
    /\ ui' = [ui EXCEPT !.flushing = TRUE]
    /\ Ask(FlushCache)
    /\ UNCHANGED <<at, doubt>> /\ Rest
\* Mutant: nothing is loaded after a flush.
FlushedWithoutLoad(c) ==
    /\ Answered(c) /\ c.kind = "flush"
    /\ Resume(c, [ui EXCEPT !.flushing = FALSE])
    /\ UNCHANGED doubt /\ Rest
Flushed(c) ==
    /\ Answered(c) /\ c.kind = "flush"
    /\ Resume(c, [ui EXCEPT !.flushing = FALSE, !.due = TRUE])
    /\ UNCHANGED doubt /\ Rest
FlushAlert(c) ==
    /\ c.kind = "flush" /\ Throw(c, [ui EXCEPT !.flushing = FALSE]) /\ Rest

StatisticsNext ==
    \/ at = "analytics" /\ \E r \in Ranges : SelectRange(r)
    \/ LoadOverview \/ LoadAnalytics \/ LoadCache
    \/ HandleFlush \/ StoreEntry
    \/ \E c \in calls : \/ Read(c) \/ FlushAll(c)
                        \/ ShowOverview(c) \/ ShowAnalytics(c) \/ ShowStats(c)
                        \/ KeepStatistics(c) \/ Flushed(c) \/ FlushAlert(c)

-----------------------------------------------------------------------------
(* Properties. *)

\* The tables of the analytics page are of one range, never of two, and when nothing is
\* outstanding of the one selected: unless the last answer to come was of a range
\* selected before, or failed (analytics/page.tsx:48-54).
Quiet == ~ui.due /\ Waiting = {}
RangesAgree ==
    at = "analytics" /\ ui.usage # None =>
        /\ ui.models # None /\ ui.usage.range = ui.models.range
        /\ Quiet /\ ~doubt => ui.usage.range = ui.range

\* The requests of the last day never exceed all requests, although the overview counts
\* them at different times while rows come and age: unless the count of all failed,
\* which shows as zero (queries.go:570-597).
DayWithinAll ==
    at = "overview" /\ ui.overview # None =>
        ui.overview["total"] = Failed \/ ui.overview["day"] <= ui.overview["total"]

\* When nothing is outstanding on the cache page, no entry is counted that was flushed:
\* unless the count or the flush seemed to fail, or an answer of before the flush came
\* last (cache/page.tsx:35-59).
FlushIsShown ==
    at = "cache" /\ Quiet /\ ~doubt => ui.stats["entries"] \subseteq entries
=============================================================================
