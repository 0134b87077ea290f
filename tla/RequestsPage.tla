---------------------------- MODULE RequestsPage ----------------------------
(***************************************************************************)
(* The page that lists the request log: two filters, a search that waits    *)
(* until typing stops, and pages of rows.  Each change of what is to be     *)
(* listed asks again, without waiting for or cancelling the question before *)
(***************************************************************************)
EXTENDS Browser, RequestLog

CONSTANTS
    Limits, Searches, Statuses, Providers, \* what may be chosen
    FirstLimit,                            \* what is chosen at first
    AllNumbers                             \* up to so many page numbers are all shown

ASSUME LimitAssumption == Limits \subseteq Nat \ {0} /\ FirstLimit \in Limits

VARIABLE walk \* history: the rows a user who goes from page to page has to see and has seen

NoWalk == [on |-> FALSE, base |-> {}, seen |-> {}, slipped |-> FALSE]

RequestsMounted ==
    [page |-> 1, limit |-> FirstLimit, search |-> "", debounced |-> "", status |-> "all",
     provider |-> "all", timer |-> TRUE, loading |-> TRUE, due |-> TRUE,
     rows |-> {}, total |-> 0, pages |-> 0, for |-> None]

Params(r) == [page |-> r.page, limit |-> r.limit, search |-> r.debounced,
              status |-> r.status, provider |-> r.provider]
\* Mutant: load is not made anew when the provider changes.
ParamsWithoutProvider(r) == [Params(r) EXCEPT !.provider = "all"]
Dependencies(r) == Params(r)

ListRequests(p) == Call("requests", p, {"count", "select"})

-----------------------------------------------------------------------------
(* What the user does.  A handler leaves the state r; the effect that loads  *)
(* is due when load was made anew.                                          *)

Leave(r) ==
    /\ at = "requests"
    /\ ui' = [r EXCEPT !.due = @ \/ Dependencies(r) # Dependencies(ui)]
    /\ calls' = {[c EXCEPT !.fresh = @ /\ Params(r) = Params(ui)] : c \in calls}
    /\ UNCHANGED <<at, doubt, requestLog>>
Astray(r) == walk' = IF Params(r) = Params(ui) THEN walk ELSE NoWalk
Do(r) == Click /\ Leave(r) /\ Astray(r)

TypeSearch(s) == ui.search # s /\ Do([ui EXCEPT !.search = s, !.timer = TRUE])
TimerFires ==
    LET r == [ui EXCEPT !.timer = FALSE, !.debounced = ui.search, !.page = 1]
    IN  at = "requests" /\ ui.timer /\ Leave(r) /\ Astray(r) /\ UNCHANGED clicks
PickStatus(s) == ui.status # s /\ Do([ui EXCEPT !.status = s, !.page = 1])
PickProvider(p) == ui.provider # p /\ Do([ui EXCEPT !.provider = p, !.page = 1])

\* The controls below the table are there when there are rows, also while loading.
Paginated == ui.total > 0
HandlePageSizeChange(n) ==
    Paginated /\ ui.limit # n /\ Do([ui EXCEPT !.limit = n, !.page = 1])
First == Paginated /\ ui.page > 1 /\ Do([ui EXCEPT !.page = 1])
Previous == Paginated /\ ui.page > 1 /\ Do([ui EXCEPT !.page = @ - 1])
Next1 ==
    /\ Paginated /\ ui.page < ui.pages
    /\ Click /\ Leave([ui EXCEPT !.page = @ + 1])
    /\ walk' = IF ui.loading \/ ui.due THEN NoWalk ELSE walk
Last1 == Paginated /\ ui.page < ui.pages /\ Do([ui EXCEPT !.page = ui.pages])
GetPageNumbers ==
    {p \in 1..ui.pages : ui.pages <= AllNumbers \/ p \in {1, ui.pages} \cup (ui.page - 1)..(ui.page + 1)}
JumpTo(p) == Paginated /\ p # ui.page /\ Do([ui EXCEPT !.page = p])

-----------------------------------------------------------------------------
(* Loading. *)

LoadRequests ==
    /\ at = "requests" /\ ui.due
    /\ ui' = [ui EXCEPT !.due = FALSE, !.loading = TRUE]
    /\ Ask(ListRequests(Params(ui)))
    /\ UNCHANGED <<at, clicks, doubt, requestLog, walk>>

CountRows(c) ==
    /\ c.kind = "requests" /\ "count" \in c.todo
    /\ calls' = Served(c, "count", Matching(c.arg))
    /\ UNCHANGED <<at, ui, clicks, doubt, requestLog, walk>>
SelectRows(c) ==
    /\ c.kind = "requests" /\ c.todo = {"select"}
    /\ calls' = Served(c, "select", [rows |-> RowsOf(c.arg),
                                     slipped |-> Matching(c.arg) # c.res["count"]])
    /\ UNCHANGED <<at, ui, clicks, doubt, requestLog, walk>>

\* The walk goes on with the rows that c brought, or begins with a first page.
Walked(c) ==
    LET sel == c.res["select"] IN
    CASE c.fresh /\ c.arg.page = 1 ->
           [on |-> TRUE, base |-> c.res["count"], seen |-> sel.rows, slipped |-> sel.slipped]
      [] c.fresh /\ c.arg.page # 1 /\ walk.on ->
           [walk EXCEPT !.seen = @ \cup sel.rows, !.slipped = sel.slipped]
      [] OTHER -> NoWalk

ShowRows(c) ==
    /\ Answered(c) /\ c.kind = "requests"
    /\ LET total == Cardinality(c.res["count"]) IN
       Resume(c, [ui EXCEPT !.rows = c.res["select"].rows, !.total = total,
                            !.pages = TotalPages(total, c.arg.limit),
                            !.loading = FALSE, !.for = c.arg])
    /\ doubt' = ~c.fresh
    /\ walk' = Walked(c)
    /\ UNCHANGED requestLog
KeepRows(c) ==
    /\ c.kind = "requests" /\ Throw(c, [ui EXCEPT !.loading = FALSE])
    /\ walk' = NoWalk
    /\ UNCHANGED requestLog

RequestsNext ==
    \/ at = "requests" /\ \/ \E s \in Searches : TypeSearch(s)
                          \/ \E s \in Statuses : PickStatus(s)
                          \/ \E p \in Providers : PickProvider(p)
                          \/ \E n \in Limits : HandlePageSizeChange(n)
                          \/ \E p \in GetPageNumbers : JumpTo(p)
                          \/ First \/ Previous \/ Next1 \/ Last1
    \/ TimerFires
    \/ LoadRequests
    \/ \E c \in calls : CountRows(c) \/ SelectRows(c) \/ ShowRows(c) \/ KeepRows(c)

-----------------------------------------------------------------------------
(* Properties. *)

RequestsQuiet == at = "requests" /\ ~ui.due /\ Waiting = {}

\* When nothing is outstanding, the rows are those of the page and the filters on
\* screen, although several questions may have been under way and answered in any
\* order: unless the last answer to come was of an earlier question, or failed
\* (requests/page.tsx:80-106).
RequestsShownAreAsked == RequestsQuiet /\ ~doubt => ui.for = Params(ui)

\* Who goes through the log page by page to the last, waiting for each, sees every
\* row that was there at the first page, while the proxy inserts rows all the time:
\* unless a row came between the COUNT and the SELECT of the last page
\* (requests/page.tsx:376, queries.go:524-553).
AtTheEnd == RequestsQuiet /\ walk.on /\ ui.page >= ui.pages
WalkMissesNone == AtTheEnd /\ ~walk.slipped => walk.base \subseteq walk.seen
=============================================================================
