------------------------------ MODULE Reports ------------------------------
(***************************************************************************)
(* The pages over the request log while the proxy inserts rows and stores   *)
(* responses.  A page forgets its state when it is left, so a tab that goes *)
(* elsewhere and comes back is one that mounts the page again: a behaviour  *)
(* is about one page.  Rows age where their age is read, and responses are  *)
(* stored where the cache is.                                               *)
(***************************************************************************)
EXTENDS RequestsPage, StatisticsPages

Mounted == [requests  |-> RequestsMounted,
            overview  |-> OverviewMounted,
            analytics |-> AnalyticsMounted,
            cache     |-> CacheMounted]
Pages == DOMAIN Mounted

vars == <<browser, requestLog, cache, walk>>

Init ==
    /\ LogInit /\ CacheInit
    /\ at \in Pages /\ ui = Mounted[at]
    /\ calls = {} /\ clicks = 0 /\ doubt = FALSE
    /\ walk = NoWalk

Return ==
    /\ Visit(at, Mounted[at])
    /\ walk' = NoWalk
    /\ UNCHANGED <<requestLog, cache>>

Next ==
    \/ \E k \in Rows : InsertRow(k) /\ UNCHANGED <<browser, cache, walk>>
    \/ at = "overview" /\ Age /\ UNCHANGED <<browser, cache, walk>>
    \/ RequestsNext /\ UNCHANGED cache
    \/ StatisticsNext /\ UNCHANGED walk
    \/ \E c \in calls : Forget(c) /\ UNCHANGED <<requestLog, cache, walk>>
    \/ Return

Spec == Init /\ [][Next]_vars

-----------------------------------------------------------------------------
(* Properties. *)

\* When nothing is outstanding, the request log and the analytics show what is chosen on
\* screen, although several questions may have been under way and answered in any order
\* (requests/page.tsx:80-106, analytics/page.tsx:48-54): unless the last answer to come was
\* of an earlier choice, or failed.
ShownIsAsked == RequestsShownAreAsked /\ RangesAgree
=============================================================================
