----------------------------- MODULE RequestLog -----------------------------
(***************************************************************************)
(* The table request_logs as the dashboard reads it: rows are appended by   *)
(* the proxy and never change; only their age does.  A listing is a COUNT   *)
(* and a SELECT in no transaction; the statistics are a dozen queries.      *)
(***************************************************************************)
EXTENDS Integers, Sequences, FiniteSets

CONSTANTS
    Rows,     \* kinds of rows: [status, hit, provider, words]
    FirstLog, \* the rows that were there before
    MaxRows

ASSUME LogAssumption ==
    MaxRows \in Nat /\ FirstLog \in Seq(Rows) /\ Len(FirstLog) <= MaxRows

VARIABLES
    log, \* the rows in the order of created_at
    old  \* how many of them are older than 24 hours

requestLog == <<log, old>>

LogInit == log = FirstLog /\ old = 0

InsertRow(k) ==
    /\ Len(log) < MaxRows
    /\ log' = Append(log, k)
    /\ UNCHANGED old
Age == old < Len(log) /\ old' = old + 1 /\ UNCHANGED log

\* The WHERE clause: words stands for the strings that ILIKE finds in the names.
Satisfies(k, f) ==
    /\ f.search = "" \/ f.search \in k.words
    /\ f.provider = "all" \/ k.provider = f.provider
    /\ CASE f.status = "success" -> k.status = 200
         [] f.status = "error"   -> k.status = 500
         [] f.status = "cached"  -> k.hit
         [] OTHER                -> TRUE
Matching(f) == {i \in DOMAIN log : Satisfies(log[i], f)}

OffsetFromPage(f) == f.page * f.limit \* mutant: pages counted from zero
Offset(f) == (f.page - 1) * f.limit
\* ORDER BY created_at DESC LIMIT OFFSET: the rows with so many newer ones.
RowsOf(f) ==
    {i \in Matching(f) :
        Cardinality({j \in Matching(f) : j > i}) \in Offset(f)..(Offset(f) + f.limit - 1)}

TotalPages(total, limit) == total \div limit + (IF total % limit # 0 THEN 1 ELSE 0)

Day == Len(log) - old
Hits(S) == Cardinality({i \in S : log[i].hit})
=============================================================================
