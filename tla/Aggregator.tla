----------------------------- MODULE Aggregator -----------------------------
(***************************************************************************)
(* The aggregator: every hour it folds the log rows of yesterday and today *)
(* into usage_daily and cache_stats_daily, statement by statement, and      *)
(* creates the log's partitions of the months to come, while rows are       *)
(* inserted.  Statements fail, the process stops and starts, and days and   *)
(* months begin in the middle of a run.                                    *)
(***************************************************************************)
EXTENDS Integers, FiniteSets

CONSTANTS
    Aliases,      \* pairs of an API key and a requested model
    Providers,
    HoursPerDay, DaysPerMonth,
    FirstMonths,  \* partitions exist from the start for months 0..FirstMonths
    MonthsAhead,  \* a run creates those of this month and MonthsAhead more
    MaxHour,      \* the clock stops here
    MaxRows,      \* how many rows are made
    MaxFailures   \* how many statements fail

ASSUME CalendarAssumption ==
    /\ HoursPerDay \in Nat \ {0} /\ DaysPerMonth \in Nat \ {0}
    /\ FirstMonths \in Nat /\ MonthsAhead \in Nat
    /\ MaxHour \in Nat /\ MaxRows \in Nat /\ MaxFailures \in Nat

VARIABLES
    hour,       \* hours since the database was made
    up,         \* the process runs
    due,        \* the ticker has fired, or the process started, and no run has begun
    run,        \* the run under way: [at, today, began], or at = "idle"
    rows,       \* request_logs: id -> [day, alias, provider]
    inserting,  \* rows dated and not yet visible to other statements
    usage,      \* usage_daily: <<day, alias>> -> requests
    stats,      \* cache_stats_daily: day -> requests
    partitions, \* the months request_logs has a partition for
    refused,    \* history: the hours in which a row found no partition
    outage      \* history: <<what, h>> when that part of the run of hour h did not
                \* run, because the process was down or the database failed

log == <<rows, inserting, refused>>
tables == <<usage, stats, partitions>>
aggregatorVars == <<hour, up, due, run, log, tables, outage>>

Day(h) == h \div HoursPerDay
Month(h) == Day(h) \div DaysPerMonth
NoRun == [at |-> "idle", today |-> 0, began |-> 0]
Parts == {"usage", "stats", "partition"}
Made == DOMAIN rows \cup {i.id : i \in inserting}

AggregatorInit ==
    /\ hour = 0
    /\ up = FALSE /\ due = FALSE
    /\ run = NoRun
    /\ rows = <<>> /\ inserting = {} /\ refused = {}
    /\ usage = <<>> /\ stats = <<>> /\ partitions = 0..FirstMonths
    /\ outage = Parts \X {0}

-----------------------------------------------------------------------------
(* The log. *)

\* A row is dated before its statement runs, and seen when that has ended.
BeginInsert ==
    /\ up
    /\ Cardinality(Made) < MaxRows
    /\ \E a \in Aliases, p \in Providers :
        inserting' = inserting \cup {[id |-> CHOOSE n \in 1..MaxRows : n \notin Made,
                                      hour |-> hour, alias |-> a, provider |-> p]}
    /\ UNCHANGED <<hour, up, due, run, rows, refused, tables, outage>>

EndInsert ==
    /\ \E i \in inserting :
        /\ Month(i.hour) \in partitions
        /\ inserting' = inserting \ {i}
        /\ rows' = [j \in DOMAIN rows \cup {i.id} |->
                      IF j = i.id
                      THEN [day |-> Day(i.hour), alias |-> i.alias, provider |-> i.provider]
                      ELSE rows[j]]
    /\ UNCHANGED <<hour, up, due, run, refused, tables, outage>>

\* Without a partition for its month the row is lost, and its error is logged.
InsertRefused ==
    /\ \E i \in inserting :
        /\ Month(i.hour) \notin partitions
        /\ inserting' = inserting \ {i}
        /\ refused' = refused \cup {i.hour}
    /\ UNCHANGED <<hour, up, due, run, rows, tables, outage>>

-----------------------------------------------------------------------------
(* The statements of a run. *)

Of(day) == {i \in DOMAIN rows : rows[i].day = day}
OfAlias(day, a) == {i \in Of(day) : rows[i].alias = a}
ProvidersOf(day, a) == {rows[i].provider : i \in OfAlias(day, a)}
AliasesOf(day) == {rows[i].alias : i \in Of(day)}

\* The rows are grouped by alias and provider, the table is keyed by day and alias:
\* two groups of one alias would update one row twice, which is an error.
Ambiguous(day) == \E a \in AliasesOf(day) : Cardinality(ProvidersOf(day, a)) > 1

\* On a conflict the counts are replaced: a day may be aggregated again.
AddUp(old, new) == old + new \* mutant
Replace(old, new) == new
Upsert(table, new) == [k \in DOMAIN table \cup DOMAIN new |->
    IF k \notin DOMAIN new THEN table[k]
    ELSE IF k \in DOMAIN table THEN Replace(table[k], new[k])
    ELSE new[k]]

\* Mutant: on a conflict nothing is done.
AggregateUsageOnce(day) ==
    /\ ~Ambiguous(day)
    /\ usage' = [k \in DOMAIN usage \cup ({day} \X AliasesOf(day)) |->
                   IF k \in DOMAIN usage THEN usage[k] ELSE Cardinality(OfAlias(day, k[2]))]
    /\ UNCHANGED <<stats, partitions>>
AggregateUsageDaily(day) ==
    /\ ~Ambiguous(day)
    /\ usage' = Upsert(usage, [k \in {day} \X AliasesOf(day) |-> Cardinality(OfAlias(day, k[2]))])
    /\ UNCHANGED <<stats, partitions>>
\* One row a day, also for a day of no requests.
AggregateCacheStatsDaily(day) ==
    /\ stats' = Upsert(stats, [d \in {day} |-> Cardinality(Of(day))])
    /\ UNCHANGED <<usage, partitions>>

OnlyAhead(month) == month + 1 .. month + MonthsAhead \* mutant
MonthsFrom(month) == month .. month + MonthsAhead
CreatePartitions ==
    /\ partitions' = partitions \cup MonthsFrom(Month(hour))
    /\ UNCHANGED <<usage, stats>>

Today(day) == day \* mutant
Yesterday(day) == day - 1

\* The statements in their order, with what comes after each.
Steps == {
    [at |-> "usage of yesterday", part |-> "usage", then |-> "stats of yesterday"],
    [at |-> "stats of yesterday", part |-> "stats", then |-> "usage of today"],
    [at |-> "usage of today", part |-> "usage", then |-> "stats of today"],
    [at |-> "stats of today", part |-> "stats", then |-> "partitions"],
    [at |-> "partitions", part |-> "partition", then |-> "idle"]}
DayOf(at) ==
    IF at \in {"usage of yesterday", "stats of yesterday"} THEN Yesterday(run.today)
    ELSE run.today

Continue(step) == run' = IF step.then = "idle" THEN NoRun ELSE [run EXCEPT !.at = step.then]

\* The date is taken once, when a run begins.
BeginRun ==
    /\ up /\ due /\ run = NoRun
    /\ due' = FALSE
    /\ run' = [at |-> "usage of yesterday", today |-> Day(hour), began |-> hour]
    /\ UNCHANGED <<hour, up, log, tables, outage>>

Statement(step) ==
    /\ run.at = step.at
    /\ CASE step.part = "usage" -> AggregateUsageDaily(DayOf(step.at))
         [] step.part = "stats" -> AggregateCacheStatsDaily(DayOf(step.at))
         [] step.part = "partition" -> CreatePartitions
    /\ Continue(step)
    /\ UNCHANGED <<hour, up, due, log, outage>>

\* The error is logged and the run goes on.
UsageIsAmbiguous(step) ==
    /\ run.at = step.at /\ step.part = "usage"
    /\ Ambiguous(DayOf(step.at))
    /\ Continue(step)
    /\ UNCHANGED <<hour, up, due, log, tables, outage>>
\* The bound: statements fail while few outages are recorded.
Failures == Cardinality({o \in outage : o[2] > 0})
StatementFails(step) ==
    /\ run.at = step.at
    /\ Failures < MaxFailures
    /\ outage' = outage \cup {<<step.part, run.began>>}
    /\ Continue(step)
    /\ UNCHANGED <<hour, up, due, log, tables>>

-----------------------------------------------------------------------------
(* The process and the clock. *)

Start ==
    /\ ~up
    /\ up' = TRUE /\ due' = TRUE
    /\ UNCHANGED <<hour, run, log, tables, outage>>

\* The run under way, and rows that are not there yet, are lost.
Stop ==
    /\ up
    /\ up' = FALSE /\ due' = FALSE
    /\ outage' = outage \cup (Parts \X {hour, run.began})
    /\ run' = NoRun
    /\ inserting' = {}
    /\ UNCHANGED <<hour, rows, refused, tables>>

\* An hour is long enough to begin a run, and to end what began before it.
HourPasses ==
    /\ hour < MaxHour
    /\ ~due
    /\ run = NoRun \/ run.began = hour
    /\ \A i \in inserting : i.hour = hour
    /\ hour' = hour + 1
    /\ due' = up
    /\ outage' = IF up THEN outage ELSE outage \cup (Parts \X {hour + 1})
    /\ UNCHANGED <<up, run, log, tables>>

AggregatorNext ==
    \/ BeginInsert \/ InsertRefused \/ EndInsert
    \/ BeginRun
    \/ \E step \in Steps : Statement(step) \/ UsageIsAmbiguous(step) \/ StatementFails(step)
    \/ Start \/ Stop \/ HourPasses

AggregatorSpec == AggregatorInit /\ [][AggregatorNext]_aggregatorVars
-----------------------------------------------------------------------------
(* Properties. *)

\* The run of hour h is over, and the process and the database let it do its part.
Did(part, h) == h < hour /\ (run # NoRun => run.began # h) /\ <<part, h>> \notin outage

\* Rows of a day are all visible an hour into the next day: a run after that counts
\* them for good.
Closed(day, part) ==
    \E h \in 0..MaxHour : Day(h) = day + 1 /\ Day(h - 1) = day + 1 /\ Did(part, h)

\* A day that one run of the next day counted is counted exactly, although rows were
\* inserted late, runs crossed midnight and other runs failed (cron.go:38-49,
\* queries.go:718-738).
StatsAreExact == \A day \in 0..Day(MaxHour) :
    Closed(day, "stats") => day \in DOMAIN stats /\ stats[day] = Cardinality(Of(day))

\* The same of the usage of each alias, on days when no alias was served by two
\* providers (queries.go:694-716).
UsageIsExactFor(day) == \A a \in AliasesOf(day) :
    <<day, a>> \in DOMAIN usage /\ usage[<<day, a>>] = Cardinality(OfAlias(day, a))
UsageIsExact == \A day \in 0..Day(MaxHour) :
    (Closed(day, "usage") /\ ~Ambiguous(day)) => UsageIsExactFor(day)

\* A row is refused for want of a partition only after the first months, and when no
\* run could create partitions for MonthsAhead months (cron.go:52-55, init.sql:185-187).
RefusedAfterLongOutage == \A x \in refused :
    /\ Month(x) > FirstMonths
    /\ \A h \in 0..x - 2 : Month(h) >= Month(x) - MonthsAhead => ~Did("partition", h)

-----------------------------------------------------------------------------
(* What the documents say and the code does not do. *)

\* "Per-model input/output cost tracking with daily aggregations".
DailyAggregations == \A day \in 0..Day(MaxHour) : Closed(day, "usage") => UsageIsExactFor(day)
=============================================================================
