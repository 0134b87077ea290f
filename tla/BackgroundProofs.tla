-------------------------- MODULE BackgroundProofs --------------------------
(***************************************************************************)
(* Theorems about what goes on behind the requests: the semantic cache,    *)
(* for any number of stores, any requests, names and distances, and any    *)
(* lifetime, lag and clock; the aggregator, for any calendar, any number   *)
(* of hours, rows and failures, and any keys, models and providers.        *)
(***************************************************************************)
EXTENDS SemanticCache, Aggregator, FiniteSetTheorems, TLAPS

(* The semantic cache.                                                     *)

Ended == {"done", "broken"}

\* What the proofs need of the types: keys are those of stores that began, their times
\* are times, and there are never more than finitely many.
EntriesTyped ==
    /\ clock \in Nat
    /\ store \in [Stores -> [at : {"idle", "hset", "expire"} \cup Ended,
                             req : Requests \cup {None}, name : Names \cup {None}]]
    /\ Keys \subseteq Stores /\ IsFiniteSet(Keys)
    /\ \A k \in Keys : hashes[k] \in [req : Requests \cup {None}, name : Names \cup {None},
                                     created : Nat, expiry : Nat \cup {Never}]

\* A pipeline that may still run is young, and what has an end has it soon enough.
Expiring == \A k \in Keys :
    /\ store[k].at # "idle"
    /\ store[k].at \in {"hset", "expire"} => clock <= hashes[k].created + MaxLag
    /\ store[k].at = "done" => hashes[k].expiry # Never
    /\ hashes[k].expiry # Never =>
         clock <= hashes[k].expiry /\ hashes[k].expiry <= hashes[k].created + MaxLag + TTL

\* What a walk over the keys still owes: of the keys that were settled at its beginning
\* and are there, those it has not returned.
Flushing ==
    /\ flush \in [at : {"idle", "scan", "del", "done", "failed"}, todo : SUBSET Stores,
                  batch : SUBSET Stores, before : SUBSET Stores, kept : BOOLEAN]
    /\ \A k \in flush.before : store[k].at \in Ended
    /\ flush.at \in {"scan", "done"} => flush.batch = {}
    /\ flush.at = "done" => flush.todo = {}
    /\ flush.at \in {"scan", "del", "done"} /\ ~flush.kept =>
         flush.before \cap Keys \subseteq flush.todo \cup flush.batch

Counting ==
    /\ count \in [at : {"idle", "scan", "done", "failed"}, todo : SUBSET Stores,
                  before : SUBSET Stores, n : Nat]
    /\ \A k \in count.before : store[k].at \in Ended
    /\ count.at = "done" => count.todo = {}
    /\ count.at \in {"scan", "done"} =>
         Cardinality((count.before \cap Keys) \ count.todo) <= count.n

CacheInv == EntriesTyped /\ Expiring /\ Flushing /\ Counting

LEMMA InitCacheInv == Init => CacheInv
  <1> SUFFICES ASSUME Init PROVE CacheInv
    OBVIOUS
  <1>1. Keys = {} /\ clock = 0 /\ store = [s \in Stores |-> Idle]
    BY DEF Init, Keys
  <1>2. IsFiniteSet({}) /\ Cardinality({}) = 0
    BY FS_EmptySet
  <1>3. EntriesTyped
    BY <1>1, <1>2 DEF EntriesTyped, Idle
  <1>4. Expiring
    BY <1>1 DEF Expiring
  <1>5. Flushing
    BY DEF Init, Flushing, Resting
  <1>6. Counting
    BY DEF Init, Counting, NoCount
  <1> QED
    BY <1>3, <1>4, <1>5, <1>6 DEF CacheInv

-----------------------------------------------------------------------------
(* Entries and their times. *)

\* A step keeps the types and the times of the entries.
LEMMA NextExpiring ==
    ASSUME EntriesTyped, Expiring, [Next]_vars
    PROVE  EntriesTyped' /\ Expiring'
  <1> USE DEF EntriesTyped, Expiring, Ended
  <1>n. TTL \in Nat /\ MaxLag \in Nat /\ Never \notin Nat
    BY CacheAssumption DEF Never
  <1>1. ASSUME NEW s \in Stores, NEW req \in Requests, NEW name \in Names, Begin(s, req, name)
        PROVE  EntriesTyped' /\ Expiring'
    <2>1. Keys' = Keys /\ hashes' = hashes /\ clock' = clock /\ store[s].at = "idle"
            /\ store' = [store EXCEPT ![s] = [at |-> "hset", req |-> req, name |-> name]]
      BY <1>1 DEF Begin, Keys
    <2> QED
      BY <2>1
  <1>2. ASSUME NEW s \in Stores, HSet(s) PROVE EntriesTyped' /\ Expiring'
    <2>1. /\ Keys' = Keys \cup {s}
          /\ \A k \in Keys : hashes'[k] = hashes[k]
          /\ s \notin Keys => hashes'[s] = [req |-> store[s].req, name |-> store[s].name,
                                            created |-> clock, expiry |-> Never]
      BY <1>2 DEF HSet, Written, Keys
    <2>2. /\ store[s].at = "hset" /\ clock' = clock
          /\ store' = [store EXCEPT ![s].at = "expire"]
      BY <1>2 DEF HSet
    <2>3. IsFiniteSet(Keys \cup {s})
      BY FS_AddElement
    <2>4. EntriesTyped'
      BY <2>1, <2>2, <2>3
    <2>5. Expiring'
      BY <1>n, <2>1, <2>2
    <2> QED
      BY <2>4, <2>5
  <1>3. ASSUME NEW s \in Stores, Expire(s) PROVE EntriesTyped' /\ Expiring'
    <2>1. /\ Keys' = Keys /\ clock' = clock
          /\ \A k \in Keys \ {s} : hashes'[k] = hashes[k]
          /\ s \in Keys => hashes'[s] = [hashes[s] EXCEPT !.expiry = clock + TTL]
      BY <1>3 DEF Expire, Keys
    <2>2. PICK at \in {"done", "hset"} : store' = [store EXCEPT ![s].at = at]
      BY <1>3 DEF Expire
    <2>3. store[s].at = "expire"
      BY <1>3 DEF Expire
    <2>4. /\ \A k \in Stores \ {s} : store'[k] = store[k]
          /\ store'[s].at = at
      BY <2>2
    <2>5. EntriesTyped'
      BY <1>n, <2>1, <2>2
    <2>6. ASSUME NEW k \in Keys
          PROVE  /\ store'[k].at # "idle"
                 /\ store'[k].at \in {"hset", "expire"} => clock <= hashes'[k].created + MaxLag
                 /\ store'[k].at = "done" => hashes'[k].expiry # Never
                 /\ hashes'[k].expiry # Never =>
                      /\ clock <= hashes'[k].expiry
                      /\ hashes'[k].expiry <= hashes'[k].created + MaxLag + TTL
      <3>1. CASE k # s
        BY <2>1, <2>4, <3>1
      <3>2. CASE k = s
        <4>1. hashes'[k].expiry = clock + TTL /\ hashes'[k].created = hashes[k].created
                /\ hashes[k].created \in Nat /\ clock <= hashes[k].created + MaxLag
          BY <2>1, <2>3, <3>2
        <4>2. store'[k].at = at
          BY <2>4, <3>2
        <4>3. \A c, d, l, t \in Nat : d <= c + l => d + t \in Nat /\ d <= d + t /\ d + t <= c + l + t
          OBVIOUS
        <4> QED
          BY <1>n, <2>3, <4>1, <4>2, <4>3
      <3> QED
        BY <3>1, <3>2
    <2> QED
      BY <2>1, <2>5, <2>6
  <1>4. ASSUME NEW s \in Stores, Resend(s) \/ BreakOff(s) PROVE EntriesTyped' /\ Expiring'
    <2>1. Keys' = Keys /\ hashes' = hashes /\ clock' = clock
            /\ store[s].at \in {"hset", "expire"}
            /\ \E at \in {"hset", "broken"} : store' = [store EXCEPT ![s].at = at]
      BY <1>4 DEF Resend, BreakOff, Keys
    <2> QED
      BY <2>1
  <1>5. ASSUME store' = store, clock' = clock, NEW S, hashes' = Without(S)
        PROVE  EntriesTyped' /\ Expiring'
    <2>1. Keys' = Keys \ S /\ \A k \in Keys' : hashes'[k] = hashes[k]
      BY <1>5 DEF Without, Keys
    <2>2. IsFiniteSet(Keys')
      BY <2>1, FS_Subset
    <2>3. EntriesTyped'
      BY <1>5, <2>1, <2>2
    <2> QED
      BY <1>5, <2>1, <2>3
  <1>6. CASE Tick
    <2>1. /\ clock' = clock + 1 /\ Keys' = Keys /\ store' = store /\ hashes' = hashes
          /\ \A k \in Keys : store[k].at \in {"hset", "expire"} => clock < hashes[k].created + MaxLag
      BY <1>6 DEF Tick, Keys
    <2>2. \A k \in Keys : hashes[k].expiry # Never => clock < hashes[k].expiry
      BY <1>6 DEF Tick, Overdue
    <2>3. EntriesTyped'
      BY <2>1
    <2>4. Expiring'
      BY <1>n, <2>1, <2>2
    <2> QED
      BY <2>3, <2>4
  <1>7. CASE UNCHANGED <<clock, store, hashes>>
    BY <1>7 DEF Keys
  <1> QED
    BY <1>1, <1>2, <1>3, <1>4, <1>5, <1>6, <1>7
       DEF Next, StoreStep, LookupHits, KeyExpires, BeginFlush, Scan, ScanFails, Del, DelFails,
           BeginCount, CountScan, CountFails, vars

-----------------------------------------------------------------------------
(* Walks over the keys. *)

\* A store that is over does nothing more, and only a store that is not adds a key.
LEMMA SettledStay ==
    ASSUME EntriesTyped, [Next]_vars
    PROVE  /\ \A s \in Stores : store[s].at \in Ended => store'[s] = store[s]
           /\ \A k \in Keys' \ Keys : store[k].at = "hset"
  <1> USE DEF EntriesTyped, Ended
  <1>1. ASSUME NEW s \in Stores, NEW req \in Requests, NEW name \in Names, Begin(s, req, name)
        PROVE  /\ \A t \in Stores : store[t].at \in Ended => store'[t] = store[t]
               /\ \A k \in Keys' \ Keys : store[k].at = "hset"
    BY <1>1 DEF Begin, Keys
  <1>2. ASSUME NEW s \in Stores, HSet(s)
        PROVE  /\ \A t \in Stores : store[t].at \in Ended => store'[t] = store[t]
               /\ \A k \in Keys' \ Keys : store[k].at = "hset"
    BY <1>2 DEF HSet, Written, Keys
  <1>3. ASSUME NEW s \in Stores, Expire(s) \/ Resend(s) \/ BreakOff(s)
        PROVE  /\ \A t \in Stores : store[t].at \in Ended => store'[t] = store[t]
               /\ \A k \in Keys' \ Keys : store[k].at = "hset"
    BY <1>3 DEF Expire, Resend, BreakOff, Keys
  <1>4. ASSUME store' = store, \/ hashes' = hashes
                               \/ \E S : hashes' = Without(S)
        PROVE  /\ \A t \in Stores : store[t].at \in Ended => store'[t] = store[t]
               /\ \A k \in Keys' \ Keys : store[k].at = "hset"
    BY <1>4 DEF Without, Keys
  <1> QED
    BY <1>1, <1>2, <1>3, <1>4
       DEF Next, StoreStep, LookupHits, KeyExpires, Tick, BeginFlush, Scan, ScanFails, Del,
           DelFails, BeginCount, CountScan, CountFails, vars

\* So a step leaves the walk's set settled, and adds no key to it.
LEMMA SettledSetStays ==
    ASSUME EntriesTyped, [Next]_vars, NEW S \in SUBSET Stores,
           \A k \in S : store[k].at \in Ended
    PROVE  /\ \A k \in S : store'[k].at \in Ended
           /\ S \cap Keys' \subseteq S \cap Keys
  BY SettledStay DEF Ended

LEMMA SettledIsSettled ==
    ASSUME EntriesTyped
    PROVE  Settled \in SUBSET Stores /\ \A k \in Settled : store[k].at \in Ended
  BY DEF EntriesTyped, Settled, Ended

LEMMA NextFlushing ==
    ASSUME EntriesTyped, Flushing, [Next]_vars
    PROVE  Flushing'
  <1>k. Keys \in SUBSET Stores
    BY DEF EntriesTyped
  <1>s. /\ \A k \in flush.before : store'[k].at \in Ended
        /\ flush.before \cap Keys' \subseteq flush.before \cap Keys
    BY SettledSetStays DEF Flushing
  <1>1. CASE flush' = flush
    BY <1>1, <1>s DEF Flushing
  <1>2. CASE BeginFlush
    <2>1. flush' = [at |-> "scan", todo |-> Settled, batch |-> {}, before |-> Settled,
                    kept |-> FALSE]
      BY <1>2 DEF BeginFlush, Resting
    <2>2. \A k \in Settled : store'[k].at \in Ended
      BY <1>2, SettledIsSettled DEF BeginFlush
    <2> QED
      BY <2>1, <2>2, SettledIsSettled DEF Flushing
  <1>3. CASE Scan
    <2>1. PICK batch \in SUBSET Keys : flush' = [flush EXCEPT !.at = "del", !.batch = batch,
                                                 !.todo = Remaining(@, batch)]
      BY <1>3 DEF Scan
    <2>2. /\ flush.at = "scan" /\ flush.batch = {} /\ Keys' = Keys
      BY <1>3 DEF Scan, Flushing, Keys
    <2>3. flush' = [at |-> "del", todo |-> (flush.todo \ batch) \cap Keys, batch |-> batch,
                    before |-> flush.before, kept |-> flush.kept]
      BY <2>1 DEF Flushing, Remaining
    <2> QED
      BY <1>k, <1>s, <2>2, <2>3 DEF Flushing
  <1>4. CASE ScanFails
    BY <1>4 DEF ScanFails, Resting, Flushing
  <1>5. CASE Del \/ DelFails
    <2>1. /\ flush.at = "del"
          /\ \E at \in AfterPage : \E kept \in BOOLEAN :
               /\ flush' = [flush EXCEPT !.at = at, !.batch = {}, !.kept = kept]
               /\ kept \/ (kept = flush.kept /\ Del)
      <3>1. CASE Del
        <4>1. PICK at \in AfterPage : flush' = [flush EXCEPT !.at = at, !.batch = {}]
          BY <3>1 DEF Del
        <4>2. [flush EXCEPT !.at = at, !.batch = {}]
                = [flush EXCEPT !.at = at, !.batch = {}, !.kept = flush.kept]
          BY DEF Flushing
        <4>3. flush.kept \in BOOLEAN /\ flush.at = "del"
          BY <3>1 DEF Del, Flushing
        <4>4. flush' = [flush EXCEPT !.at = at, !.batch = {}, !.kept = flush.kept]
          BY <4>1, <4>2
        <4> QED
          BY <3>1, <4>3, <4>4
      <3>2. CASE DelFails
        BY <3>2 DEF DelFails
      <3> QED
        BY <1>5, <3>1, <3>2
    <2>2. PICK at \in AfterPage, kept \in BOOLEAN :
               /\ flush' = [flush EXCEPT !.at = at, !.batch = {}, !.kept = kept]
               /\ kept \/ (kept = flush.kept /\ Del)
      BY <2>1
    <2>3. flush' = [at |-> at, todo |-> flush.todo, batch |-> {}, before |-> flush.before,
                    kept |-> kept]
      BY <2>2 DEF Flushing
    <2>4. at \in {"scan", "done"} /\ (at = "done" => flush.todo = {})
      BY DEF AfterPage
    <2>5. Del => Keys' = Keys \ flush.batch
      BY DEF Del, Without, Keys
    <2>6. ~kept => flush.before \cap Keys' \subseteq flush.todo
      BY <1>s, <2>1, <2>2, <2>5 DEF Flushing
    <2> QED
      BY <1>s, <2>3, <2>4, <2>6 DEF Flushing
  <1> QED
    BY <1>1, <1>2, <1>3, <1>4, <1>5
       DEF Next, StoreStep, Begin, HSet, Expire, Resend, BreakOff, LookupHits, KeyExpires, Tick,
           BeginCount, CountScan, CountFails, vars

LEMMA NextCounting ==
    ASSUME EntriesTyped, Counting, [Next]_vars
    PROVE  Counting'
  <1> DEFINE Seen == (count.before \cap Keys) \ count.todo
  <1>k. Keys \in SUBSET Stores /\ IsFiniteSet(Keys)
    BY DEF EntriesTyped
  <1>s. /\ \A k \in count.before : store'[k].at \in Ended
        /\ count.before \cap Keys' \subseteq count.before \cap Keys
    BY SettledSetStays DEF Counting
  <1>f. IsFiniteSet(Seen) /\ Cardinality(Seen) \in Nat
    BY <1>k, FS_Subset, FS_CardinalityType
  <1>1. CASE count' = count
    <2>1. (count.before \cap Keys') \ count.todo \subseteq Seen
      BY <1>s
    <2>2. Cardinality((count.before \cap Keys') \ count.todo) <= Cardinality(Seen)
      BY <1>f, <2>1, FS_Subset
    <2>3. Cardinality((count.before \cap Keys') \ count.todo) \in Nat
      BY <1>f, <2>1, FS_Subset, FS_CardinalityType
    <2>4. count.at \in {"scan", "done"} =>
            Cardinality((count.before \cap Keys') \ count.todo) <= count.n
      BY <1>f, <2>2, <2>3 DEF Counting
    <2> QED
      BY <1>1, <1>s, <2>4 DEF Counting
  <1>2. CASE BeginCount
    <2>1. count' = [at |-> "scan", todo |-> Settled, before |-> Settled, n |-> 0]
      BY <1>2 DEF BeginCount, NoCount
    <2>2. \A k \in Settled : store'[k].at \in Ended
      BY <1>2, SettledIsSettled DEF BeginCount
    <2>3. Cardinality((count'.before \cap Keys') \ count'.todo) <= count'.n
      <3>1. (count'.before \cap Keys') \ count'.todo = {} /\ count'.n = 0
        BY <2>1
      <3>2. Cardinality({}) = 0
        BY FS_EmptySet
      <3> QED
        BY <3>1, <3>2
    <2> QED
      BY <2>1, <2>2, <2>3, SettledIsSettled DEF Counting
  <1>3. CASE CountScan
    <2>1. PICK batch \in SUBSET Keys :
            \E at \in {"scan"} \cup IF Remaining(count.todo, batch) = {} THEN {"done"} ELSE {} :
              count' = [count EXCEPT !.at = at, !.todo = Remaining(@, batch),
                                     !.n = CountPage(@, Cardinality(batch))]
      BY <1>3 DEF CountScan
    <2>2. PICK at \in {"scan"} \cup IF Remaining(count.todo, batch) = {} THEN {"done"} ELSE {} :
              count' = [count EXCEPT !.at = at, !.todo = Remaining(@, batch),
                                     !.n = CountPage(@, Cardinality(batch))]
      BY <2>1
    <2>3. count' = [at |-> at, todo |-> (count.todo \ batch) \cap Keys,
                    before |-> count.before, n |-> count.n + Cardinality(batch)]
      BY <2>2 DEF Counting, Remaining, CountPage
    <2>4. count.at = "scan" /\ Keys' = Keys
      BY <1>3 DEF CountScan, Keys
    <2>5. at \in {"scan", "done"} /\ (at = "done" => (count.todo \ batch) \cap Keys = {})
      BY DEF Remaining
    <2>6. IsFiniteSet(batch) /\ Cardinality(batch) \in Nat
      BY <1>k, FS_Subset, FS_CardinalityType
    <2> DEFINE SeenNow == (count.before \cap Keys) \ ((count.todo \ batch) \cap Keys)
    <2>7. SeenNow \subseteq Seen \cup batch
      OBVIOUS
    <2>8. /\ IsFiniteSet(Seen \cup batch)
          /\ Cardinality(Seen \cup batch) \in Nat
          /\ Cardinality(Seen \cup batch) <= Cardinality(Seen) + Cardinality(batch)
      <3>1. /\ IsFiniteSet(Seen \cup batch) /\ IsFiniteSet(Seen \cap batch)
            /\ Cardinality(Seen \cup batch)
                 = Cardinality(Seen) + Cardinality(batch) - Cardinality(Seen \cap batch)
        BY <1>f, <2>6, FS_Union, FS_Intersection
      <3>2. Cardinality(Seen \cap batch) \in Nat /\ Cardinality(Seen \cup batch) \in Nat
        BY <3>1, FS_CardinalityType
      <3> HIDE DEF Seen
      <3> QED
        BY <1>f, <2>6, <3>1, <3>2
    <2>9. Cardinality(SeenNow) <= Cardinality(Seen \cup batch) /\ Cardinality(SeenNow) \in Nat
      BY <2>7, <2>8, FS_Subset, FS_CardinalityType
    <2>10. Cardinality(Seen) <= count.n /\ count.n \in Nat
      BY <2>4 DEF Counting
    <2>11. Cardinality(SeenNow) <= count.n + Cardinality(batch)
      <3> HIDE DEF Seen, SeenNow
      <3> QED
        BY <1>f, <2>6, <2>8, <2>9, <2>10
    <2>12. count.n + Cardinality(batch) \in Nat
      BY <2>6, <2>10
    <2> QED
      BY <1>k, <1>s, <2>3, <2>4, <2>5, <2>11, <2>12 DEF Counting
  <1>4. CASE CountFails
    BY <1>4 DEF CountFails, NoCount, Counting
  <1> QED
    BY <1>1, <1>2, <1>3, <1>4
       DEF Next, StoreStep, Begin, HSet, Expire, Resend, BreakOff, LookupHits, KeyExpires, Tick,
           BeginFlush, Scan, ScanFails, Del, DelFails, vars

-----------------------------------------------------------------------------
LEMMA CacheInvariant == Spec => []CacheInv
  <1>1. CacheInv /\ [Next]_vars => CacheInv'
    BY NextExpiring, NextFlushing, NextCounting DEF CacheInv
  <1> QED
    BY <1>1, InitCacheInv, PTL DEF Spec

\* Whatever breaks off, is sent again, flushed or counted in between, a response whose
\* pipeline went through has an end: one lifetime after its EXPIRE, which came at most
\* MaxLag after the entry was made.
THEOREM StoredEntriesExpire == Spec => []StoredThenExpires
  <1>1. CacheInv => StoredThenExpires
    <2> SUFFICES ASSUME CacheInv, NEW k \in Keys, store[k].at = "done"
                 PROVE  /\ hashes[k].expiry # Never
                        /\ clock <= hashes[k].created + MaxLag + TTL
      BY DEF StoredThenExpires
    <2>1. /\ hashes[k].expiry # Never /\ clock <= hashes[k].expiry
          /\ hashes[k].expiry <= hashes[k].created + MaxLag + TTL
      BY DEF CacheInv, Expiring
    <2>2. clock \in Nat /\ hashes[k].expiry \in Nat /\ hashes[k].created + MaxLag + TTL \in Nat
      BY <2>1, CacheAssumption DEF CacheInv, EntriesTyped
    <2> QED
      BY <2>1, <2>2
  <1> QED
    BY <1>1, CacheInvariant, PTL

\* Among stores, expiries and counts, a flush whose deletions succeed leaves no entry whose
\* store was over when it began.
THEOREM FlushesAreComplete == Spec => []FlushIsComplete
  <1>1. CacheInv => FlushIsComplete
    BY DEF CacheInv, Flushing, FlushIsComplete
  <1> QED
    BY <1>1, CacheInvariant, PTL

\* Whatever the pages of SCAN return or repeat, a count is at least the number of the
\* entries that were there from its beginning to its end.
THEOREM CountsMissNone == Spec => []CountMissesNone
  <1>1. CacheInv => CountMissesNone
    <2> SUFFICES ASSUME CacheInv, count.at = "done"
                 PROVE  Cardinality(count.before \cap Keys) <= count.n
      BY DEF CountMissesNone
    <2>1. count.todo = {} /\ Cardinality((count.before \cap Keys) \ count.todo) <= count.n
      BY DEF CacheInv, Counting
    <2>2. (count.before \cap Keys) \ count.todo = count.before \cap Keys
      BY <2>1
    <2> QED
      BY <2>1, <2>2
  <1> QED
    BY <1>1, CacheInvariant, PTL

-----------------------------------------------------------------------------
(* The aggregator.                                                         *)

Stages == {"usage of yesterday", "stats of yesterday", "usage of today", "stats of today",
           "partitions"}

\* Ids are fresh: a row is never written over.
Typed ==
    /\ hour \in Nat /\ up \in BOOLEAN /\ due \in BOOLEAN
    /\ run \in [at : Stages \cup {"idle"}, today : Int, began : Nat]
    /\ DOMAIN rows \subseteq 1..MaxRows
    /\ \A i \in inserting : i.id \in (1..MaxRows) \ DOMAIN rows /\ i.hour \in Nat
    /\ \A i, j \in inserting : i.id = j.id => i = j

\* Statements and runs take less than an hour, and a run keeps the day it began.
Timely ==
    /\ \A i \in inserting : i.hour <= hour /\ hour <= i.hour + 1
    /\ run.at # "idle" =>
         up /\ run.began <= hour /\ hour <= run.began + 1 /\ run.today = Day(run.began)
    /\ run.at = "idle" => run = NoRun

\* The stages of a run up to the statement that does the part: of yesterday's rows.
Last(part) == IF part = "usage" THEN "usage of yesterday"
              ELSE IF part = "stats" THEN "stats of yesterday" ELSE "partitions"
Ahead(part) == IF part = "usage" THEN {"usage of yesterday"}
               ELSE IF part = "stats" THEN {"usage of yesterday", "stats of yesterday"}
               ELSE Stages

\* The part of the run of hour h is still to come, or it will not come.
Owed(part, h) ==
    \/ h = hour /\ due
    \/ run.began = h /\ run.at \in Ahead(part)
    \/ <<part, h>> \in outage

StatsRight(day) == day \in DOMAIN stats /\ stats[day] = Cardinality(Of(day))
UsageRight(day) == Ambiguous(day) \/ UsageIsExactFor(day)
MonthsRight(h) == Month(h + 1) .. Month(h) + MonthsAhead \subseteq partitions

\* What is not owed was done, and is right.
Runs ==
    /\ \A h \in 1..hour : Day(h - 1) = Day(h) =>
         /\ Owed("usage", h) \/ UsageRight(Day(h) - 1)
         /\ Owed("stats", h) \/ StatsRight(Day(h) - 1)
    /\ \A h \in 0..hour : Owed("partition", h) \/ MonthsRight(h)

\* A row is refused when no run of the months before could create its partition, and
\* none will.
Refusals ==
    /\ 0..FirstMonths \subseteq partitions
    /\ \A x \in refused :
         /\ x \in 0..hour /\ Month(x) > FirstMonths
         /\ \A h \in 0..x - 2 :
              Month(h) >= Month(x) - MonthsAhead => <<"partition", h>> \in outage

AggInv == Typed /\ Timely /\ Runs /\ Refusals

-----------------------------------------------------------------------------
(* The calendar. *)

\* A later hour is not of an earlier day or month, and an hour makes at most one day.
LEMMA DaysGoOn ==
    ASSUME NEW a \in Int, NEW b \in Int, a <= b
    PROVE  /\ Day(a) \in Int /\ Day(b) \in Int /\ Day(a) <= Day(b)
           /\ Month(a) \in Int /\ Month(b) \in Int /\ Month(a) <= Month(b)
           /\ a \in Nat => Day(a) \in Nat /\ Month(a) \in Nat
  <1>1. ASSUME NEW d \in Nat \ {0}, NEW x \in Int, NEW y \in Int, x <= y
        PROVE  /\ x \div d \in Int /\ y \div d \in Int /\ x \div d <= y \div d
               /\ x \in Nat => x \div d \in Nat
    BY <1>1
  <1>2. Day(a) \in Int /\ Day(b) \in Int /\ Day(a) <= Day(b) /\ (a \in Nat => Day(a) \in Nat)
    BY <1>1, CalendarAssumption DEF Day
  <1>3. Month(a) \in Int /\ Month(b) \in Int /\ Month(a) <= Month(b)
          /\ (Day(a) \in Nat => Month(a) \in Nat)
    BY <1>1, <1>2, CalendarAssumption DEF Month
  <1> QED
    BY <1>2, <1>3

\* The clock starts with the first day.
LEMMA FirstDay == Day(0) = 0 /\ Month(0) = 0
  BY CalendarAssumption DEF Day, Month

\* No run was made and no row, and the hour before the first start is an outage.
LEMMA InitAggInv == AggregatorInit => AggInv
  <1> SUFFICES ASSUME AggregatorInit PROVE AggInv
    OBVIOUS
  <1> USE DEF AggregatorInit
  <1>a. NoRun \in [at : Stages \cup {"idle"}, today : Int, began : Nat] /\ DOMAIN <<>> = {}
    BY DEF NoRun
  <1>1. Typed
    BY <1>a DEF Typed
  <1>2. Timely
    BY DEF Timely, NoRun
  <1>3. \A h \in 0..hour : Owed("partition", h)
    BY DEF Owed, Parts
  <1>4. Runs
    BY <1>3 DEF Runs
  <1>5. Refusals
    BY DEF Refusals
  <1> QED
    BY <1>1, <1>2, <1>4, <1>5 DEF AggInv

-----------------------------------------------------------------------------
(* Steps. *)

\* The stages in their order.
LEMMA StepShape ==
    ASSUME NEW step \in Steps
    PROVE  \/ step.at = "usage of yesterday" /\ step.part = "usage"
                /\ step.then = "stats of yesterday"
           \/ step.at = "stats of yesterday" /\ step.part = "stats"
                /\ step.then = "usage of today"
           \/ step.at = "usage of today" /\ step.part = "usage" /\ step.then = "stats of today"
           \/ step.at = "stats of today" /\ step.part = "stats" /\ step.then = "partitions"
           \/ step.at = "partitions" /\ step.part = "partition" /\ step.then = "idle"
  <1>1. CASE step = [at |-> "usage of yesterday", part |-> "usage", then |-> "stats of yesterday"]
    BY <1>1
  <1>2. CASE step = [at |-> "stats of yesterday", part |-> "stats", then |-> "usage of today"]
    BY <1>2
  <1>3. CASE step = [at |-> "usage of today", part |-> "usage", then |-> "stats of today"]
    BY <1>3
  <1>4. CASE step = [at |-> "stats of today", part |-> "stats", then |-> "partitions"]
    BY <1>4
  <1>5. CASE step = [at |-> "partitions", part |-> "partition", then |-> "idle"]
    BY <1>5
  <1> QED
    BY <1>1, <1>2, <1>3, <1>4, <1>5 DEF Steps

\* What a run goes on with.
LEMMA Continues ==
    ASSUME Typed, Timely, NEW step \in Steps, run.at = step.at, Continue(step)
    PROVE  /\ run.at # "idle" /\ run.at \in Stages
           /\ step.part \in Parts
           /\ \/ run' = NoRun /\ run.at = "partitions"
              \/ /\ run' = [at |-> step.then, today |-> run.today, began |-> run.began]
                 /\ run.at # "partitions" /\ step.then \in Stages
  <1>1. run = [at |-> run.at, today |-> run.today, began |-> run.began]
    BY DEF Typed
  <1>2. step.then # "idle" =>
          run' = [at |-> step.then, today |-> run.today, began |-> run.began]
    BY <1>1 DEF Continue
  <1>3. step.then = "idle" => run' = NoRun
    BY DEF Continue
  <1> QED
    BY <1>2, <1>3, StepShape DEF Stages, Parts

\* A number is left for the id of a row as long as not all rows are made.
LEMMA IdsAreLeft ==
    ASSUME Typed, Cardinality(Made) < MaxRows
    PROVE  \E n \in 1..MaxRows : n \notin Made
  <1> SUFFICES ASSUME 1..MaxRows \subseteq Made PROVE FALSE
    OBVIOUS
  <1>1. Made = 1..MaxRows
    BY DEF Typed, Made
  <1>2. Cardinality(1..MaxRows) = MaxRows
    BY FS_Interval, CalendarAssumption
  <1> QED
    BY <1>1, <1>2, CalendarAssumption

\* A new row gets an id of its own.
LEMMA InsertsAreFresh ==
    ASSUME Typed, BeginInsert
    PROVE  \E i : /\ inserting' = inserting \cup {i} /\ i.hour = hour
                  /\ i.id \in 1..MaxRows /\ i.id \notin DOMAIN rows
                  /\ \A j \in inserting : j.id # i.id
  <1>1. PICK a \in Aliases, p \in Providers :
          inserting' = inserting \cup {[id |-> CHOOSE n \in 1..MaxRows : n \notin Made,
                                        hour |-> hour, alias |-> a, provider |-> p]}
    BY DEF BeginInsert
  <1> DEFINE n == CHOOSE n \in 1..MaxRows : n \notin Made
             i == [id |-> n, hour |-> hour, alias |-> a, provider |-> p]
  <1>2. n \in 1..MaxRows /\ n \notin Made
    BY IdsAreLeft DEF BeginInsert
  <1>3. i.id = n /\ i.hour = hour
    OBVIOUS
  <1>4. inserting' = inserting \cup {i}
    BY <1>1
  <1> HIDE DEF i, n
  <1> QED
    BY <1>2, <1>3, <1>4 DEF Made

\* Every step keeps the types.
LEMMA NextTyped ==
    ASSUME Typed, Timely, [AggregatorNext]_aggregatorVars
    PROVE  Typed'
  <1>1. CASE BeginInsert
    <2>1. PICK i : /\ inserting' = inserting \cup {i} /\ i.hour = hour
                   /\ i.id \in 1..MaxRows /\ i.id \notin DOMAIN rows
                   /\ \A j \in inserting : j.id # i.id
      BY <1>1, InsertsAreFresh
    <2>2. UNCHANGED <<hour, up, due, run, rows>>
      BY <1>1 DEF BeginInsert
    <2> QED
      BY <2>1, <2>2 DEF Typed
  <1>2. CASE EndInsert
    <2>1. PICK i \in inserting :
            /\ inserting' = inserting \ {i}
            /\ rows' = [j \in DOMAIN rows \cup {i.id} |->
                          IF j = i.id
                          THEN [day |-> Day(i.hour), alias |-> i.alias, provider |-> i.provider]
                          ELSE rows[j]]
      BY <1>2 DEF EndInsert
    <2>2. DOMAIN rows' = DOMAIN rows \cup {i.id}
      BY <2>1
    <2>3. UNCHANGED <<hour, up, due, run>>
      BY <1>2 DEF EndInsert
    <2> QED
      BY <2>1, <2>2, <2>3 DEF Typed
  <1>3. CASE InsertRefused
    BY <1>3 DEF InsertRefused, Typed
  <1>4. CASE BeginRun
    <2>1. Day(hour) \in Int
      BY DaysGoOn DEF Typed
    <2> QED
      BY <1>4, <2>1 DEF BeginRun, Typed, log, Stages
  <1>5. ASSUME NEW step \in Steps, Statement(step) \/ UsageIsAmbiguous(step) \/ StatementFails(step)
        PROVE  Typed'
    <2>1. run.at = step.at /\ Continue(step) /\ UNCHANGED <<hour, up, due, rows, inserting>>
      BY <1>5 DEF Statement, UsageIsAmbiguous, StatementFails, log
    <2>2. run' \in [at : Stages \cup {"idle"}, today : Int, began : Nat]
      BY <2>1, Continues DEF Typed, NoRun
    <2> QED
      BY <2>1, <2>2 DEF Typed
  <1>6. CASE Start
    BY <1>6 DEF Start, Typed, log
  <1>7. CASE Stop
    <2>1. UNCHANGED <<hour, rows>> /\ up' = FALSE /\ due' = FALSE /\ run' = NoRun
            /\ inserting' = {}
      BY <1>7 DEF Stop
    <2>2. NoRun \in [at : Stages \cup {"idle"}, today : Int, began : Nat]
      BY DEF NoRun
    <2> QED
      BY <2>1, <2>2 DEF Typed
  <1>8. CASE HourPasses
    BY <1>8 DEF HourPasses, Typed, log
  <1>9. CASE UNCHANGED aggregatorVars
    BY <1>9 DEF aggregatorVars, log, Typed
  <1> QED
    BY <1>1, <1>2, <1>3, <1>4, <1>5, <1>6, <1>7, <1>8, <1>9 DEF AggregatorNext

\* Every step keeps statements and runs to their time.
LEMMA NextTimely ==
    ASSUME Typed, Typed', Timely, [AggregatorNext]_aggregatorVars
    PROVE  Timely'
  <1> USE DEF Timely
  <1>1. CASE BeginInsert
    <2>1. PICK i : inserting' = inserting \cup {i} /\ i.hour = hour
      BY <1>1, InsertsAreFresh
    <2>2. UNCHANGED <<hour, up, run>> /\ hour \in Nat
      BY <1>1 DEF BeginInsert, Typed
    <2> QED
      BY <2>1, <2>2
  <1>2. CASE EndInsert \/ InsertRefused
    <2>1. inserting' \subseteq inserting /\ UNCHANGED <<hour, up, run>>
      BY <1>2 DEF EndInsert, InsertRefused
    <2> QED
      BY <2>1
  <1>3. CASE BeginRun
    <2>1. hour' = hour /\ up' = up /\ inserting' = inserting /\ up
            /\ hour \in Nat /\ hour' \in Nat /\ run'.began \in Nat
      BY <1>3 DEF BeginRun, Typed, log
    <2>2. run'.began = hour /\ run'.today = Day(hour)
      BY <1>3 DEF BeginRun
    <2>3. \A i \in inserting' : i.hour <= hour' /\ hour' <= i.hour + 1
      BY <2>1
    <2>4. up' /\ run'.began <= hour' /\ hour' <= run'.began + 1
      BY <2>1, <2>2
    <2>5. run'.today = Day(run'.began)
      BY <2>2
    <2>6. run'.at # "idle"
      BY <1>3 DEF BeginRun
    <2> QED
      BY <2>3, <2>4, <2>5, <2>6
  <1>4. ASSUME NEW step \in Steps, Statement(step) \/ UsageIsAmbiguous(step) \/ StatementFails(step)
        PROVE  Timely'
    <2>1. run.at = step.at /\ Continue(step) /\ UNCHANGED <<hour, up, inserting>>
      BY <1>4 DEF Statement, UsageIsAmbiguous, StatementFails, log
    <2>2. run.at # "idle"
            /\ (run' = NoRun \/ \E s \in Stages :
                  run' = [at |-> s, today |-> run.today, began |-> run.began])
      BY <2>1, Continues
    <2>3. CASE run' = NoRun
      BY <2>1, <2>3 DEF NoRun
    <2>4. ASSUME NEW s \in Stages,
                 run' = [at |-> s, today |-> run.today, began |-> run.began]
          PROVE  Timely'
      <3>1. run'.at # "idle" /\ run'.began = run.began /\ run'.today = run.today
        BY <2>4 DEF Stages
      <3> QED
        BY <2>1, <2>2, <3>1
    <2> QED
      BY <2>2, <2>3, <2>4
  <1>5. CASE Start
    BY <1>5 DEF Start, log
  <1>6. CASE Stop
    BY <1>6 DEF Stop, NoRun
  <1>7. CASE HourPasses
    <2>1. /\ hour' = hour + 1 /\ UNCHANGED <<up, run, inserting>> /\ hour \in Nat
          /\ run = NoRun \/ run.began = hour
          /\ \A i \in inserting : i.hour = hour
      BY <1>7 DEF HourPasses, Typed, log
    <2> QED
      BY <2>1 DEF NoRun
  <1>8. CASE UNCHANGED aggregatorVars
    BY <1>8 DEF aggregatorVars, log
  <1> QED
    BY <1>1, <1>2, <1>3, <1>4, <1>5, <1>6, <1>7, <1>8 DEF AggregatorNext

-----------------------------------------------------------------------------
(* What is owed. *)

\* The statement that does a part of a run, or finds that it cannot.
Does(part) == \E step \in Steps :
    /\ run.at = step.at /\ step.at = Last(part) /\ step.part = part
    /\ Statement(step) \/ UsageIsAmbiguous(step)

\* No part of a run gets lost: what was owed is, until its statement runs, and the run
\* of an hour that begins is owed whole.
LEMMA StaysOwed ==
    ASSUME Typed, Typed', Timely, [AggregatorNext]_aggregatorVars, NEW part \in Parts, NEW h \in 0..hour',
           h <= hour => Owed(part, h)
    PROVE  Owed(part, h)' \/ (Does(part) /\ run.began = h)
  <1> USE DEF Owed
  <1>1. CASE BeginInsert \/ EndInsert \/ InsertRefused \/ UNCHANGED aggregatorVars
    <2>1. UNCHANGED <<hour, due, run, outage>>
      BY <1>1 DEF BeginInsert, EndInsert, InsertRefused, aggregatorVars
    <2> QED
      BY <2>1
  <1>2. CASE BeginRun
    <2>1. hour' = hour /\ outage' = outage /\ hour' \in Nat
      BY <1>2 DEF BeginRun, Typed
    <2>2. run'.began = hour
      BY <1>2 DEF BeginRun
    <2>3. run'.at \in Ahead(part)
      BY <1>2 DEF BeginRun, Ahead, Stages
    <2>4. run.at \notin Ahead(part)
      BY <1>2 DEF BeginRun, NoRun, Ahead, Stages
    <2>5. h <= hour
      BY <2>1
    <2> QED
      BY <2>1, <2>2, <2>3, <2>4, <2>5
  <1>3. ASSUME NEW step \in Steps, Statement(step) \/ UsageIsAmbiguous(step) \/ StatementFails(step)
        PROVE  Owed(part, h)' \/ (Does(part) /\ run.began = h)
    <2>1. run.at = step.at /\ Continue(step) /\ UNCHANGED <<hour, due>> /\ outage \subseteq outage'
      BY <1>3 DEF Statement, UsageIsAmbiguous, StatementFails
    <2>2. \/ run' = NoRun /\ run.at = "partitions"
          \/ run' = [at |-> step.then, today |-> run.today, began |-> run.began]
      BY <2>1, Continues
    <2> SUFFICES ASSUME run.began = h, run.at \in Ahead(part) PROVE Owed(part, h)' \/ Does(part)
      BY <2>1
    <2>3. CASE run.at = Last(part)
      <3>1. step.part = part
        BY <2>1, <2>3, StepShape DEF Last, Parts
      <3>2. CASE StatementFails(step)
        BY <3>1, <3>2 DEF StatementFails
      <3>3. CASE Statement(step) \/ UsageIsAmbiguous(step)
        BY <2>1, <2>3, <3>1, <3>3 DEF Does
      <3> QED
        BY <1>3, <3>2, <3>3
    <2>4. CASE run.at # Last(part)
      <3>1. step.then \in Ahead(part) /\ run.at # "partitions"
        BY <2>1, <2>4, StepShape DEF Last, Ahead, Parts, Stages
      <3> QED
        BY <2>2, <3>1
    <2> QED
      BY <2>3, <2>4
  <1>4. CASE Start
    BY <1>4 DEF Start
  <1>5. CASE Stop
    <2>1. hour' = hour /\ outage' = outage \cup (Parts \X {hour, run.began})
      BY <1>5 DEF Stop
    <2> QED
      BY <2>1
  <1>6. CASE HourPasses
    <2>1. /\ hour' = hour + 1 /\ run' = run /\ ~due /\ due' = up
          /\ outage' = IF up THEN outage ELSE outage \cup (Parts \X {hour + 1})
      BY <1>6 DEF HourPasses
    <2>2. CASE h <= hour
      BY <2>1, <2>2
    <2>3. CASE h = hour + 1
      BY <2>1, <2>3 DEF Typed
    <2> QED
      BY <2>1, <2>2, <2>3 DEF Typed
  <1> QED
    BY <1>1, <1>2, <1>3, <1>4, <1>5, <1>6 DEF AggregatorNext

-----------------------------------------------------------------------------
(* What is right stays right. *)

\* A row that is not there an hour later is of no day before.
LEMMA DaysSettle ==
    ASSUME Typed, Timely, NEW h \in 1..hour, Day(h - 1) = Day(h), NEW i \in inserting
    PROVE  Day(i.hour) # Day(h) - 1
  <1>1. i.hour \in Nat /\ hour \in Nat /\ hour <= i.hour + 1 /\ h \in Nat /\ h - 1 \in Int
    BY DEF Typed, Timely
  <1>2. h - 1 <= i.hour
    BY <1>1
  <1>3. Day(h - 1) <= Day(i.hour) /\ Day(h) \in Int /\ Day(i.hour) \in Int
    BY <1>1, <1>2, DaysGoOn
  <1> QED
    BY <1>3

\* The rows of a settled day are what they are.
LEMMA RowsStand ==
    ASSUME Typed, [AggregatorNext]_aggregatorVars, NEW day, \A i \in inserting : Day(i.hour) # day
    PROVE  /\ Of(day)' = Of(day)
           /\ \A j \in Of(day) : rows'[j] = rows[j]
  <1>1. CASE EndInsert
    <2>1. PICK i \in inserting :
            rows' = [j \in DOMAIN rows \cup {i.id} |->
                      IF j = i.id
                      THEN [day |-> Day(i.hour), alias |-> i.alias, provider |-> i.provider]
                      ELSE rows[j]]
      BY <1>1 DEF EndInsert
    <2>2. i.id \notin DOMAIN rows /\ Day(i.hour) # day
      BY DEF Typed
    <2>3. DOMAIN rows' = DOMAIN rows \cup {i.id} /\ rows'[i.id].day = Day(i.hour)
            /\ \A j \in DOMAIN rows : rows'[j] = rows[j]
      BY <2>1, <2>2
    <2> QED
      BY <2>2, <2>3 DEF Of
  <1>2. CASE ~EndInsert
    <2>1. rows' = rows
      BY <1>2 DEF AggregatorNext, BeginInsert, InsertRefused, BeginRun, Statement, UsageIsAmbiguous,
                  StatementFails, Start, Stop, HourPasses, aggregatorVars, log
    <2> QED
      BY <2>1 DEF Of
  <1> QED
    BY <1>1, <1>2

\* The groups of a settled day are what they are.
LEMMA GroupsStand ==
    ASSUME NEW day, Of(day)' = Of(day), \A j \in Of(day) : rows'[j] = rows[j]
    PROVE  /\ AliasesOf(day)' = AliasesOf(day)
           /\ \A a : OfAlias(day, a)' = OfAlias(day, a)
           /\ Ambiguous(day)' <=> Ambiguous(day)
  <1>1. AliasesOf(day)' = AliasesOf(day)
    BY DEF AliasesOf
  <1>2. \A a : OfAlias(day, a)' = OfAlias(day, a)
    BY DEF OfAlias
  <1>3. \A a : ProvidersOf(day, a)' = ProvidersOf(day, a)
    <2> SUFFICES ASSUME NEW a PROVE ProvidersOf(day, a)' = ProvidersOf(day, a)
      OBVIOUS
    <2>1. OfAlias(day, a)' = OfAlias(day, a) /\ \A j \in OfAlias(day, a) : rows'[j] = rows[j]
      BY <1>2 DEF OfAlias
    <2> QED
      BY <2>1 DEF ProvidersOf
  <1>4. Ambiguous(day)' <=> Ambiguous(day)
    BY <1>1, <1>3 DEF Ambiguous
  <1> QED
    BY <1>1, <1>2, <1>4

\* The statement of cache_stats_daily makes its day right and leaves the others.
LEMMA StatsCount ==
    ASSUME NEW day, NEW d, AggregateCacheStatsDaily(d), Of(day)' = Of(day),
           d = day \/ StatsRight(day)
    PROVE  StatsRight(day)'
  <1> DEFINE new == [e \in {d} |-> Cardinality(Of(d))]
  <1>1. stats' = Upsert(stats, new)
    BY DEF AggregateCacheStatsDaily
  <1>2. DOMAIN new = {d} /\ new[d] = Cardinality(Of(d))
    OBVIOUS
  <1> HIDE DEF new
  <1>3. /\ DOMAIN stats' = DOMAIN stats \cup DOMAIN new
        /\ \A key \in DOMAIN new : stats'[key] = new[key]
        /\ \A key \in DOMAIN stats \ DOMAIN new : stats'[key] = stats[key]
    BY <1>1 DEF Upsert, Replace
  <1> QED
    BY <1>2, <1>3 DEF StatsRight

\* The statement of usage_daily makes its day right and leaves the others.
LEMMA UsageCounts ==
    ASSUME NEW day, NEW d, AggregateUsageDaily(d), Of(day)' = Of(day),
           \A j \in Of(day) : rows'[j] = rows[j], d = day \/ UsageRight(day)
    PROVE  UsageRight(day)'
  <1> DEFINE new == [k \in {d} \X AliasesOf(d) |-> Cardinality(OfAlias(d, k[2]))]
  <1>1. usage' = Upsert(usage, new)
    BY DEF AggregateUsageDaily
  <1>2. DOMAIN new = {d} \X AliasesOf(d)
          /\ \A a \in AliasesOf(d) : new[<<d, a>>] = Cardinality(OfAlias(d, a))
    OBVIOUS
  <1> HIDE DEF new
  <1>u. /\ DOMAIN usage' = DOMAIN usage \cup DOMAIN new
        /\ \A key \in DOMAIN new : usage'[key] = new[key]
        /\ \A key \in DOMAIN usage \ DOMAIN new : usage'[key] = usage[key]
    BY <1>1 DEF Upsert, Replace
  <1>3. AliasesOf(day)' = AliasesOf(day) /\ (\A a : OfAlias(day, a)' = OfAlias(day, a))
          /\ (Ambiguous(day)' <=> Ambiguous(day))
    BY GroupsStand
  <1>4. CASE d = day
    <2>1. \A a \in AliasesOf(day) :
            <<day, a>> \in DOMAIN usage' /\ usage'[<<day, a>>] = Cardinality(OfAlias(day, a))
      BY <1>2, <1>4, <1>u
    <2> QED
      BY <1>3, <2>1 DEF UsageRight, UsageIsExactFor
  <1>5. CASE d # day
    <2>1. CASE Ambiguous(day)
      BY <1>3, <2>1 DEF UsageRight
    <2>2. CASE UsageIsExactFor(day)
      <3>1. ASSUME NEW a \in AliasesOf(day)
            PROVE  <<day, a>> \in DOMAIN usage' /\ usage'[<<day, a>>] = usage[<<day, a>>]
        <4>1. <<day, a>> \in DOMAIN usage
          BY <2>2 DEF UsageIsExactFor
        <4>2. <<day, a>> \notin DOMAIN new
          BY <1>2, <1>5
        <4> QED
          BY <1>u, <4>1, <4>2
      <3> QED
        BY <1>3, <2>2, <3>1 DEF UsageRight, UsageIsExactFor
    <2> QED
      BY <1>5, <2>1, <2>2 DEF UsageRight
  <1> QED
    BY <1>4, <1>5

\* What is right stays right, whatever is aggregated again.
LEMMA StaysRight ==
    ASSUME Typed, [AggregatorNext]_aggregatorVars, NEW day, \A i \in inserting : Day(i.hour) # day
    PROVE  /\ StatsRight(day) => StatsRight(day)'
           /\ UsageRight(day) => UsageRight(day)'
  <1>1. Of(day)' = Of(day) /\ \A j \in Of(day) : rows'[j] = rows[j]
    BY RowsStand
  <1>2. AliasesOf(day)' = AliasesOf(day) /\ (\A a : OfAlias(day, a)' = OfAlias(day, a))
          /\ (Ambiguous(day)' <=> Ambiguous(day))
    BY <1>1, GroupsStand
  <1>3. /\ stats' = stats \/ \E d : AggregateCacheStatsDaily(d)
        /\ usage' = usage \/ \E d : AggregateUsageDaily(d)
    <2>1. ASSUME NEW step \in Steps, Statement(step)
          PROVE  \/ AggregateUsageDaily(DayOf(step.at)) /\ stats' = stats
                 \/ AggregateCacheStatsDaily(DayOf(step.at)) /\ usage' = usage
                 \/ usage' = usage /\ stats' = stats
      <3>1. step.part \in Parts
        BY StepShape DEF Parts
      <3> QED
        BY <2>1, <3>1 DEF Statement, Parts, AggregateUsageDaily, AggregateCacheStatsDaily,
                          CreatePartitions
    <2>2. CASE ~\E step \in Steps : Statement(step)
      BY <2>2 DEF AggregatorNext, BeginInsert, EndInsert, InsertRefused, BeginRun, UsageIsAmbiguous,
                  StatementFails, Start, Stop, HourPasses, aggregatorVars, tables
    <2> QED
      BY <2>1, <2>2
  <1>5. ASSUME StatsRight(day) PROVE StatsRight(day)'
    <2>1. CASE stats' = stats
      BY <1>1, <1>5, <2>1 DEF StatsRight
    <2> QED
      BY <1>1, <1>3, <1>5, <2>1, StatsCount
  <1>6. ASSUME UsageRight(day) PROVE UsageRight(day)'
    <2>1. CASE usage' = usage
      BY <1>2, <1>6, <2>1 DEF UsageRight, UsageIsExactFor
    <2> QED
      BY <1>1, <1>3, <1>6, <2>1, UsageCounts
  <1> QED
    BY <1>5, <1>6

-----------------------------------------------------------------------------
(* What was done is right. *)

\* The statements on yesterday's rows are on those of the day before the run's.
LEMMA CountedIsRight ==
    ASSUME Typed, Timely, NEW day, day = Day(run.began) - 1
    PROVE  /\ Does("stats") => StatsRight(day)'
           /\ Does("usage") => UsageRight(day)'
  <1>1. ASSUME NEW step \in Steps, run.at = step.at, Statement(step) \/ UsageIsAmbiguous(step),
               step.at \in {"usage of yesterday", "stats of yesterday"}
        PROVE  rows' = rows /\ DayOf(step.at) = day
    BY <1>1 DEF Statement, UsageIsAmbiguous, log, DayOf, Yesterday, Timely
  <1>2. ASSUME rows' = rows
        PROVE  Of(day)' = Of(day) /\ \A j \in Of(day) : rows'[j] = rows[j]
    BY <1>2 DEF Of
  <1>3. ASSUME Does("stats") PROVE StatsRight(day)'
    <2>1. PICK step \in Steps : /\ run.at = step.at /\ step.at = "stats of yesterday"
                                /\ step.part = "stats"
                                /\ Statement(step) \/ UsageIsAmbiguous(step)
      BY <1>3 DEF Does, Last
    <2>2. AggregateCacheStatsDaily(day)
      BY <1>1, <2>1 DEF Statement, UsageIsAmbiguous
    <2> QED
      BY <1>1, <1>2, <2>1, <2>2, StatsCount
  <1>4. ASSUME Does("usage") PROVE UsageRight(day)'
    <2>1. PICK step \in Steps : /\ run.at = step.at /\ step.at = "usage of yesterday"
                                /\ step.part = "usage"
                                /\ Statement(step) \/ UsageIsAmbiguous(step)
      BY <1>4 DEF Does, Last
    <2>2. rows' = rows /\ DayOf(step.at) = day
      BY <1>1, <2>1
    <2>3. CASE Statement(step)
      <3>1. AggregateUsageDaily(day)
        BY <2>1, <2>2, <2>3 DEF Statement
      <3> QED
        BY <1>2, <2>2, <3>1, UsageCounts
    <2>4. CASE UsageIsAmbiguous(step)
      <3>1. Ambiguous(day)
        BY <2>2, <2>4 DEF UsageIsAmbiguous
      <3> QED
        BY <1>2, <2>2, <3>1, GroupsStand DEF UsageRight
    <2> QED
      BY <2>1, <2>3, <2>4
  <1> QED
    BY <1>3, <1>4

\* A run creates the partitions of the months from its next hour on.
LEMMA CreatedIsRight ==
    ASSUME Typed, Timely, Does("partition"), NEW h \in Nat, h = run.began
    PROVE  MonthsRight(h)'
  <1>1. PICK step \in Steps : /\ run.at = step.at /\ step.part = "partition"
                              /\ step.at = "partitions"
                              /\ Statement(step) \/ UsageIsAmbiguous(step)
    BY DEF Does, Last
  <1>2. partitions' = partitions \cup MonthsFrom(Month(hour))
    BY <1>1 DEF Statement, UsageIsAmbiguous, CreatePartitions
  <1>3. hour \in Nat /\ h <= hour /\ hour <= h + 1
    BY <1>1 DEF Typed, Timely
  <1>4. /\ Month(h) \in Int /\ Month(hour) \in Int /\ Month(h) <= Month(hour)
        /\ Month(h + 1) \in Int /\ Month(hour) <= Month(h + 1)
    BY <1>3, DaysGoOn
  <1>5. Month(h + 1) .. Month(h) + MonthsAhead \subseteq MonthsFrom(Month(hour))
    BY <1>4, CalendarAssumption DEF MonthsFrom
  <1> QED
    BY <1>2, <1>5 DEF MonthsRight

\* No step takes partitions away.
LEMMA PartitionsStay == ASSUME [AggregatorNext]_aggregatorVars PROVE partitions \subseteq partitions'
  <1>1. ASSUME NEW step \in Steps, Statement(step) PROVE partitions \subseteq partitions'
    BY <1>1, StepShape DEF Statement, AggregateUsageDaily, AggregateCacheStatsDaily,
                           CreatePartitions
  <1>2. CASE ~\E step \in Steps : Statement(step)
    BY <1>2 DEF AggregatorNext, BeginInsert, EndInsert, InsertRefused, BeginRun, UsageIsAmbiguous,
                StatementFails, Start, Stop, HourPasses, aggregatorVars, tables
  <1> QED
    BY <1>1, <1>2

\* Hours go on one by one, and outages are not forgotten.
LEMMA HoursGoOn ==
    ASSUME Typed, [AggregatorNext]_aggregatorVars
    PROVE  (hour' = hour \/ hour' = hour + 1) /\ outage \subseteq outage'
  BY DEF AggregatorNext, BeginInsert, EndInsert, InsertRefused, BeginRun, Statement, UsageIsAmbiguous,
         StatementFails, Start, Stop, HourPasses, aggregatorVars

\* What is not owed after a step is right.
LEMMA NextRuns ==
    ASSUME Typed, Typed', Timely, Runs, [AggregatorNext]_aggregatorVars
    PROVE  Runs'
  <1>h. hour \in Nat /\ (hour' = hour \/ hour' = hour + 1)
    BY HoursGoOn DEF Typed
  <1>1. ASSUME NEW h \in 1..hour', Day(h - 1) = Day(h)
        PROVE  /\ Owed("usage", h)' \/ UsageRight(Day(h) - 1)'
               /\ Owed("stats", h)' \/ StatsRight(Day(h) - 1)'
    <2> DEFINE day == Day(h) - 1
    <2>1. h \in 0..hour' /\ h \in Nat
      BY <1>h
    <2>2. ASSUME h <= hour, Day(h - 1) = Day(h)
          PROVE  /\ UsageRight(day) => UsageRight(day)'
                 /\ StatsRight(day) => StatsRight(day)'
      <3>1. h \in 1..hour
        BY <1>h, <2>1, <2>2
      <3>2. \A i \in inserting : Day(i.hour) # day
        BY <2>2, <3>1, DaysSettle
      <3> HIDE DEF day
      <3> QED
        BY <3>2, StaysRight
    <2>3. ASSUME h <= hour
          PROVE  /\ Owed("usage", h) \/ UsageRight(day)
                 /\ Owed("stats", h) \/ StatsRight(day)
      <3>1. h \in 1..hour
        BY <1>h, <2>1, <2>3
      <3> QED
        BY <1>1, <3>1 DEF Runs
    <2>4. ASSUME run.began = h
          PROVE  /\ Does("stats") => StatsRight(day)'
                 /\ Does("usage") => UsageRight(day)'
      <3>1. day = Day(run.began) - 1
        BY <2>4
      <3> HIDE DEF day
      <3> QED
        BY <3>1, CountedIsRight
    <2>5. Owed("usage", h)' \/ UsageRight(day)'
      <3>1. CASE h <= hour => Owed("usage", h)
        BY <2>1, <2>4, <3>1, StaysOwed DEF Parts
      <3>2. CASE h <= hour /\ UsageRight(day)
        BY <1>1, <2>2, <3>2
      <3> QED
        BY <2>3, <3>1, <3>2
    <2>6. Owed("stats", h)' \/ StatsRight(day)'
      <3>1. CASE h <= hour => Owed("stats", h)
        BY <2>1, <2>4, <3>1, StaysOwed DEF Parts
      <3>2. CASE h <= hour /\ StatsRight(day)
        BY <1>1, <2>2, <3>2
      <3> QED
        BY <2>3, <3>1, <3>2
    <2> QED
      BY <2>5, <2>6
  <1>2. ASSUME NEW h \in 0..hour' PROVE Owed("partition", h)' \/ MonthsRight(h)'
    <2>1. CASE h <= hour => Owed("partition", h)
      <3>1. h \in Nat
        BY <1>h
      <3>2. Owed("partition", h)' \/ (Does("partition") /\ run.began = h)
        BY <2>1, StaysOwed DEF Parts
      <3> QED
        BY <3>1, <3>2, CreatedIsRight
    <2>2. CASE h <= hour /\ MonthsRight(h)
      BY <2>2, PartitionsStay DEF MonthsRight
    <2> QED
      BY <1>h, <2>1, <2>2 DEF Runs
  <1> QED
    BY <1>1, <1>2 DEF Runs

-----------------------------------------------------------------------------
(* Refusals. *)

\* A row is refused when all runs since MonthsAhead months before have failed.
LEMMA RefusedForLack ==
    ASSUME Typed, Timely, Runs, Refusals, NEW i \in inserting, Month(i.hour) \notin partitions
    PROVE  /\ i.hour \in 0..hour /\ Month(i.hour) > FirstMonths
           /\ \A h \in 0..i.hour - 2 :
                Month(h) >= Month(i.hour) - MonthsAhead => <<"partition", h>> \in outage
  <1> DEFINE x == i.hour
  <1>1. x \in Nat /\ hour \in Nat /\ x <= hour /\ hour <= x + 1
    BY DEF Typed, Timely
  <1>2. Month(x) \in Nat
    BY <1>1, DaysGoOn
  <1>3. Month(x) > FirstMonths
    BY <1>2, CalendarAssumption DEF Refusals
  <1>4. ASSUME NEW h \in 0..x - 2, Month(h) >= Month(x) - MonthsAhead
        PROVE  <<"partition", h>> \in outage
    <2> HIDE DEF x
    <2>1. h \in Nat /\ h <= x - 2 /\ h \in 0..hour /\ h # hour /\ h + 1 < hour
      BY <1>1
    <2>2. Month(h + 1) \in Int /\ Month(h) \in Int /\ Month(h + 1) <= Month(x)
      BY <1>1, <2>1, DaysGoOn
    <2>3. Month(x) \in Month(h + 1) .. Month(h) + MonthsAhead
      BY <1>2, <1>4, <2>2, CalendarAssumption
    <2>4. ~MonthsRight(h)
      BY <2>3 DEF MonthsRight, x
    <2>5. Owed("partition", h)
      BY <2>1, <2>4 DEF Runs
    <2>6. run.at \in Ahead("partition") => run.began # h
      <3>1. run.at \in Ahead("partition") => run.at # "idle"
        BY DEF Ahead, Stages
      <3>2. run.at # "idle" => hour <= run.began + 1 /\ run.began \in Nat
        BY DEF Timely, Typed
      <3> QED
        BY <1>1, <2>1, <3>1, <3>2
    <2> QED
      BY <2>1, <2>5, <2>6 DEF Owed
  <1> QED
    BY <1>1, <1>3, <1>4

\* Every step keeps the refusals explained.
LEMMA NextRefusals ==
    ASSUME Typed, Timely, Runs, Refusals, [AggregatorNext]_aggregatorVars
    PROVE  Refusals'
  <1>1. hour \in Nat /\ hour' \in Nat /\ hour <= hour' /\ outage \subseteq outage'
    BY HoursGoOn DEF Typed
  <1>2. ASSUME NEW x \in refused'
        PROVE  /\ x \in 0..hour /\ Month(x) > FirstMonths
               /\ \A h \in 0..x - 2 :
                    Month(h) >= Month(x) - MonthsAhead => <<"partition", h>> \in outage
    <2>1. CASE x \in refused
      BY <2>1 DEF Refusals
    <2>2. CASE x \notin refused
      <3>1. InsertRefused
        BY <2>2 DEF AggregatorNext, BeginInsert, EndInsert, BeginRun, Statement, UsageIsAmbiguous,
                    StatementFails, Start, Stop, HourPasses, aggregatorVars, log
      <3>2. PICK i \in inserting : Month(i.hour) \notin partitions /\ x = i.hour
        BY <2>2, <3>1 DEF InsertRefused
      <3> QED
        BY <3>2, RefusedForLack
    <2> QED
      BY <2>1, <2>2
  <1>3. \A x \in 0..hour : x \in 0..hour'
    BY <1>1
  <1>4. 0..FirstMonths \subseteq partitions'
    BY PartitionsStay DEF Refusals
  <1> QED
    BY <1>1, <1>2, <1>3, <1>4 DEF Refusals

\* AggInv is inductive.
LEMMA NextAggInv == AggInv /\ [AggregatorNext]_aggregatorVars => AggInv'
  <1> SUFFICES ASSUME AggInv, [AggregatorNext]_aggregatorVars PROVE AggInv'
    OBVIOUS
  <1> USE DEF AggInv
  <1>1. Typed'
    BY NextTyped
  <1>2. Timely' /\ Runs' /\ Refusals'
    BY <1>1, NextTimely, NextRuns, NextRefusals
  <1> QED
    BY <1>1, <1>2

-----------------------------------------------------------------------------
(* The theorems. *)

\* What a run did is not owed.
LEMMA DidIsNotOwed ==
    ASSUME AggInv, NEW part \in Parts, NEW h, Did(part, h)
    PROVE  ~Owed(part, h)
  <1>1. h < hour /\ hour \in Nat /\ (run # NoRun => run.began # h) /\ <<part, h>> \notin outage
    BY DEF Did, AggInv, Typed
  <1>2. run.at \in Ahead(part) => run.at # "idle"
    BY DEF Ahead, Stages
  <1>3. run = NoRun => run.at = "idle"
    BY DEF NoRun
  <1> QED
    BY <1>1, <1>2, <1>3 DEF Owed

\* A closed day was counted by a run of the day after.
LEMMA ClosedIsRight ==
    ASSUME AggInv, NEW day \in 0..Day(MaxHour)
    PROVE  /\ Closed(day, "stats") => StatsRight(day)
           /\ Closed(day, "usage") => UsageRight(day)
  <1>1. ASSUME NEW part \in Parts, Closed(day, part)
        PROVE  \E h \in 1..hour : Day(h - 1) = Day(h) /\ Day(h) - 1 = day /\ ~Owed(part, h)
    <2>1. PICK h \in 0..MaxHour : Day(h) = day + 1 /\ Day(h - 1) = day + 1 /\ Did(part, h)
      BY <1>1 DEF Closed
    <2>2. Day(MaxHour) \in Int /\ day \in Nat
      BY DaysGoOn, CalendarAssumption
    <2>3. h # 0
      BY <2>1, <2>2, FirstDay
    <2>4. h < hour /\ hour \in Nat /\ h \in 1..hour
      BY <2>1, <2>3, CalendarAssumption DEF Did, AggInv, Typed
    <2>5. Day(h - 1) = Day(h) /\ Day(h) - 1 = day
      BY <2>1, <2>2
    <2>6. ~Owed(part, h)
      BY <2>1, DidIsNotOwed
    <2> QED
      BY <2>4, <2>5, <2>6
  <1>2. Closed(day, "stats") => StatsRight(day)
    BY <1>1 DEF Parts, AggInv, Runs
  <1>3. Closed(day, "usage") => UsageRight(day)
    BY <1>1 DEF Parts, AggInv, Runs
  <1> QED
    BY <1>2, <1>3

\* A day that one run of the next day counted is counted exactly: late inserts are in
\* an hour later, a run keeps its date over midnight, and what other runs write of the
\* day again is the same (cron.go:38-49, queries.go:718-738).
THEOREM ClosedDaysAreCounted == AggregatorSpec => []StatsAreExact
  <1>1. AggInv => StatsAreExact
    BY ClosedIsRight DEF StatsAreExact, StatsRight
  <1> QED
    BY InitAggInv, NextAggInv, <1>1, PTL DEF AggregatorSpec

\* So is the usage of each alias, on days when no alias was served by two providers:
\* no run of a later day makes it wrong again (queries.go:694-716).
THEOREM ClosedDaysAreBilled == AggregatorSpec => []UsageIsExact
  <1>1. AggInv => UsageIsExact
    BY ClosedIsRight DEF UsageIsExact, UsageRight
  <1> QED
    BY InitAggInv, NextAggInv, <1>1, PTL DEF AggregatorSpec

\* Partitions run out only after the first months, and when for MonthsAhead months no
\* run could create any (cron.go:52-55, init.sql:185-187).
THEOREM PartitionsLast == AggregatorSpec => []RefusedAfterLongOutage
  <1>1. AggInv => RefusedAfterLongOutage
    <2> SUFFICES ASSUME AggInv, NEW x \in refused
                 PROVE  /\ Month(x) > FirstMonths
                        /\ \A h \in 0..x - 2 :
                             Month(h) >= Month(x) - MonthsAhead => ~Did("partition", h)
      BY DEF RefusedAfterLongOutage
    <2> QED
      BY DEF AggInv, Refusals, Did
  <1> QED
    BY InitAggInv, NextAggInv, <1>1, PTL DEF AggregatorSpec
=============================================================================
