----------------------------- MODULE ChatProofs -----------------------------
(***************************************************************************)
(* Theorems about a chat completion: the handler, for every set of         *)
(* requests, models, chains, prompts and provider statuses; the executor,  *)
(* for every conversation and every answer a provider sends.               *)
(***************************************************************************)
EXTENDS ProxyHandler, Executor, SequenceLemmas

(* The handler.                                                             *)

\* Where the handler is bounds what it may read: a model that is being called
\* is in the chain and among the three allowed, a lookup is for a cacheable
\* request, and depth counts the models passed over.
Control == \A r \in Requests :
    /\ pc[r] \in {"calling", "streaming"} => ~Exhausted(r)
    /\ pc[r] = "lookup" => input[r] \in Inputs /\ Cacheable(r) /\ Chain(r) # <<>>
    /\ pc[r] = "streaming" => input[r].stream /\ ~reply[r].hit
    /\ pc[r] \in {"idle", "lookup", "loop", "calling"} => reply[r] = NoReply
    /\ depth[r] = pos[r] - 1

TypeInv == TypeOK /\ Control

\* The model tried next is one of the configured models.
LEMMA ModelTyped ==
    ASSUME TypeOK, NEW r \in Requests, ~Exhausted(r)
    PROVE  Model(r) \in Models /\ pos[r] \in 1..MaxAttempts /\ Chain(r) \in Seq(Models)
  <1>1. input[r] \in Inputs \cup {NoInput} /\ pos[r] \in 1..MaxAttempts + 1
    BY DEF TypeOK
  <1>2. CASE input[r] \in Inputs
    BY <1>1, <1>2, ModelAssumption DEF Chain, Inputs, Exhausted, Model, MaxAttempts
  <1>3. CASE input[r] = NoInput
    BY <1>1, <1>3 DEF Chain, NoInput, Exhausted
  <1> QED
    BY <1>1, <1>2, <1>3

\* What the handler derives from the model it is trying has its type.
LEMMA TryTyped ==
    ASSUME TypeInv, NEW r \in Requests, ~Exhausted(r)
    PROVE  /\ Model(r) \in Models
           /\ pos[r] \in 1..MaxAttempts
           /\ depth[r] \in 0..MaxAttempts - 1
           /\ Served(r) \in Replies
           /\ \A kind \in {"skip", "err", "status", "ok"} : \A status \in Nat :
                  Outcome(r, kind, status) \in Outcomes
           /\ LogRow(Model(r), FALSE, depth[r]) \in Rows
  <1>1. Model(r) \in Models /\ pos[r] \in 1..MaxAttempts
    BY ModelTyped DEF TypeInv
  <1>2. depth[r] \in 0..MaxAttempts - 1
    BY <1>1 DEF TypeInv, Control, MaxAttempts
  <1> QED
    BY <1>1, <1>2 DEF Served, Replies, Outcome, Outcomes, LogRow, Rows, OK, Nil, MaxAttempts

\* The helpers of the actions keep the types of what they change.
LEMMA NextModelTyped ==
    ASSUME TypeInv, NEW r \in Requests, ~Exhausted(r), NextModel(r)
    PROVE  /\ pos' \in [Requests -> 1..MaxAttempts + 1]
           /\ depth' \in [Requests -> 0..MaxAttempts]
           /\ \A q \in Requests : depth'[q] = pos'[q] - 1
  <1>1. pos[r] \in 1..MaxAttempts /\ depth[r] \in 0..MaxAttempts - 1
    BY TryTyped
  <1>2. pos \in [Requests -> 1..MaxAttempts + 1] /\ depth \in [Requests -> 0..MaxAttempts]
    BY DEF TypeInv, TypeOK
  <1>3. pos' \in [Requests -> 1..MaxAttempts + 1]
    BY <1>1, <1>2 DEF NextModel, MaxAttempts
  <1>4. depth' \in [Requests -> 0..MaxAttempts]
    BY <1>1, <1>2 DEF NextModel, MaxAttempts
  <1>5. \A q \in Requests : depth[q] = pos[q] - 1
    BY DEF TypeInv, Control
  <1>6. \A q \in Requests : depth'[q] = pos'[q] - 1
    BY <1>1, <1>2, <1>5 DEF NextModel, MaxAttempts
  <1> QED
    BY <1>3, <1>4, <1>6

LEMMA RecordTyped ==
    ASSUME TypeOK, NEW r \in Requests, NEW o \in Outcomes, Record(r, o)
    PROVE  trace' \in [Requests -> Seq(Outcomes)]
  <1>1. trace \in [Requests -> Seq(Outcomes)]
    BY DEF TypeOK
  <1>2. Append(trace[r], o) \in Seq(Outcomes)
    BY <1>1
  <1> QED
    BY <1>1, <1>2 DEF Record

LEMMA SpawnLogTyped ==
    ASSUME TypeOK, NEW r \in Requests, NEW row \in Rows, SpawnLog(r, row)
    PROVE  logJobs' \in [Requests -> Seq(Rows)]
  <1>1. logJobs \in [Requests -> Seq(Rows)]
    BY DEF TypeOK
  <1>2. Append(logJobs[r], row) \in Seq(Rows)
    BY <1>1
  <1> QED
    BY <1>1, <1>2 DEF SpawnLog

\* What is left of the log goroutines when one is done.
LEMMA TailTyped ==
    ASSUME TypeOK, NEW r \in Requests, logJobs[r] # <<>>
    PROVE  [logJobs EXCEPT ![r] = Tail(@)] \in [Requests -> Seq(Rows)]
  <1>1. logJobs \in [Requests -> Seq(Rows)] /\ logJobs[r] \in Seq(Rows)
    BY DEF TypeOK
  <1>2. Tail(logJobs[r]) \in Seq(Rows)
    BY <1>1
  <1> QED
    BY <1>1, <1>2

\* A row moves from the goroutine to the table.
LEMMA LogInsertedTyped ==
    ASSUME TypeOK, NEW r \in Requests, LogInserted(r)
    PROVE  rows' \in [Requests -> Seq(Rows)] /\ logJobs' \in [Requests -> Seq(Rows)]
  <1>1. rows \in [Requests -> Seq(Rows)] /\ logJobs[r] \in Seq(Rows) /\ logJobs[r] # <<>>
    BY DEF TypeOK, LogInserted
  <1>2. Head(logJobs[r]) \in Rows
    BY <1>1
  <1>3. Append(rows[r], Head(logJobs[r])) \in Seq(Rows)
    BY <1>1, <1>2
  <1>4. rows' \in [Requests -> Seq(Rows)]
    BY <1>1, <1>3 DEF LogInserted
  <1> QED
    BY <1>4, TailTyped DEF LogInserted

LEMMA InitTypeInv == Init => TypeInv
  <1> SUFFICES ASSUME Init PROVE TypeInv
    OBVIOUS
  <1> USE DEF Init
  <1>1. NoReply \in Replies
    BY DEF NoReply, Replies, Nil
  <1>2. TypeOK
    BY <1>1 DEF TypeOK, NoInput, MaxAttempts, Nil
  <1>3. Control
    BY DEF Control
  <1> QED
    BY <1>2, <1>3 DEF TypeInv

LEMMA NextTypeInv == TypeInv /\ [Next]_vars => TypeInv'
  <1> SUFFICES ASSUME TypeInv, [Next]_vars PROVE TypeInv'
    OBVIOUS
  <1> USE DEF TypeInv
  <1>st. NoReply \in Replies /\ \A s, k \in Nat : ErrorReply(s, k) \in Replies
    BY DEF NoReply, Replies, ErrorReply, Nil
  <1>in. \A in \in Inputs : in.chain \in Seq(Models)
    BY ModelAssumption DEF Inputs
  <1>1. ASSUME NEW r \in Requests, RejectBody(r) PROVE TypeInv'
    <2>1. TypeOK'
      BY <1>1, <1>st DEF RejectBody, Goto, TypeOK, jobs, BadRequest, Nil
    <2>2. Control'
      BY <1>1 DEF RejectBody, Goto, TypeOK, Control, Exhausted, Cacheable, Chain
    <2> QED BY <2>1, <2>2
  <1>2. ASSUME NEW r \in Requests, Receive(r) PROVE TypeInv'
    <2>1. TypeOK'
      BY <1>2 DEF Receive, Goto, TypeOK, jobs
    <2>2. Control'
      BY <1>2, <1>in DEF Receive, Goto, TypeOK, Control, Exhausted, Cacheable, Chain
    <2> QED BY <2>1, <2>2
  <1>3. ASSUME NEW r \in Requests, NoChain(r) PROVE TypeInv'
    <2>1. TypeOK'
      BY <1>3, <1>st DEF NoChain, Goto, TypeOK, jobs, NotFound, Nil
    <2>2. Control'
      BY <1>3 DEF NoChain, Goto, TypeOK, Control, Exhausted, Cacheable, Chain
    <2> QED BY <2>1, <2>2
  <1>4. ASSUME NEW r \in Requests, LookupHit(r) PROVE TypeInv'
    <2>a. Chain(r)[1] \in Models
      BY <1>4, <1>in DEF LookupHit, Goto, Control, TypeOK, Chain
    <2>b. \A e \in Nearest(r) : e.from \in Requests
      BY DEF Nearest, Tagged, TypeOK, Entries
    <2>c. \A p \in Requests :
            [status |-> OK, hit |-> TRUE, by |-> Chain(r)[1], depth |-> 0, from |-> p,
             error |-> Nil] \in Replies
      BY <2>a DEF Replies, OK, Nil
    <2>d. LogRow(Chain(r)[1], TRUE, 0) \in Rows
      BY <2>a DEF LogRow, Rows
    <2>e. logJobs' \in [Requests -> Seq(Rows)]
      BY <1>4, <2>d, SpawnLogTyped DEF LookupHit
    <2>f. reply' \in [Requests -> Replies]
      BY <1>4, <2>b, <2>c DEF LookupHit, TypeOK
    <2>1. TypeOK'
      BY <1>4, <2>e, <2>f DEF LookupHit, TypeOK, Goto
    <2>2. Control'
      BY <1>4 DEF LookupHit, TypeOK, Control, Exhausted, Cacheable, Chain, Goto
    <2> QED BY <2>1, <2>2
  <1>5. ASSUME NEW r \in Requests, LookupMiss(r) PROVE TypeInv'
    <2>1. TypeOK'
      BY <1>5 DEF LookupMiss, TypeOK, Goto, jobs
    <2>2. Control'
      BY <1>5 DEF LookupMiss, TypeOK, Control, Exhausted, Cacheable, Chain, Goto
    <2> QED BY <2>1, <2>2
  <1>6. ASSUME NEW r \in Requests, SkipModel(r) PROVE TypeInv'
    <2>a. /\ Model(r) \in Models /\ pos[r] \in 1..MaxAttempts
          /\ depth[r] \in 0..MaxAttempts - 1 /\ Served(r) \in Replies
          /\ \A kind \in {"skip", "err", "status", "ok"} : \A status \in Nat :
                 Outcome(r, kind, status) \in Outcomes
          /\ LogRow(Model(r), FALSE, depth[r]) \in Rows
      BY <1>6, TryTyped DEF SkipModel
    <2>b. /\ pos' \in [Requests -> 1..MaxAttempts + 1]
          /\ depth' \in [Requests -> 0..MaxAttempts]
          /\ \A q \in Requests : depth'[q] = pos'[q] - 1
      BY <1>6, NextModelTyped DEF SkipModel, Goto, Control
    <2>c. trace' \in [Requests -> Seq(Outcomes)]
      BY <1>6, <2>a, RecordTyped DEF SkipModel, Nil
    <2>d. lastErr' \in [Requests -> 0..MaxAttempts]
      BY <1>6, <2>a DEF SkipModel, TypeOK, MaxAttempts
    <2>1. TypeOK'
      BY <1>6, <2>b, <2>c, <2>d DEF SkipModel, TypeOK, Goto, jobs
    <2>2. Control'
      BY <1>6, <2>b DEF SkipModel, TypeOK, Control, Exhausted, Cacheable, Chain, Goto, NextModel
    <2> QED BY <2>1, <2>2
  <1>7. ASSUME NEW r \in Requests, CallProvider(r) PROVE TypeInv'
    <2>1. TypeOK'
      BY <1>7 DEF CallProvider, TypeOK, Goto, jobs
    <2>2. Control'
      BY <1>7 DEF CallProvider, TypeOK, Control, Exhausted, Cacheable, Chain, Goto
    <2> QED BY <2>1, <2>2
  <1>8. ASSUME NEW r \in Requests, AllFailed(r) PROVE TypeInv'
    <2>b. lastStatus[r] \in Refusals \cup {Nil} /\ lastErr[r] \in 0..MaxAttempts
      BY DEF TypeOK
    <2>a. (IF lastStatus[r] # Nil THEN lastStatus[r] ELSE BadGateway) \in Nat
            /\ lastErr[r] \in Nat
      BY <2>b, StatusAssumption DEF BadGateway, Nil, MaxAttempts
    <2>1. TypeOK'
      BY <1>8, <1>st, <2>a DEF AllFailed, TypeOK, Goto, jobs
    <2>2. Control'
      BY <1>8 DEF AllFailed, TypeOK, Control, Exhausted, Cacheable, Chain, Goto
    <2> QED BY <2>1, <2>2
  <1>9. ASSUME NEW r \in Requests, CallFails(r) PROVE TypeInv'
    <2>a. /\ Model(r) \in Models /\ pos[r] \in 1..MaxAttempts
          /\ depth[r] \in 0..MaxAttempts - 1 /\ Served(r) \in Replies
          /\ \A kind \in {"skip", "err", "status", "ok"} : \A status \in Nat :
                 Outcome(r, kind, status) \in Outcomes
          /\ LogRow(Model(r), FALSE, depth[r]) \in Rows
      BY <1>9, TryTyped DEF CallFails, Goto, Control
    <2>b. /\ pos' \in [Requests -> 1..MaxAttempts + 1]
          /\ depth' \in [Requests -> 0..MaxAttempts]
          /\ \A q \in Requests : depth'[q] = pos'[q] - 1
      BY <1>9, NextModelTyped DEF CallFails, Goto, Control
    <2>c. trace' \in [Requests -> Seq(Outcomes)]
      BY <1>9, <2>a, RecordTyped DEF CallFails, Nil
    <2>d. lastErr' \in [Requests -> 0..MaxAttempts]
      BY <1>9, <2>a DEF CallFails, TypeOK, MaxAttempts
    <2>1. TypeOK'
      BY <1>9, <2>b, <2>c, <2>d DEF CallFails, TypeOK, Goto, jobs
    <2>2. Control'
      BY <1>9, <2>b DEF CallFails, TypeOK, Control, Exhausted, Cacheable, Chain, Goto, NextModel
    <2> QED BY <2>1, <2>2
  <1>10. ASSUME NEW r \in Requests, ProviderRejects(r) PROVE TypeInv'
    <2>a. /\ Model(r) \in Models /\ pos[r] \in 1..MaxAttempts
          /\ depth[r] \in 0..MaxAttempts - 1 /\ Served(r) \in Replies
          /\ \A kind \in {"skip", "err", "status", "ok"} : \A status \in Nat :
                 Outcome(r, kind, status) \in Outcomes
          /\ LogRow(Model(r), FALSE, depth[r]) \in Rows
      BY <1>10, TryTyped DEF ProviderRejects, Goto, Control
    <2>b. trace' \in [Requests -> Seq(Outcomes)]
      BY <1>10, <2>a, RecordTyped DEF ProviderRejects, BadRequest
    <2>c. logJobs' \in [Requests -> Seq(Rows)]
      BY <1>10, <2>a, SpawnLogTyped DEF ProviderRejects, TypeOK
    <2>d. reply' \in [Requests -> Replies]
      BY <1>10, <2>a, <1>st DEF ProviderRejects, TypeOK, BadRequest, MaxAttempts
    <2>1. TypeOK'
      BY <1>10, <2>b, <2>c, <2>d DEF ProviderRejects, TypeOK, Goto
    <2>2. Control'
      BY <1>10 DEF ProviderRejects, TypeOK, Control, Exhausted, Cacheable, Chain, Goto
    <2> QED BY <2>1, <2>2
  <1>11. ASSUME NEW r \in Requests, ProviderAnswers(r) PROVE TypeInv'
    <2>a. /\ Model(r) \in Models /\ pos[r] \in 1..MaxAttempts
          /\ depth[r] \in 0..MaxAttempts - 1 /\ Served(r) \in Replies
          /\ \A kind \in {"skip", "err", "status", "ok"} : \A status \in Nat :
                 Outcome(r, kind, status) \in Outcomes
          /\ LogRow(Model(r), FALSE, depth[r]) \in Rows
      BY <1>11, TryTyped DEF ProviderAnswers, Goto, Control
    <2>b. input[r].prompt \in Prompts
      BY <1>11 DEF ProviderAnswers, Goto, TypeOK, Control, Exhausted, Chain, Inputs, NoInput
    <2>c. trace' \in [Requests -> Seq(Outcomes)]
      BY <1>11, <2>a, RecordTyped DEF ProviderAnswers, OK
    <2>d. logJobs' \in [Requests -> Seq(Rows)]
      BY <1>11, <2>a, SpawnLogTyped DEF ProviderAnswers
    <2>e. storeJobs' \subseteq Entries
      BY <1>11, <2>a, <2>b DEF ProviderAnswers, StoredEntry, Entries, TypeOK
    <2>f. reply' \in [Requests -> Replies]
      BY <1>11, <2>a DEF ProviderAnswers, TypeOK
    <2>1. TypeOK'
      BY <1>11, <2>c, <2>d, <2>e, <2>f DEF ProviderAnswers, TypeOK, Goto
    <2>2. Control'
      BY <1>11 DEF ProviderAnswers, TypeOK, Control, Exhausted, Cacheable, Chain, Goto
    <2> QED BY <2>1, <2>2
  <1>12. ASSUME NEW r \in Requests, NEW status \in Refusals, ProviderRefuses(r, status) PROVE TypeInv'
    <2>a. /\ Model(r) \in Models /\ pos[r] \in 1..MaxAttempts
          /\ depth[r] \in 0..MaxAttempts - 1 /\ Served(r) \in Replies
          /\ \A kind \in {"skip", "err", "status", "ok"} : \A st \in Nat :
                 Outcome(r, kind, st) \in Outcomes
          /\ LogRow(Model(r), FALSE, depth[r]) \in Rows
      BY <1>12, TryTyped DEF ProviderRefuses, Goto, Control
    <2>b. /\ pos' \in [Requests -> 1..MaxAttempts + 1]
          /\ depth' \in [Requests -> 0..MaxAttempts]
          /\ \A q \in Requests : depth'[q] = pos'[q] - 1
      BY <1>12, NextModelTyped DEF ProviderRefuses, Goto, Control
    <2>c. trace' \in [Requests -> Seq(Outcomes)]
      BY <1>12, <2>a, RecordTyped, StatusAssumption DEF ProviderRefuses, Nil
    <2>d. lastErr' \in [Requests -> 0..MaxAttempts]
      BY <1>12, <2>a DEF ProviderRefuses, TypeOK, MaxAttempts
    <2>1. TypeOK'
      BY <1>12, <2>b, <2>c, <2>d DEF ProviderRefuses, TypeOK, Goto, jobs
    <2>2. Control'
      BY <1>12, <2>b DEF ProviderRefuses, TypeOK, Control, Exhausted, Cacheable, Chain, Goto, NextModel
    <2> QED BY <2>1, <2>2
  <1>13. ASSUME NEW r \in Requests, StreamBegins(r) PROVE TypeInv'
    <2>a. /\ Model(r) \in Models /\ pos[r] \in 1..MaxAttempts
          /\ depth[r] \in 0..MaxAttempts - 1 /\ Served(r) \in Replies
          /\ \A kind \in {"skip", "err", "status", "ok"} : \A status \in Nat :
                 Outcome(r, kind, status) \in Outcomes
          /\ LogRow(Model(r), FALSE, depth[r]) \in Rows
      BY <1>13, TryTyped DEF StreamBegins, Goto, Control
    <2>1. TypeOK'
      BY <1>13, <2>a DEF StreamBegins, TypeOK, Goto, jobs, OK, Nil, MaxAttempts
    <2>2. Control'
      BY <1>13 DEF StreamBegins, TypeOK, Control, Exhausted, Cacheable, Chain, Goto, Served
    <2> QED BY <2>1, <2>2
  <1>14. ASSUME NEW r \in Requests, StreamChunk(r) PROVE TypeInv'
    <2>a. Model(r) \in Models
      BY <1>14, ModelTyped DEF StreamChunk, Control
    <2>1. TypeOK'
      BY <1>14, <2>a DEF StreamChunk, TypeOK, jobs
    <2>2. Control'
      BY <1>14 DEF StreamChunk, TypeOK, Control, Exhausted, Cacheable, Chain
    <2> QED BY <2>1, <2>2
  <1>15. ASSUME NEW r \in Requests, StreamEnds(r) PROVE TypeInv'
    <2>a. /\ Model(r) \in Models /\ pos[r] \in 1..MaxAttempts
          /\ depth[r] \in 0..MaxAttempts - 1 /\ Served(r) \in Replies
          /\ \A kind \in {"skip", "err", "status", "ok"} : \A status \in Nat :
                 Outcome(r, kind, status) \in Outcomes
          /\ LogRow(Model(r), FALSE, depth[r]) \in Rows
      BY <1>15, TryTyped DEF StreamEnds, Goto, Control
    <2>b. trace' \in [Requests -> Seq(Outcomes)]
      BY <1>15, <2>a, RecordTyped DEF StreamEnds, OK
    <2>c. logJobs' \in [Requests -> Seq(Rows)]
      BY <1>15, <2>a, SpawnLogTyped DEF StreamEnds
    <2>1. TypeOK'
      BY <1>15, <2>b, <2>c DEF StreamEnds, TypeOK, Goto
    <2>2. Control'
      BY <1>15 DEF StreamEnds, TypeOK, Control, Exhausted, Cacheable, Chain, Goto
    <2> QED BY <2>1, <2>2
  <1>16. ASSUME NEW r \in Requests, WriteReply(r) PROVE TypeInv'
    <2>1. TypeOK'
      BY <1>16 DEF WriteReply, TypeOK, Goto, jobs
    <2>2. Control'
      BY <1>16 DEF WriteReply, TypeOK, Control, Exhausted, Cacheable, Chain, Goto
    <2> QED BY <2>1, <2>2
  <1>17. ASSUME NEW r \in Requests, LogInserted(r) PROVE TypeInv'
    <2>1. TypeOK'
      BY <1>17, LogInsertedTyped DEF LogInserted, TypeOK, serving
    <2>2. Control'
      BY <1>17 DEF LogInserted, TypeOK, Control, Exhausted, Cacheable, Chain, serving
    <2> QED BY <2>1, <2>2
  <1>18. ASSUME NEW r \in Requests, LogFails(r) PROVE TypeInv'
    <2>1. TypeOK'
      BY SMTT(30), <1>18, TailTyped DEF LogFails, TypeOK, serving
    <2>2. Control'
      BY <1>18 DEF LogFails, TypeOK, Control, Exhausted, Cacheable, Chain, serving
    <2> QED BY <2>1, <2>2
  <1>19. ASSUME NEW r \in Requests, ClientGone(r) PROVE TypeInv'
    <2>1. TypeOK'
      BY <1>19 DEF ClientGone, TypeOK, serving, jobs
    <2>2. Control'
      BY <1>19 DEF ClientGone, TypeOK, Control, Exhausted, Cacheable, Chain, serving
    <2> QED BY <2>1, <2>2
  <1>20. ASSUME NEW e, StoreRuns(e) PROVE TypeInv'
    <2>1. TypeOK'
      BY <1>20 DEF StoreRuns, TypeOK, serving
    <2>2. Control'
      BY <1>20 DEF StoreRuns, TypeOK, Control, Exhausted, Cacheable, Chain, serving
    <2> QED BY <2>1, <2>2
  <1>21. ASSUME NEW e, StoreFails(e) PROVE TypeInv'
    <2>1. TypeOK'
      BY <1>21 DEF StoreFails, TypeOK, serving
    <2>2. Control'
      BY <1>21 DEF StoreFails, TypeOK, Control, Exhausted, Cacheable, Chain, serving
    <2> QED BY <2>1, <2>2
  <1>22. ASSUME NEW e, CacheDrop(e) PROVE TypeInv'
    <2>1. TypeOK'
      BY <1>22 DEF CacheDrop, TypeOK, serving
    <2>2. Control'
      BY <1>22 DEF CacheDrop, TypeOK, Control, Exhausted, Cacheable, Chain, serving
    <2> QED BY <2>1, <2>2
  <1>23. ASSUME Signal PROVE TypeInv'
    <2>1. TypeOK'
      BY <1>23 DEF Signal, TypeOK, serving, jobs
    <2>2. Control'
      BY <1>23 DEF Signal, TypeOK, Control, Exhausted, Cacheable, Chain, serving
    <2> QED BY <2>1, <2>2
  <1>24. ASSUME ShutdownDone PROVE TypeInv'
    <2>1. TypeOK'
      BY <1>24 DEF ShutdownDone, TypeOK, Exit, serving
    <2>2. Control'
      BY <1>24 DEF ShutdownDone, TypeOK, Control, Exhausted, Cacheable, Chain, Exit, serving
    <2> QED BY <2>1, <2>2
  <1>25. ASSUME Killed PROVE TypeInv'
    <2>1. TypeOK'
      BY <1>25 DEF Killed, TypeOK, Exit
    <2>2. Control'
      BY <1>25 DEF Killed, TypeOK, Control, Exhausted, Cacheable, Chain, Exit, Active
    <2> QED BY <2>1, <2>2
  <1>26. ASSUME Restart PROVE TypeInv'
    <2>1. TypeOK'
      BY <1>26 DEF Restart, TypeOK, serving, jobs
    <2>2. Control'
      BY <1>26 DEF Restart, TypeOK, Control, Exhausted, Cacheable, Chain, serving
    <2> QED BY <2>1, <2>2
  <1>27. ASSUME UNCHANGED vars PROVE TypeInv'
    BY <1>27 DEF vars, serving, jobs, TypeOK, Control, Exhausted, Cacheable, Chain
  <1> QED
    BY <1>1, <1>2, <1>3, <1>4, <1>5, <1>6, <1>7, <1>8, <1>9, <1>10, <1>11, <1>12, <1>13, <1>14, <1>15, <1>16, <1>17, <1>18, <1>19, <1>20, <1>21, <1>22, <1>23, <1>24, <1>25, <1>26, <1>27
       DEF Next, RequestStep, HandlerStep, EntryStep, ProcessStep

\* Every variable keeps its type and a model is only called while it is one of
\* the first three of the chain: proxy.go:79-81 bounds the whole loop.
THEOREM TypeCorrect == Spec => []TypeOK
  <1>1. Spec => []TypeInv
    BY InitTypeInv, NextTypeInv, PTL DEF Spec
  <1> QED
    BY <1>1, PTL DEF TypeInv

-----------------------------------------------------------------------------
(* Where cached responses come from. *)

Final == {"replying", "done", "aborted"}

\* Only finished handlers are the source of a cached or a reused response:
\* this is what makes CacheProvenance and HitIsHonest inductive.
Settled ==
    /\ \A e \in cache \cup storeJobs : pc[e.from] \in Final
    /\ \A r \in Requests : reply[r].hit =>
         reply[r].from \in Requests /\ pc[reply[r].from] \in Final

Provenance == CacheProvenance /\ HitIsHonest /\ Settled

\* What a finished request was asked and answered never changes again.
AnswersKept == \A p \in Requests : pc[p] \in Final =>
    pc'[p] \in Final /\ reply'[p] = reply[p] /\ input'[p] = input[p]

\* A step that caches nothing new and serves no hit.
NothingNew ==
    /\ cache' \cup storeJobs' \subseteq cache \cup storeJobs
    /\ \A r \in Requests : reply'[r].hit => reply'[r] = reply[r]

LEMMA NextKeepsAnswers == TypeOK /\ [Next]_vars => AnswersKept
  <1> SUFFICES ASSUME TypeOK, [Next]_vars PROVE AnswersKept
    OBVIOUS
  <1>t. /\ pc \in [Requests -> {"idle", "lookup", "loop", "calling", "streaming",
                                "replying", "done", "aborted"}]
        /\ input \in [Requests -> Inputs \cup {NoInput}]
        /\ reply \in [Requests -> Replies]
    BY DEF TypeOK
  <1>1. ASSUME NEW r \in Requests, RejectBody(r) PROVE AnswersKept
    BY <1>1, <1>t DEF RejectBody, Goto, AnswersKept, Final
  <1>2. ASSUME NEW r \in Requests, Receive(r) PROVE AnswersKept
    BY <1>2, <1>t DEF Receive, Goto, AnswersKept, Final
  <1>3. ASSUME NEW r \in Requests, NoChain(r) PROVE AnswersKept
    BY <1>3, <1>t DEF NoChain, Goto, AnswersKept, Final
  <1>4. ASSUME NEW r \in Requests, LookupHit(r) PROVE AnswersKept
    BY <1>4, <1>t DEF LookupHit, Goto, AnswersKept, Final
  <1>5. ASSUME NEW r \in Requests, LookupMiss(r) PROVE AnswersKept
    BY <1>5, <1>t DEF LookupMiss, Goto, AnswersKept, Final
  <1>6. ASSUME NEW r \in Requests, SkipModel(r) PROVE AnswersKept
    BY <1>6, <1>t DEF SkipModel, Goto, AnswersKept, Final
  <1>7. ASSUME NEW r \in Requests, CallProvider(r) PROVE AnswersKept
    BY <1>7, <1>t DEF CallProvider, Goto, AnswersKept, Final
  <1>8. ASSUME NEW r \in Requests, AllFailed(r) PROVE AnswersKept
    BY <1>8, <1>t DEF AllFailed, Goto, AnswersKept, Final
  <1>9. ASSUME NEW r \in Requests, CallFails(r) PROVE AnswersKept
    BY <1>9, <1>t DEF CallFails, Goto, AnswersKept, Final
  <1>10. ASSUME NEW r \in Requests, ProviderRejects(r) PROVE AnswersKept
    BY <1>10, <1>t DEF ProviderRejects, Goto, AnswersKept, Final
  <1>11. ASSUME NEW r \in Requests, ProviderAnswers(r) PROVE AnswersKept
    BY <1>11, <1>t DEF ProviderAnswers, Goto, AnswersKept, Final
  <1>12. ASSUME NEW r \in Requests, StreamBegins(r) PROVE AnswersKept
    BY <1>12, <1>t DEF StreamBegins, Goto, AnswersKept, Final
  <1>13. ASSUME NEW r \in Requests, StreamEnds(r) PROVE AnswersKept
    BY <1>13, <1>t DEF StreamEnds, Goto, AnswersKept, Final
  <1>14. ASSUME NEW r \in Requests, WriteReply(r) PROVE AnswersKept
    BY <1>14, <1>t DEF WriteReply, Goto, AnswersKept, Final
  <1>15. ASSUME NEW r \in Requests, NEW status \in Refusals, ProviderRefuses(r, status)
        PROVE  AnswersKept
    BY <1>15, <1>t DEF ProviderRefuses, Goto, AnswersKept, Final
  <1>16. ASSUME UNCHANGED <<pc, input, reply>> PROVE AnswersKept
    BY <1>16 DEF AnswersKept
  <1>17. ASSUME Killed PROVE AnswersKept
    BY <1>17, <1>t DEF Killed, Active, AnswersKept, Final
  <1> QED
    BY <1>1, <1>2, <1>3, <1>4, <1>5, <1>6, <1>7, <1>8, <1>9, <1>10, <1>11, <1>12, <1>13, <1>14, <1>15, <1>16, <1>17
       DEF Next, RequestStep, HandlerStep, EntryStep, ProcessStep, vars, serving, StreamChunk,
           ClientGone, LogInserted, LogFails, StoreRuns, StoreFails, CacheDrop, Signal,
           ShutdownDone, Restart

LEMMA NextNothingNew ==
    TypeOK /\ [Next]_vars =>
      \/ NothingNew
      \/ \E r \in Requests : LookupHit(r) \/ ProviderAnswers(r)
  <1> SUFFICES ASSUME TypeOK, [Next]_vars,
                      ~ \E r \in Requests : LookupHit(r) \/ ProviderAnswers(r)
               PROVE  NothingNew
    OBVIOUS
  <1>t. reply \in [Requests -> Replies]
    BY DEF TypeOK
  <1>e. \A s, k : ErrorReply(s, k).hit = FALSE
    BY DEF ErrorReply, NoReply
  <1>1. ASSUME NEW r \in Requests, RejectBody(r) PROVE NothingNew
    BY <1>1, <1>t, <1>e DEF RejectBody, jobs, NothingNew
  <1>2. ASSUME NEW r \in Requests, NoChain(r) PROVE NothingNew
    BY <1>2, <1>t, <1>e DEF NoChain, jobs, NothingNew
  <1>3. ASSUME NEW r \in Requests, AllFailed(r) PROVE NothingNew
    BY <1>3, <1>t, <1>e DEF AllFailed, jobs, NothingNew
  <1>4. ASSUME NEW r \in Requests, ProviderRejects(r) PROVE NothingNew
    BY <1>4, <1>t, <1>e DEF ProviderRejects, jobs, NothingNew
  <1>5. ASSUME NEW r \in Requests, StreamBegins(r) PROVE NothingNew
    BY <1>5, <1>t DEF StreamBegins, Served, jobs, NothingNew
  <1>6. ASSUME UNCHANGED <<cache, storeJobs, reply>> PROVE NothingNew
    BY <1>6 DEF NothingNew
  <1>7. ASSUME NEW e, EntryStep(e) PROVE NothingNew
    BY <1>7 DEF EntryStep, StoreRuns, StoreFails, CacheDrop, serving, NothingNew
  <1>8. ASSUME Exit, UNCHANGED reply PROVE NothingNew
    BY <1>8 DEF Exit, NothingNew
  <1> QED
    BY <1>1, <1>2, <1>3, <1>4, <1>5, <1>6, <1>7, <1>8
       DEF Next, RequestStep, HandlerStep, ProcessStep, vars, serving, jobs, Receive, LookupMiss,
           SkipModel, CallProvider, CallFails, ProviderRefuses, StreamChunk, StreamEnds, WriteReply,
           ClientGone, LogInserted, LogFails, Signal, ShutdownDone, Killed, Restart

LEMMA InitProvenance == Init => Provenance
  BY DEF Init, Provenance, CacheProvenance, HitIsHonest, Settled, NoReply

LEMMA NextProvenance == TypeInv /\ Provenance /\ [Next]_vars => Provenance'
  <1> SUFFICES ASSUME TypeInv, Provenance, [Next]_vars PROVE Provenance'
    OBVIOUS
  <1> USE DEF TypeInv
  <1>kept. AnswersKept
    BY NextKeepsAnswers
  <1>from. /\ \A e \in cache \cup storeJobs : e.from \in Requests
           /\ \A r \in Requests : reply[r].hit => reply[r].from \in Requests
    <2>1. \A e \in cache \cup storeJobs : e.from \in Requests
      BY DEF TypeOK, Entries
    <2>2. \A r \in Requests : reply[r].hit => reply[r].from \in Requests
      BY DEF Provenance, Settled
    <2> QED BY <2>1, <2>2
  <1>hit. \A r \in Requests : reply[r].hit => pc[r] \in Final
    BY DEF Control, Final, NoReply, TypeOK
  \* A finished request keeps what it was asked and answered.
  <1>keep. \A p \in Requests : pc[p] \in Final =>
             /\ pc'[p] \in Final /\ reply'[p] = reply[p] /\ input'[p] = input[p]
             /\ Cacheable(p) => Cacheable(p)'
             /\ \A m \in Models : AnsweredBy(p, m) => AnsweredBy(p, m)'
    BY <1>kept DEF AnswersKept, Cacheable, AnsweredBy
  <1>old. \A e \in cache \cup storeJobs :
             /\ pc'[e.from] \in Final
             /\ Cacheable(e.from)' /\ e.prompt = input'[e.from].prompt
             /\ \E m \in Models : NameOf[m] = e.name /\ AnsweredBy(e.from, m)'
    BY <1>keep, <1>from DEF Provenance, CacheProvenance, Settled
  <1>oldhit. \A r \in Requests : reply[r].hit =>
        LET p == reply[r].from IN
          /\ reply'[r] = reply[r] /\ p \in Requests /\ pc'[p] \in Final
          /\ Cacheable(r)' /\ Cacheable(p)'
          /\ Distance[input'[r].prompt][input'[p].prompt] <= MaxDistance
          /\ \E m \in Models : AnsweredBy(p, m)' /\ NameOf[m] = NameOf[reply[r].by]
    BY <1>keep, <1>from, <1>hit DEF Provenance, HitIsHonest, Settled
  <1>1. CASE NothingNew
    <2>1. CacheProvenance'
      BY <1>1, <1>old DEF NothingNew, CacheProvenance
    <2>2. HitIsHonest'
      BY <1>1, <1>oldhit DEF NothingNew, HitIsHonest
    <2>3. Settled'
      BY <1>1, <1>old, <1>oldhit DEF NothingNew, Settled
    <2> QED BY <2>1, <2>2, <2>3 DEF Provenance
  <1>2. ASSUME NEW r \in Requests, LookupHit(r) PROVE Provenance'
    <2>1. PICK e \in Nearest(r) :
            reply' = [reply EXCEPT ![r] =
              [status |-> OK, hit |-> TRUE, by |-> Chain(r)[1], depth |-> 0,
               from |-> e.from, error |-> Nil]]
      BY <1>2 DEF LookupHit
    <2>2. /\ e \in cache /\ e.name = NameOf[Chain(r)[1]]
          /\ Distance[input[r].prompt][e.prompt] <= MaxDistance
      BY DEF Nearest, Tagged
    <2>3. /\ pc[r] = "lookup" /\ input' = input /\ cache' = cache /\ storeJobs' = storeJobs
          /\ Cacheable(r)
      BY <1>2 DEF LookupHit, Goto, Control
    <2>4. /\ reply'[r].hit /\ reply'[r].from = e.from /\ reply'[r].by = Chain(r)[1]
          /\ \A q \in Requests \ {r} : reply'[q] = reply[q]
      BY <2>1 DEF TypeOK
    <2>5. /\ e.from \in Requests /\ pc'[e.from] \in Final
          /\ Cacheable(e.from)' /\ e.prompt = input'[e.from].prompt
          /\ \E m \in Models : NameOf[m] = e.name /\ AnsweredBy(e.from, m)'
      BY <2>2, <1>old, <1>from
    <2>6. Cacheable(r)'
      BY <2>3 DEF Cacheable
    <2>7. CacheProvenance'
      BY <2>3, <1>old DEF CacheProvenance
    <2>8. HitIsHonest'
      BY <2>2, <2>3, <2>4, <2>5, <2>6, <1>oldhit DEF HitIsHonest
    <2>9. Settled'
      BY <2>3, <2>4, <2>5, <1>old, <1>oldhit DEF Settled
    <2> QED BY <2>7, <2>8, <2>9 DEF Provenance
  <1>3. ASSUME NEW r \in Requests, ProviderAnswers(r) PROVE Provenance'
    <2>1. /\ pc[r] = "calling" /\ pc'[r] = "replying" /\ ~input[r].stream
          /\ input' = input /\ cache' = cache /\ reply'[r] = Served(r)
          /\ \A q \in Requests \ {r} : reply'[q] = reply[q]
          /\ storeJobs' = storeJobs \cup (IF input[r].cold THEN {StoredEntry(r)} ELSE {})
      BY <1>3 DEF ProviderAnswers, Goto, TypeOK
    <2>2. Model(r) \in Models
      BY <2>1, TryTyped DEF Control
    <2>3. AnsweredBy(r, Model(r))'
      <3>1. reply'[r].status = OK /\ ~reply'[r].hit /\ reply'[r].by = Model(r)
              /\ reply'[r].from = r
        BY <2>1 DEF Served
      <3> QED
        BY <3>1, <1>3 DEF AnsweredBy, ProviderAnswers, Model, Chain
    <2>4. \A e \in cache' \cup storeJobs' : e \in cache \cup storeJobs \/
            (e = StoredEntry(r) /\ input[r].cold)
      BY <2>1
    <2>5. StoredEntry(r).from = r /\ StoredEntry(r).prompt = input[r].prompt
            /\ StoredEntry(r).name = NameOf[Model(r)]
      BY DEF StoredEntry
    <2>6. input[r].cold => Cacheable(r)'
      BY <2>1 DEF Cacheable
    <2>n. \A m \in Models : m = Model(r) => AnsweredBy(r, m)'
      BY <2>3, <1>3 DEF AnsweredBy, ProviderAnswers, Model, Chain
    <2>7. CacheProvenance'
      BY <2>1, <2>2, <2>n, <2>4, <2>5, <2>6, <1>old DEF CacheProvenance
    <2>8. ~reply'[r].hit
      BY <2>1 DEF Served
    <2>9. HitIsHonest'
      BY <2>1, <2>8, <1>oldhit DEF HitIsHonest
    <2>10. Settled'
      BY <2>1, <2>4, <2>5, <2>8, <1>old, <1>oldhit DEF Settled, Final
    <2> QED BY <2>7, <2>9, <2>10 DEF Provenance
  <1> QED
    BY <1>1, <1>2, <1>3, NextNothingNew

LEMMA ProvenanceInvariant == Spec => [](TypeInv /\ Provenance)
  <1>1. Init => TypeInv /\ Provenance
    BY InitTypeInv, InitProvenance
  <1>2. TypeInv /\ Provenance /\ [Next]_vars => (TypeInv /\ Provenance)'
    BY NextTypeInv, NextProvenance
  <1> QED
    BY <1>1, <1>2, PTL DEF Spec

\* Whatever the chain, the fallbacks, the interleaving and the crashes, a cached
\* response is a provider's answer filed under the name of the model that gave
\* it, not under the name of the model the client asked for.
THEOREM CacheIsProvenanced == Spec => []CacheProvenance
  BY ProvenanceInvariant, PTL DEF Provenance

\* A cache hit is a near prompt's response from a model of the name announced,
\* and never a response that was itself a hit.
THEOREM HitsAreHonest == Spec => []HitIsHonest
  BY ProvenanceInvariant, PTL DEF Provenance

-----------------------------------------------------------------------------
(* What a request is owed, at every place its handler can be. *)

\* What the handler and the goroutines of q hold is as it was.
Untouched(q) ==
    /\ pc'[q] = pc[q] /\ input'[q] = input[q] /\ pos'[q] = pos[q] /\ depth'[q] = depth[q]
    /\ lastStatus'[q] = lastStatus[q] /\ lastErr'[q] = lastErr[q] /\ trace'[q] = trace[q]
    /\ reply'[q] = reply[q] /\ wire'[q] = wire[q]
    /\ logJobs'[q] = logJobs[q] /\ rows'[q] = rows[q] /\ lost'[q] = lost[q]

\* An attempt after which the handler goes on.
Failed(o) ==
    \/ o.kind \in {"skip", "err"} /\ o.status = Nil
    \/ o.kind = "status" /\ o.status \in Refusals

\* lastResult is that of the latest refusal.
LastRefusal(r) ==
    \/ lastStatus[r] = Nil /\ Positions(r, {"status"}) = {}
    \/ \E k \in Positions(r, {"status"}) :
         k = Latest(Positions(r, {"status"})) /\ lastStatus[r] = trace[r][k].status

\* Until the handler knows its answer, its attempts are the models it passed over, in
\* their order, and all of them failed.
Underway(r) ==
    /\ pc[r] = "idle" => input[r] = NoInput
    /\ pc[r] \in {"idle", "lookup"} => trace[r] = <<>>
    /\ pc[r] \notin Final =>
         /\ Len(trace[r]) = pos[r] - 1 /\ pos[r] <= Len(Chain(r)) + 1
         /\ \A k \in 1..Len(trace[r]) : trace[r][k].model = Chain(r)[k] /\ Failed(trace[r][k])
         /\ LastRefusal(r)
         /\ lastErr[r] = Latest(Positions(r, {"status", "err"}))

\* Only a handler that streams, or did, has sent bytes, and its headers name the model
\* they came from.
Streamed(r) ==
    /\ pc[r] = "streaming" => reply[r] = Served(r)
    /\ wire[r] # {} =>
         pc[r] \in {"streaming", "done", "aborted"} /\ wire[r] = {reply[r].by}

\* What ReplyIsVerdict says of one request.
Reached(r) ==
    (pc[r] \in {"replying", "done"} /\ ~reply[r].hit /\ input[r] # NoInput) =>
        /\ reply[r] = Verdict(r)
        /\ \A k \in 1..Len(trace[r]) - 1 : Retryable(trace[r][k])
        /\ \A k \in 1..Len(trace[r]) : trace[r][k].model = Chain(r)[k]
        /\ Len(trace[r]) <= MaxAttempts
        /\ reply[r].status # OK /\ Retryable(trace[r][Len(trace[r])]) =>
              Len(trace[r]) \in {Len(Chain(r)), MaxAttempts}

\* A handler that is about to write its reply decided on it, and an answer that is not a
\* hit is the request's own.
Concluded(r) ==
    /\ pc[r] = "replying" => Decided(r)
    /\ Decided(r) /\ ~reply[r].hit => reply[r].status = OK /\ reply[r].from = r
    /\ Reached(r)

Accounted(r) == Len(logJobs[r]) + Len(rows[r]) + lost[r] = Owed(r)

\* What RowMatchesReply says of a row, which a goroutine may still hold.
Matches(row, r) ==
    row.model = reply[r].by /\ row.hit = reply[r].hit /\ row.depth = reply[r].depth
RowsMatch(r) == reply[r].status = OK =>
    /\ \A i \in 1..Len(logJobs[r]) : Matches(logJobs[r][i], r)
    /\ \A i \in 1..Len(rows[r]) : Matches(rows[r][i], r)

RequestInv(r) ==
    Underway(r) /\ Streamed(r) /\ Concluded(r) /\ Accounted(r) /\ RowsMatch(r)

\* A stored response was the answer to its request.
SourcesDecided == \A e \in cache \cup storeJobs : Decided(e.from)

\* What RequestInv needs of the types.
LEMMA RequestTyped ==
    ASSUME TypeInv, NEW r \in Requests
    PROVE  /\ pc[r] \in {"idle", "lookup", "loop", "calling", "streaming", "replying",
                         "done", "aborted"}
           /\ input[r] \in Inputs \cup {NoInput} /\ Chain(r) \in Seq(Models)
           /\ pos[r] \in 1..MaxAttempts + 1 /\ depth[r] = pos[r] - 1
           /\ reply[r] \in Replies
           /\ trace[r] \in Seq(Outcomes) /\ Len(trace[r]) \in Nat
           /\ logJobs[r] \in Seq(Rows) /\ Len(logJobs[r]) \in Nat
           /\ rows[r] \in Seq(Rows) /\ Len(rows[r]) \in Nat
           /\ lost[r] \in Nat
  <1>1. input[r] \in Inputs \cup {NoInput}
    BY DEF TypeInv, TypeOK
  <1>2. Chain(r) \in Seq(Models)
    <2>1. CASE input[r] \in Inputs
      BY <2>1, ModelAssumption DEF Chain, Inputs
    <2>2. CASE input[r] = NoInput
      BY <2>2 DEF Chain, NoInput
    <2> QED
      BY <1>1, <2>1, <2>2
  <1>3. trace[r] \in Seq(Outcomes) /\ logJobs[r] \in Seq(Rows) /\ rows[r] \in Seq(Rows)
    BY DEF TypeInv, TypeOK
  <1> QED
    BY <1>1, <1>2, <1>3 DEF TypeInv, TypeOK, Control

\* A request that nothing touched keeps its invariant.
LEMMA UntouchedInv ==
    ASSUME NEW q \in Requests, RequestInv(q), Untouched(q)
    PROVE  RequestInv(q)'
  <1> USE DEF Untouched
  <1>1. \A kinds : Positions(q, kinds)' = Positions(q, kinds)
    BY DEF Positions
  <1>2. Underway(q)'
    BY <1>1 DEF RequestInv, Underway, LastRefusal, Chain
  <1>3. Streamed(q)'
    BY DEF RequestInv, Streamed, Served, Model, Chain
  <1>4. Decided(q)' = Decided(q) /\ Owed(q)' = Owed(q) /\ Verdict(q)' = Verdict(q)
    BY <1>1 DEF Decided, Owed, Verdict
  <1>5. Reached(q)'
    BY <1>4 DEF RequestInv, Concluded, Reached, Chain
  <1>6. Concluded(q)'
    BY <1>4, <1>5 DEF RequestInv, Concluded
  <1>7. Accounted(q)'
    BY <1>4 DEF RequestInv, Accounted
  <1>8. RowsMatch(q)'
    BY DEF RequestInv, RowsMatch, Matches
  <1> QED
    BY <1>2, <1>3, <1>6, <1>7, <1>8 DEF RequestInv

-----------------------------------------------------------------------------
(* The attempts of a request. *)

\* The last position of a set that gains one beyond its bound.
LEMMA LatestOfMore ==
    ASSUME NEW n \in Nat, NEW S \in SUBSET (1..n)
    PROVE  Latest(S \cup {n + 1}) = n + 1
  <1>1. n + 1 \in S \cup {n + 1} /\ \A j \in S \cup {n + 1} : j <= n + 1
    OBVIOUS
  <1>2. \A k \in S \cup {n + 1} : (\A j \in S \cup {n + 1} : j <= k) => k = n + 1
    OBVIOUS
  <1> QED
    BY <1>1, <1>2 DEF Latest

\* What Record does to a trace.
LEMMA Recorded ==
    ASSUME TypeInv, NEW r \in Requests, NEW o \in Outcomes, Record(r, o)
    PROVE  /\ Len(trace'[r]) = Len(trace[r]) + 1
           /\ trace'[r][Len(trace[r]) + 1] = o
           /\ \A k \in 1..Len(trace[r]) : trace'[r][k] = trace[r][k]
           /\ trace'[r] # <<>>
           /\ \A q \in Requests \ {r} : trace'[q] = trace[q]
  <1>1. trace[r] \in Seq(Outcomes)
    BY RequestTyped
  <1>2. trace'[r] = Append(trace[r], o) /\ \A q \in Requests \ {r} : trace'[q] = trace[q]
    BY DEF Record, TypeInv, TypeOK
  <1> QED
    BY <1>1, <1>2

\* ... and to the positions of a kind.
LEMMA PositionsRecorded ==
    ASSUME TypeInv, NEW r \in Requests, NEW o \in Outcomes, Record(r, o), NEW kinds
    PROVE  Positions(r, kinds)' = Positions(r, kinds)
              \cup (IF o.kind \in kinds THEN {Len(trace[r]) + 1} ELSE {})
  <1>1. Len(trace[r]) \in Nat
    BY RequestTyped
  <1>2. 1..Len(trace'[r]) = 1..Len(trace[r]) \cup {Len(trace[r]) + 1}
    BY <1>1, Recorded
  <1> QED
    BY <1>1, <1>2, Recorded DEF Positions

\* An attempt that failed becomes a part of the trace, and the model after it is next.
LEMMA AttemptFails ==
    ASSUME TypeInv, NEW r \in Requests, Underway(r), pc[r] \in {"loop", "calling"},
           ~Exhausted(r), NEW kind, NEW status,
           Outcome(r, kind, status) \in Outcomes, Failed(Outcome(r, kind, status)),
           Record(r, Outcome(r, kind, status)), NextModel(r),
           input' = input, pc'[r] = "loop",
           lastStatus'[r] = IF kind = "status" THEN status ELSE lastStatus[r],
           lastErr'[r] = IF kind \in {"status", "err"} THEN pos[r] ELSE lastErr[r]
    PROVE  Underway(r)'
  <1> DEFINE o == Outcome(r, kind, status)
             n == Len(trace[r])
  <1>1. /\ Len(trace[r]) \in Nat /\ pos[r] \in Nat /\ Chain(r) \in Seq(Models)
        /\ Len(trace[r]) = pos[r] - 1
    BY RequestTyped DEF Underway, Final, MaxAttempts
  <1>2. o \in Outcomes /\ Record(r, o) /\ o.model = Chain(r)[pos[r]] /\ o.kind = kind
          /\ o.status = status /\ Failed(o)
    BY DEF Outcome, Model
  <1>3. pos'[r] = pos[r] + 1 /\ pos[r] <= Len(Chain(r)) /\ Chain(r)' = Chain(r)
    BY <1>1 DEF NextModel, TypeInv, TypeOK, Exhausted, Chain
  <1>4. Len(trace'[r]) = pos'[r] - 1 /\ pos'[r] <= Len(Chain(r)) + 1
    <2>1. Len(Chain(r)) \in Nat
      BY <1>1
    <2> QED
      BY <1>1, <1>2, <1>3, <2>1, Recorded
  <1>5. \A k \in 1..Len(trace'[r]) :
          trace'[r][k].model = Chain(r)[k] /\ Failed(trace'[r][k])
    <2>1. \A k \in 1..n : trace'[r][k].model = Chain(r)[k] /\ Failed(trace'[r][k])
      BY <1>2, Recorded DEF Underway, Final
    <2>2. trace'[r][n + 1] = o /\ Len(trace'[r]) = n + 1
      BY <1>2, Recorded
    <2>3. n + 1 = pos[r]
      BY <1>1
    <2>4. \A k \in 1..n + 1 : k \in 1..n \/ k = n + 1
      BY <1>1
    <2> HIDE DEF o, n
    <2> QED
      BY <1>2, <2>1, <2>2, <2>3, <2>4
  <1>6. \A kinds : Positions(r, kinds)' = Positions(r, kinds)
                     \cup (IF kind \in kinds THEN {n + 1} ELSE {})
    BY <1>2, PositionsRecorded
  <1>7. \A kinds : Positions(r, kinds) \in SUBSET (1..n)
    BY DEF Positions
  <1>8. LastRefusal(r)'
    <2>1. CASE kind = "status"
      <3>1. Positions(r, {"status"})' = Positions(r, {"status"}) \cup {n + 1}
        BY <1>6, <2>1
      <3>2. Latest(Positions(r, {"status"}) \cup {n + 1}) = n + 1
        BY <1>1, <1>7, LatestOfMore
      <3>3. lastStatus'[r] = trace'[r][n + 1].status
        BY <1>2, <2>1, Recorded
      <3> QED
        BY <3>1, <3>2, <3>3 DEF LastRefusal
    <2>2. CASE kind # "status"
      <3>1. Positions(r, {"status"})' = Positions(r, {"status"})
        BY ZenonT(60), <1>6, <2>2
      <3>2. \A k \in Positions(r, {"status"}) : trace'[r][k] = trace[r][k]
        BY <1>2, <1>7, Recorded
      <3>3. lastStatus'[r] = lastStatus[r] /\ LastRefusal(r)
        BY <2>2 DEF Underway, Final
      <3> QED
        BY <3>1, <3>2, <3>3 DEF LastRefusal
    <2> QED
      BY <2>1, <2>2
  <1>9. lastErr'[r] = Latest(Positions(r, {"status", "err"}))'
    <2>1. CASE kind \in {"status", "err"}
      <3>1. Positions(r, {"status", "err"})' = Positions(r, {"status", "err"}) \cup {n + 1}
        BY <1>6, <2>1
      <3>2. Latest(Positions(r, {"status", "err"}) \cup {n + 1}) = n + 1
        BY <1>1, <1>7, LatestOfMore
      <3>3. lastErr'[r] = n + 1
        BY <1>1, <2>1
      <3>4. Latest(Positions(r, {"status", "err"}))' = Latest(Positions(r, {"status", "err"})')
        BY DEF Latest
      <3> QED
        BY <3>1, <3>2, <3>3, <3>4
    <2>2. CASE kind \notin {"status", "err"}
      <3>1. Positions(r, {"status", "err"})' = Positions(r, {"status", "err"})
        BY ZenonT(60), <1>6, <2>2
      <3> QED
        BY <2>2, <3>1 DEF Underway, Final, Latest
    <2> QED
      BY <2>1, <2>2
  <1> QED
    BY <1>3, <1>4, <1>5, <1>8, <1>9 DEF Underway

-----------------------------------------------------------------------------
(* What the handler answers, and what it then owes. *)

\* A failed attempt is one that the loop goes on from.
LEMMA FailedIsRetryable ==
    ASSUME NEW o, Failed(o)
    PROVE  Retryable(o) /\ o.kind # "ok" /\ o.status # BadRequest
  BY StatusAssumption DEF Failed, Retryable, Nil, BadRequest

\* When every attempt failed, the verdict is what lastResult and lastErr say.
LEMMA VerdictOfFailures ==
    ASSUME TypeInv, NEW r \in Requests, Underway(r), pc[r] \notin Final
    PROVE  Verdict(r) =
             ErrorReply(IF lastStatus[r] # Nil THEN lastStatus[r] ELSE BadGateway, lastErr[r])
  <1> DEFINE n == Len(trace[r])
             refused == Latest(Positions(r, {"status"}))
  <1>1. n \in Nat
    BY RequestTyped
  <1>2. n > 0 => trace[r][n].kind # "ok" /\ trace[r][n].status # BadRequest
    <2>1. n > 0 => Failed(trace[r][n])
      BY <1>1 DEF Underway
    <2> QED
      BY <2>1, FailedIsRetryable
  <1>3. (IF refused # Nil THEN trace[r][refused].status ELSE BadGateway)
          = (IF lastStatus[r] # Nil THEN lastStatus[r] ELSE BadGateway)
    <2>1. CASE lastStatus[r] = Nil /\ Positions(r, {"status"}) = {}
      BY <2>1 DEF Latest
    <2>2. ASSUME NEW k \in Positions(r, {"status"}), k = refused,
                 lastStatus[r] = trace[r][k].status
          PROVE  refused # Nil /\ lastStatus[r] = trace[r][refused].status
                   /\ lastStatus[r] # Nil
      <3>1. k \in 1..n /\ trace[r][k].kind = "status"
        BY DEF Positions
      <3>2. trace[r][k].status \in Refusals
        BY <3>1 DEF Underway, Failed
      <3> QED
        BY <1>1, <2>2, <3>1, <3>2, StatusAssumption DEF Nil
    <2>3. LastRefusal(r)
      BY DEF Underway
    <2> QED
      BY <2>1, <2>2, <2>3 DEF LastRefusal
  <1>4. lastErr[r] = Latest(Positions(r, {"status", "err"}))
    BY DEF Underway
  <1> QED
    BY <1>2, <1>3, <1>4 DEF Verdict

\* The attempt that ends the loop: an answer, or a 400.
LEMMA LastAttempt ==
    ASSUME TypeInv, NEW r \in Requests, Underway(r), pc[r] \in {"calling", "streaming"},
           input' = input, NEW kind, NEW status,
           Outcome(r, kind, status) \in Outcomes, Record(r, Outcome(r, kind, status))
    PROVE  /\ Len(trace'[r]) = pos[r] /\ pos[r] \in 1..MaxAttempts /\ trace'[r] # <<>>
           /\ trace'[r][pos[r]] = Outcome(r, kind, status)
           /\ \A k \in 1..Len(trace'[r]) - 1 : Retryable(trace'[r][k])
           /\ \A k \in 1..Len(trace'[r]) : trace'[r][k].model = Chain(r)'[k]
  <1> DEFINE o == Outcome(r, kind, status)
             n == Len(trace[r])
  <1>1. ~Exhausted(r) /\ pos[r] \in 1..MaxAttempts
    BY ModelTyped DEF TypeInv, Control
  <1>2. n \in Nat /\ n + 1 = pos[r]
    BY <1>1, RequestTyped DEF Underway, Final, MaxAttempts
  <1>3. Len(trace'[r]) = n + 1 /\ trace'[r][n + 1] = o
          /\ (\A k \in 1..n : trace'[r][k] = trace[r][k]) /\ trace'[r] # <<>>
    BY Recorded
  <1>4. \A k \in 1..n : trace'[r][k].model = Chain(r)[k] /\ Retryable(trace'[r][k])
    BY <1>3, FailedIsRetryable DEF Underway, Final
  <1>5. o.model = Chain(r)[pos[r]] /\ Chain(r)' = Chain(r)
    BY DEF Outcome, Model, Chain
  <1>6. \A k \in 1..n + 1 : k \in 1..n \/ k = n + 1
    BY <1>2
  <1>7. (n + 1) - 1 = n
    BY <1>2
  <1> HIDE DEF o, n
  <1>8. \A k \in 1..Len(trace'[r]) : trace'[r][k].model = Chain(r)'[k]
    BY <1>2, <1>3, <1>4, <1>5, <1>6
  <1>9. \A k \in 1..Len(trace'[r]) - 1 : Retryable(trace'[r][k])
    BY <1>3, <1>4, <1>7
  <1> QED
    BY <1>1, <1>2, <1>3, <1>8, <1>9 DEF o

LEMMA NoSum ==
    ASSUME NEW a \in Nat, NEW b \in Nat, NEW c \in Nat, a + b + c = 0
    PROVE  a = 0 /\ b = 0 /\ c = 0
  OBVIOUS

\* A request that owes no row has none.
LEMMA NothingOwed ==
    ASSUME TypeInv, NEW r \in Requests, RequestInv(r), Owed(r) = 0
    PROVE  logJobs[r] = <<>> /\ rows[r] = <<>> /\ lost[r] = 0
  <1>1. /\ Len(logJobs[r]) \in Nat /\ Len(rows[r]) \in Nat /\ lost[r] \in Nat
        /\ Len(logJobs[r]) + Len(rows[r]) + lost[r] = 0
    BY RequestTyped DEF RequestInv, Accounted
  <1>2. Len(logJobs[r]) = 0 /\ Len(rows[r]) = 0 /\ lost[r] = 0
    BY <1>1, NoSum
  <1>3. logJobs[r] \in Seq(Rows) /\ rows[r] \in Seq(Rows)
    BY RequestTyped
  <1> QED
    BY <1>2, <1>3

\* Before the answer is known there is nothing to log, and only a stream has sent bytes.
LEMMA NothingYet ==
    ASSUME TypeInv, NEW r \in Requests, RequestInv(r), pc[r] \notin Final
    PROVE  /\ logJobs[r] = <<>> /\ rows[r] = <<>> /\ lost[r] = 0
           /\ pc[r] # "streaming" => wire[r] = {}
  <1>1. Owed(r) = 0
    BY DEF Owed, Final
  <1>2. pc[r] # "streaming" => wire[r] = {}
    BY DEF RequestInv, Streamed, Final
  <1> QED
    BY <1>1, <1>2, NothingOwed

\* While the handler is under way nothing but the attempts needs to be looked at.
LEMMA StillUnderway ==
    ASSUME TypeInv, NEW r \in Requests, RequestInv(r),
           pc[r] \in {"idle", "lookup", "loop", "calling"},
           pc'[r] \in {"lookup", "loop", "calling"},
           reply' = reply, wire' = wire, UNCHANGED <<logJobs, rows, lost>>, Underway(r)'
    PROVE  RequestInv(r)'
  <1>1. wire[r] = {}
    BY DEF RequestInv, Streamed
  <1>2. Streamed(r)'
    BY <1>1 DEF Streamed
  <1>3. Concluded(r)'
    BY DEF Concluded, Reached, Decided
  <1>4. logJobs[r] = <<>> /\ rows[r] = <<>> /\ lost[r] = 0
    BY NothingYet DEF Final
  <1>5. Accounted(r)'
    BY <1>4 DEF Accounted, Owed
  <1>6. RowsMatch(r)'
    BY <1>4 DEF RowsMatch
  <1> QED
    BY <1>2, <1>3, <1>5, <1>6 DEF RequestInv

-----------------------------------------------------------------------------
(* Each step of a request keeps its invariant. *)

LEMMA InitRequestInv == Init => \A r \in Requests : RequestInv(r)
  <1> SUFFICES ASSUME Init, NEW r \in Requests PROVE RequestInv(r)
    OBVIOUS
  <1>1. /\ pc[r] = "idle" /\ input[r] = NoInput /\ pos[r] = 1 /\ lastStatus[r] = Nil
        /\ lastErr[r] = Nil /\ reply[r] = NoReply /\ wire[r] = {} /\ trace[r] = <<>>
        /\ logJobs[r] = <<>> /\ rows[r] = <<>> /\ lost[r] = 0
    BY DEF Init
  <1>2. \A kinds : Positions(r, kinds) = {}
    BY <1>1 DEF Positions
  <1>3. Underway(r)
    BY <1>1, <1>2 DEF Underway, LastRefusal, Latest, Chain, NoInput
  <1>4. Streamed(r) /\ Concluded(r)
    BY <1>1 DEF Streamed, Concluded, Reached, Decided
  <1>5. Accounted(r) /\ RowsMatch(r)
    BY <1>1 DEF Accounted, Owed, RowsMatch
  <1> QED
    BY <1>3, <1>4, <1>5 DEF RequestInv

\* A request refused at once was never parsed.
LEMMA RefusedKeeps ==
    ASSUME TypeInv, NEW r \in Requests, RequestInv(r), RejectBody(r) \/ NoChain(r)
    PROVE  RequestInv(r)'
  <1>1. pc[r] = "idle" /\ pc'[r] = "done" /\ input'[r] = NoInput /\ trace'[r] = <<>>
          /\ wire'[r] = wire[r] /\ logJobs' = logJobs /\ rows' = rows /\ lost' = lost
    BY DEF RejectBody, NoChain, Goto, TypeInv, TypeOK, RequestInv, Underway, jobs
  <1>2. PICK status \in {BadRequest, NotFound} : reply'[r] = ErrorReply(status, Nil)
    BY DEF RejectBody, NoChain, TypeInv, TypeOK
  <1>3. reply'[r].hit = FALSE /\ reply'[r].status # OK
    <2>1. status # OK
      BY DEF OK, BadRequest, NotFound
    <2>2. reply'[r].hit = FALSE /\ reply'[r].status = status
      BY <1>2 DEF ErrorReply, NoReply
    <2> QED
      BY <2>1, <2>2
  <1>4. logJobs[r] = <<>> /\ rows[r] = <<>> /\ lost[r] = 0
    BY <1>1, NothingYet DEF Final
  <1>5. wire'[r] = {}
    BY <1>1 DEF RequestInv, Streamed
  <1>6. ~Decided(r)' /\ Owed(r)' = 0
    BY <1>1, <1>3 DEF Decided, Owed
  <1>7. Underway(r)' /\ Streamed(r)'
    BY <1>1, <1>5 DEF Underway, Streamed, Final
  <1>8. Concluded(r)'
    BY <1>1, <1>6 DEF Concluded, Reached
  <1>9. Accounted(r)' /\ RowsMatch(r)'
    BY <1>1, <1>3, <1>4, <1>6 DEF Accounted, RowsMatch
  <1> QED
    BY <1>7, <1>8, <1>9 DEF RequestInv

LEMMA ReceiveKeeps ==
    ASSUME TypeInv, NEW r \in Requests, RequestInv(r), Receive(r)
    PROVE  RequestInv(r)'
  <1>1. PICK in \in Inputs : in.chain # <<>> /\ input' = [input EXCEPT ![r] = in]
    BY DEF Receive
  <1>2. /\ pc[r] = "idle" /\ pc'[r] \in {"lookup", "loop"} /\ pos' = pos
        /\ trace' = trace /\ trace[r] = <<>> /\ lastStatus' = lastStatus
        /\ lastErr' = lastErr /\ UNCHANGED <<reply, wire, logJobs, rows, lost>>
    BY DEF Receive, Goto, TypeInv, TypeOK, RequestInv, Underway, jobs
  <1>3. in.chain \in Seq(Models) /\ input'[r] = in
    BY <1>1, ModelAssumption DEF Inputs, TypeInv, TypeOK
  <1>4. Len(trace[r]) = pos[r] - 1 /\ pos[r] \in Nat /\ LastRefusal(r)
          /\ lastErr[r] = Latest(Positions(r, {"status", "err"}))
    BY <1>2, RequestTyped DEF RequestInv, Underway, Final, MaxAttempts
  <1>5. \A kinds : Positions(r, kinds)' = Positions(r, kinds)
    BY <1>2 DEF Positions
  <1>6. LastRefusal(r)'
    BY <1>2, <1>4, <1>5 DEF LastRefusal
  <1>7. pos[r] <= Len(Chain(r)') + 1
    BY <1>2, <1>3, <1>4 DEF Chain
  <1>8. Underway(r)'
    BY <1>2, <1>4, <1>5, <1>6, <1>7 DEF Underway, Final
  <1> QED
    BY <1>2, <1>8, StillUnderway

\* A hit owes a row and names the model it was looked up for.
LEMMA LookupHitKeeps ==
    ASSUME TypeInv, NEW r \in Requests, RequestInv(r), LookupHit(r)
    PROVE  RequestInv(r)'
  <1>1. PICK e \in Nearest(r) : reply'[r] =
            [status |-> OK, hit |-> TRUE, by |-> Chain(r)[1], depth |-> 0,
             from |-> e.from, error |-> Nil]
    BY DEF LookupHit, TypeInv, TypeOK
  <1>2. pc[r] = "lookup" /\ pc'[r] = "replying" /\ wire' = wire /\ rows' = rows /\ lost' = lost
          /\ logJobs'[r] = Append(logJobs[r], LogRow(Chain(r)[1], TRUE, 0))
    BY DEF LookupHit, Goto, SpawnLog, TypeInv, TypeOK
  <1>3. logJobs[r] = <<>> /\ rows[r] = <<>> /\ lost[r] = 0
    BY <1>2, NothingYet DEF Final
  <1>4. wire'[r] = {}
    BY <1>2 DEF RequestInv, Streamed
  <1>5. Underway(r)' /\ Streamed(r)'
    BY <1>2, <1>4 DEF Underway, Streamed, Final
  <1>6. Concluded(r)'
    BY <1>1, <1>2 DEF Concluded, Reached, Decided, Final
  <1>7. Owed(r)' = 1
    BY <1>1, <1>2 DEF Owed
  <1>8. Len(logJobs'[r]) = 1 /\ logJobs'[r][1] = LogRow(Chain(r)[1], TRUE, 0)
    BY <1>2, <1>3
  <1>9. Accounted(r)'
    BY <1>2, <1>3, <1>7, <1>8 DEF Accounted
  <1>10. RowsMatch(r)'
    <2>1. \A i \in 1..Len(logJobs'[r]) : i = 1
      BY <1>8
    <2>2. /\ logJobs'[r][1].model = reply'[r].by /\ logJobs'[r][1].hit = reply'[r].hit
          /\ logJobs'[r][1].depth = reply'[r].depth
      BY <1>1, <1>8 DEF LogRow
    <2>3. 1..Len(rows'[r]) = {}
      BY <1>2, <1>3
    <2> QED
      BY <2>1, <2>2, <2>3 DEF RowsMatch, Matches
  <1> QED
    BY <1>5, <1>6, <1>9, <1>10 DEF RequestInv

\* Neither the cache nor the choice of a model to call is an attempt.
LEMMA GoesOnKeeps ==
    ASSUME TypeInv, NEW r \in Requests, RequestInv(r), LookupMiss(r) \/ CallProvider(r)
    PROVE  RequestInv(r)'
  <1>1. /\ pc[r] \in {"lookup", "loop"} /\ pc'[r] \in {"loop", "calling"}
        /\ UNCHANGED <<input, pos, trace, lastStatus, lastErr, reply, wire, logJobs, rows, lost>>
    BY DEF LookupMiss, CallProvider, Goto, TypeInv, TypeOK, jobs
  <1>2. \A kinds : Positions(r, kinds)' = Positions(r, kinds)
    BY <1>1 DEF Positions
  <1>3. Underway(r)'
    BY <1>1, <1>2 DEF RequestInv, Underway, LastRefusal, Chain, Final
  <1> QED
    BY <1>1, <1>3, StillUnderway

LEMMA FailsKeeps ==
    ASSUME TypeInv, NEW r \in Requests, RequestInv(r),
           \/ SkipModel(r) \/ CallFails(r)
           \/ \E status \in Refusals : ProviderRefuses(r, status)
    PROVE  RequestInv(r)'
  <1>1. pc[r] \in {"loop", "calling"} /\ pc'[r] = "loop" /\ NextModel(r)
          /\ UNCHANGED <<input, reply, wire, logJobs, rows, lost>>
    BY DEF SkipModel, CallFails, ProviderRefuses, Goto, TypeInv, TypeOK, jobs
  <1>2. ~Exhausted(r)
    BY DEF SkipModel, CallFails, ProviderRefuses, Goto, TypeInv, Control
  <1>3. \E kind \in {"skip", "err", "status"}, status \in Refusals \cup {Nil} :
          /\ Failed(Outcome(r, kind, status)) /\ Record(r, Outcome(r, kind, status))
          /\ lastStatus'[r] = IF kind = "status" THEN status ELSE lastStatus[r]
          /\ lastErr'[r] = IF kind \in {"status", "err"} THEN pos[r] ELSE lastErr[r]
    <2>1. CASE SkipModel(r)
      <3>1. Failed(Outcome(r, "skip", Nil)) /\ Record(r, Outcome(r, "skip", Nil))
              /\ lastStatus'[r] = lastStatus[r] /\ lastErr'[r] = lastErr[r]
        BY <2>1 DEF SkipModel, Failed, Outcome
      <3> QED
        BY <3>1
    <2>2. CASE CallFails(r)
      <3>1. Failed(Outcome(r, "err", Nil)) /\ Record(r, Outcome(r, "err", Nil))
              /\ lastStatus'[r] = lastStatus[r] /\ lastErr'[r] = pos[r]
        BY <2>2 DEF CallFails, Failed, Outcome, TypeInv, TypeOK
      <3> QED
        BY <3>1
    <2>3. ASSUME NEW status \in Refusals, ProviderRefuses(r, status)
          PROVE  \E kind \in {"skip", "err", "status"}, st \in Refusals \cup {Nil} :
            /\ Failed(Outcome(r, kind, st)) /\ Record(r, Outcome(r, kind, st))
            /\ lastStatus'[r] = IF kind = "status" THEN st ELSE lastStatus[r]
            /\ lastErr'[r] = IF kind \in {"status", "err"} THEN pos[r] ELSE lastErr[r]
      <3>1. Failed(Outcome(r, "status", status)) /\ Record(r, Outcome(r, "status", status))
              /\ lastStatus'[r] = status /\ lastErr'[r] = pos[r]
        BY <2>3 DEF ProviderRefuses, Failed, Outcome, TypeInv, TypeOK
      <3> QED
        BY <3>1
    <2> QED
      BY <2>1, <2>2, <2>3
  <1>4. PICK kind \in {"skip", "err", "status"}, status \in Refusals \cup {Nil} :
          /\ Failed(Outcome(r, kind, status)) /\ Record(r, Outcome(r, kind, status))
          /\ lastStatus'[r] = IF kind = "status" THEN status ELSE lastStatus[r]
          /\ lastErr'[r] = IF kind \in {"status", "err"} THEN pos[r] ELSE lastErr[r]
    BY <1>3
  <1>5. Outcome(r, kind, status) \in Outcomes
    BY <1>2, TryTyped, StatusAssumption DEF Nil
  <1>6. Underway(r)'
    BY <1>1, <1>2, <1>4, <1>5, AttemptFails DEF RequestInv
  <1> QED
    BY <1>1, <1>6, StillUnderway

\* The chain is exhausted: every model that may be tried was, and failed.
LEMMA AllFailedKeeps ==
    ASSUME TypeInv, NEW r \in Requests, RequestInv(r), AllFailed(r)
    PROVE  RequestInv(r)'
  <1> DEFINE n == Len(trace[r])
  <1>1. /\ pc[r] = "loop" /\ pc'[r] = "done" /\ trace' = trace /\ input' = input
        /\ UNCHANGED <<wire, logJobs, rows, lost>> /\ Exhausted(r)
    BY DEF AllFailed, Goto, TypeInv, TypeOK, jobs
  <1>2. reply'[r] = ErrorReply(IF lastStatus[r] # Nil THEN lastStatus[r] ELSE BadGateway,
                               lastErr[r])
    BY DEF AllFailed, TypeInv, TypeOK
  <1>3. reply'[r] = Verdict(r)
    BY <1>1, <1>2, VerdictOfFailures DEF RequestInv, Final
  <1>4. Verdict(r)' = Verdict(r)
    BY <1>1 DEF Verdict, Positions
  <1>5. /\ n \in Nat /\ n = pos[r] - 1 /\ pos[r] <= Len(Chain(r)) + 1
        /\ pos[r] \in 1..MaxAttempts + 1 /\ Len(Chain(r)) \in Nat
        /\ \A k \in 1..n : trace[r][k].model = Chain(r)[k] /\ Failed(trace[r][k])
    <2>1. n \in Nat /\ pos[r] \in 1..MaxAttempts + 1 /\ Chain(r) \in Seq(Models)
      BY RequestTyped
    <2> QED
      BY <1>1, <2>1 DEF RequestInv, Underway, Final
  <1>6. \A k \in 1..n :
          Retryable(trace[r][k]) /\ trace[r][k].kind # "ok" /\ trace[r][k].status # BadRequest
    BY <1>5, FailedIsRetryable
  <1>7. trace[r] # <<>> => n \in 1..n
    <2>1. trace[r] \in Seq(Outcomes)
      BY RequestTyped
    <2> QED
      BY <2>1
  <1>8. n <= MaxAttempts /\ n \in {Len(Chain(r)), MaxAttempts}
    BY <1>1, <1>5 DEF Exhausted, MaxAttempts
  <1>9. reply'[r].hit = FALSE
    BY <1>2 DEF ErrorReply, NoReply
  <1>10. ~Decided(r)' /\ Owed(r)' = 0
    BY <1>1, <1>6, <1>7, <1>9 DEF Decided, Owed
  <1>11. wire'[r] = {} /\ logJobs'[r] = <<>> /\ rows'[r] = <<>> /\ lost'[r] = 0
    BY <1>1, NothingYet DEF Final
  <1>12. Reached(r)'
    <2>1. n - 1 <= n /\ \A k \in 1..n - 1 : k \in 1..n
      BY <1>5
    <2>2. Chain(r)' = Chain(r)
      BY <1>1 DEF Chain
    <2>3. \A k \in 1..Len(trace'[r]) - 1 : Retryable(trace'[r][k])
      BY <1>1, <1>6, <2>1
    <2>4. \A k \in 1..Len(trace'[r]) : trace'[r][k].model = Chain(r)'[k]
      BY <1>1, <1>5, <2>2
    <2>5. Len(trace'[r]) <= MaxAttempts /\ Len(trace'[r]) \in {Len(Chain(r)'), MaxAttempts}
      BY <1>1, <1>8, <2>2
    <2> QED
      BY <1>3, <1>4, <2>3, <2>4, <2>5 DEF Reached
  <1>13. Underway(r)' /\ Streamed(r)'
    BY <1>1, <1>11 DEF Underway, Streamed, Final
  <1>14. Concluded(r)'
    BY <1>1, <1>10, <1>12 DEF Concluded
  <1>15. Accounted(r)' /\ RowsMatch(r)'
    BY <1>10, <1>11 DEF Accounted, RowsMatch
  <1> QED
    BY <1>13, <1>14, <1>15 DEF RequestInv

\* A 400 ends the request; the streaming path owes no row for it.
LEMMA RejectsKeeps ==
    ASSUME TypeInv, NEW r \in Requests, RequestInv(r), ProviderRejects(r)
    PROVE  RequestInv(r)'
  <1> DEFINE o == Outcome(r, "status", BadRequest)
  <1>1. /\ pc[r] = "calling" /\ pc'[r] = "done" /\ input' = input
        /\ UNCHANGED <<wire, rows, lost>> /\ Record(r, o)
        /\ reply'[r] = ErrorReply(BadRequest, pos[r])
    BY DEF ProviderRejects, Goto, TypeInv, TypeOK
  <1>2. logJobs'[r] = IF input[r].stream THEN logJobs[r]
                      ELSE Append(logJobs[r], LogRow(Model(r), FALSE, depth[r]))
    BY DEF ProviderRejects, SpawnLog, TypeInv, TypeOK
  <1>3. o \in Outcomes /\ o.kind = "status" /\ o.status = BadRequest
    <2>1. ~Exhausted(r) /\ BadRequest \in Nat
      BY <1>1 DEF BadRequest, TypeInv, Control
    <2> QED
      BY <2>1, TryTyped DEF Outcome
  <1>4. /\ Len(trace'[r]) = pos[r] /\ pos[r] \in 1..MaxAttempts /\ trace'[r] # <<>>
        /\ trace'[r][pos[r]] = o
        /\ \A k \in 1..Len(trace'[r]) - 1 : Retryable(trace'[r][k])
        /\ \A k \in 1..Len(trace'[r]) : trace'[r][k].model = Chain(r)'[k]
    BY <1>1, <1>3, LastAttempt DEF RequestInv
  <1> HIDE DEF o
  <1>5. pos[r] > 0 /\ pos[r] <= MaxAttempts
    BY <1>4 DEF MaxAttempts
  <1>6. Verdict(r)' = reply'[r]
    BY <1>1, <1>3, <1>4, <1>5 DEF Verdict
  <1>7. ~Retryable(trace'[r][Len(trace'[r])])
    BY <1>3, <1>4 DEF Retryable
  <1>8. Reached(r)'
    BY <1>4, <1>5, <1>6, <1>7 DEF Reached
  <1>9. reply'[r].hit = FALSE /\ reply'[r].status # OK
    <2>1. reply'[r].hit = FALSE /\ reply'[r].status = BadRequest
      BY <1>1 DEF ErrorReply, NoReply
    <2> QED
      BY <2>1 DEF BadRequest, OK
  <1>10. ~Decided(r)'
    BY <1>3, <1>4, <1>9 DEF Decided
  <1>11. Owed(r)' = IF input[r].stream THEN 0 ELSE 1
    BY <1>1, <1>3, <1>4, <1>9 DEF Owed
  <1>12. wire'[r] = {} /\ logJobs[r] = <<>> /\ rows'[r] = <<>> /\ lost'[r] = 0
    BY <1>1, NothingYet DEF Final
  <1>13. Len(logJobs'[r]) = IF input[r].stream THEN 0 ELSE 1
    BY <1>2, <1>12
  <1>14. Accounted(r)' /\ RowsMatch(r)'
    BY <1>9, <1>11, <1>12, <1>13 DEF Accounted, RowsMatch
  <1>15. Underway(r)' /\ Streamed(r)'
    BY <1>1, <1>12 DEF Underway, Streamed, Final
  <1>16. Concluded(r)'
    BY <1>1, <1>8, <1>10 DEF Concluded
  <1> QED
    BY <1>14, <1>15, <1>16 DEF RequestInv

\* A provider answered: the reply is the attempt's, and a row is owed that says the same.
LEMMA ServedKeeps ==
    ASSUME TypeInv, NEW r \in Requests, RequestInv(r),
           \/ pc[r] = "calling" /\ pc'[r] = "replying"
           \/ pc[r] = "streaming" /\ pc'[r] = "done",
           Record(r, Outcome(r, "ok", OK)), SpawnLog(r, LogRow(Model(r), FALSE, depth[r])),
           reply'[r] = Served(r), UNCHANGED <<input, wire, rows, lost>>
    PROVE  RequestInv(r)'
  <1> DEFINE o == Outcome(r, "ok", OK)
             row == LogRow(Model(r), FALSE, depth[r])
  <1>1. o \in Outcomes /\ o.kind = "ok" /\ o.model = Model(r)
    BY ZenonT(60), TryTyped DEF Outcome, OK, TypeInv, Control
  <1>2. /\ Len(trace'[r]) = pos[r] /\ pos[r] \in 1..MaxAttempts /\ trace'[r] # <<>>
        /\ trace'[r][pos[r]] = o
        /\ \A k \in 1..Len(trace'[r]) - 1 : Retryable(trace'[r][k])
        /\ \A k \in 1..Len(trace'[r]) : trace'[r][k].model = Chain(r)'[k]
    BY <1>1, LastAttempt DEF RequestInv
  <1>3. /\ reply'[r].status = OK /\ reply'[r].hit = FALSE /\ reply'[r].by = Model(r)
        /\ reply'[r].depth = depth[r] /\ reply'[r].from = r
    BY DEF Served
  <1>4. row.model = Model(r) /\ row.hit = FALSE /\ row.depth = depth[r]
    BY DEF LogRow
  <1>5. logJobs[r] = <<>> /\ rows[r] = <<>> /\ lost[r] = 0
    BY NothingYet DEF Final
  <1>6. Len(logJobs'[r]) = 1 /\ logJobs'[r][1] = row
    BY <1>5 DEF SpawnLog, TypeInv, TypeOK
  <1> HIDE DEF o, row
  <1>7. pos[r] > 0 /\ pos[r] <= MaxAttempts /\ depth[r] = pos[r] - 1
    BY <1>2, RequestTyped DEF MaxAttempts
  <1>8. Verdict(r)' = reply'[r]
    BY <1>1, <1>2, <1>7 DEF Verdict, Served
  <1>9. Reached(r)'
    BY <1>2, <1>3, <1>7, <1>8 DEF Reached
  <1>10. Decided(r)' /\ Owed(r)' = 1
    BY <1>1, <1>2, <1>3 DEF Decided, Owed
  <1>11. Concluded(r)'
    BY <1>3, <1>9, <1>10 DEF Concluded
  <1>12. Underway(r)'
    BY DEF Underway, Final
  <1>13. Streamed(r)'
    BY <1>3 DEF RequestInv, Streamed, Served
  <1>14. Accounted(r)'
    BY <1>5, <1>6, <1>10 DEF Accounted
  <1>15. RowsMatch(r)'
    <2>1. 1..Len(rows'[r]) = {} /\ \A i \in 1..Len(logJobs'[r]) : i = 1
      BY <1>5, <1>6
    <2> QED
      BY <1>3, <1>4, <1>6, <2>1 DEF RowsMatch, Matches
  <1> QED
    BY <1>11, <1>12, <1>13, <1>14, <1>15 DEF RequestInv

LEMMA AnswersKeeps ==
    ASSUME TypeInv, NEW r \in Requests, RequestInv(r), ProviderAnswers(r)
    PROVE  RequestInv(r)'
  <1>1. /\ pc[r] = "calling" /\ pc'[r] = "replying" /\ reply'[r] = Served(r)
        /\ Record(r, Outcome(r, "ok", OK)) /\ SpawnLog(r, LogRow(Model(r), FALSE, depth[r]))
        /\ UNCHANGED <<input, wire, rows, lost>>
    BY DEF ProviderAnswers, Goto, TypeInv, TypeOK
  <1> QED
    BY <1>1, ServedKeeps

\* The headers staged before the first chunk are still those of the model that streams.
LEMMA StreamEndsKeeps ==
    ASSUME TypeInv, NEW r \in Requests, RequestInv(r), StreamEnds(r)
    PROVE  RequestInv(r)'
  <1>1. /\ pc[r] = "streaming" /\ pc'[r] = "done" /\ reply' = reply
        /\ Record(r, Outcome(r, "ok", OK)) /\ SpawnLog(r, LogRow(Model(r), FALSE, depth[r]))
        /\ UNCHANGED <<input, wire, rows, lost>>
    BY DEF StreamEnds, Goto, TypeInv, TypeOK
  <1>2. reply'[r] = Served(r)
    BY <1>1 DEF RequestInv, Streamed
  <1> QED
    BY <1>1, <1>2, ServedKeeps

LEMMA StreamBeginsKeeps ==
    ASSUME TypeInv, NEW r \in Requests, RequestInv(r), StreamBegins(r)
    PROVE  RequestInv(r)'
  <1>1. /\ pc[r] = "calling" /\ pc'[r] = "streaming" /\ reply'[r] = Served(r)
        /\ UNCHANGED <<input, pos, depth, trace, lastStatus, lastErr, wire, logJobs, rows, lost>>
    BY DEF StreamBegins, Goto, TypeInv, TypeOK, jobs
  <1>2. wire'[r] = {} /\ logJobs'[r] = <<>> /\ rows'[r] = <<>> /\ lost'[r] = 0
    BY <1>1, NothingYet DEF Final
  <1>3. \A kinds : Positions(r, kinds)' = Positions(r, kinds)
    BY <1>1 DEF Positions
  <1>4. Underway(r)'
    BY <1>1, <1>3 DEF RequestInv, Underway, LastRefusal, Chain, Final
  <1>5. Served(r)' = Served(r)
    BY <1>1 DEF Served, Model, Chain
  <1>6. Streamed(r)'
    BY <1>1, <1>2, <1>5 DEF Streamed
  <1>7. Concluded(r)' /\ Owed(r)' = 0
    BY <1>1 DEF Concluded, Reached, Decided, Owed
  <1>8. Accounted(r)' /\ RowsMatch(r)'
    BY <1>2, <1>7 DEF Accounted, RowsMatch
  <1> QED
    BY <1>4, <1>6, <1>7, <1>8 DEF RequestInv

LEMMA StreamChunkKeeps ==
    ASSUME TypeInv, NEW r \in Requests, RequestInv(r), StreamChunk(r)
    PROVE  RequestInv(r)'
  <1>1. /\ pc[r] = "streaming" /\ wire'[r] = wire[r] \cup {Model(r)}
        /\ UNCHANGED <<pc, input, pos, depth, trace, lastStatus, lastErr, reply,
                       logJobs, rows, lost>>
    BY DEF StreamChunk, TypeInv, TypeOK, jobs
  <1>2. reply[r] = Served(r) /\ reply[r].by = Model(r)
    BY <1>1 DEF RequestInv, Streamed, Served
  <1>3. wire'[r] = {reply[r].by}
    BY <1>1, <1>2 DEF RequestInv, Streamed
  <1>4. \A kinds : Positions(r, kinds)' = Positions(r, kinds)
    BY <1>1 DEF Positions
  <1>5. Underway(r)'
    BY <1>1, <1>4 DEF RequestInv, Underway, LastRefusal, Chain, Final
  <1>6. Served(r)' = Served(r)
    BY <1>1 DEF Served, Model, Chain
  <1>7. Streamed(r)'
    BY <1>1, <1>2, <1>3, <1>6 DEF Streamed
  <1>8. Concluded(r)' /\ Owed(r)' = Owed(r)
    BY <1>1 DEF Concluded, Reached, Decided, Owed
  <1>9. Accounted(r)' /\ RowsMatch(r)'
    BY <1>1, <1>8 DEF RequestInv, Accounted, RowsMatch, Matches
  <1> QED
    BY <1>5, <1>7, <1>8, <1>9 DEF RequestInv

LEMMA WriteReplyKeeps ==
    ASSUME TypeInv, NEW r \in Requests, RequestInv(r), WriteReply(r)
    PROVE  RequestInv(r)'
  <1>1. /\ pc[r] = "replying" /\ pc'[r] = "done"
        /\ UNCHANGED <<input, trace, reply, wire, logJobs, rows, lost>>
    BY DEF WriteReply, Goto, TypeInv, TypeOK, jobs
  <1>2. \A kinds : Positions(r, kinds)' = Positions(r, kinds)
    BY <1>1 DEF Positions
  <1>3. Decided(r)' = Decided(r) /\ Owed(r)' = Owed(r) /\ Verdict(r)' = Verdict(r)
    BY <1>1, <1>2 DEF Decided, Owed, Verdict
  <1>4. Underway(r)' /\ Streamed(r)'
    BY <1>1 DEF RequestInv, Underway, Streamed, Final
  <1>5. Concluded(r)'
    BY <1>1, <1>3 DEF RequestInv, Concluded, Reached, Chain
  <1>6. Accounted(r)' /\ RowsMatch(r)'
    BY <1>1, <1>3 DEF RequestInv, Accounted, RowsMatch, Matches
  <1> QED
    BY <1>4, <1>5, <1>6 DEF RequestInv

\* While only the rows of r move, the rest of its invariant stays.
LEMMA LedgerMoves ==
    ASSUME NEW r \in Requests, RequestInv(r),
           UNCHANGED <<pc, input, pos, depth, lastStatus, lastErr, reply, wire, trace>>,
           Accounted(r)', RowsMatch(r)'
    PROVE  RequestInv(r)'
  <1>1. \A kinds : Positions(r, kinds)' = Positions(r, kinds)
    BY DEF Positions
  <1>2. Underway(r)'
    BY <1>1 DEF RequestInv, Underway, LastRefusal, Chain
  <1>3. Streamed(r)'
    BY DEF RequestInv, Streamed, Served, Model, Chain
  <1>4. Decided(r)' = Decided(r) /\ Verdict(r)' = Verdict(r)
    BY <1>1 DEF Decided, Verdict
  <1>5. Concluded(r)'
    BY <1>4 DEF RequestInv, Concluded, Reached, Chain
  <1> QED
    BY <1>2, <1>3, <1>5 DEF RequestInv

\* What is left of the goroutines' rows when one of them is done.
LEMMA FirstJob ==
    ASSUME TypeInv, NEW r \in Requests, logJobs[r] # <<>>
    PROVE  /\ Len(logJobs[r]) \in Nat \ {0} /\ Head(logJobs[r]) = logJobs[r][1]
           /\ Len(Tail(logJobs[r])) = Len(logJobs[r]) - 1
           /\ \A i \in 1..Len(Tail(logJobs[r])) :
                 i + 1 \in 1..Len(logJobs[r]) /\ Tail(logJobs[r])[i] = logJobs[r][i + 1]
  <1>1. logJobs[r] \in Seq(Rows)
    BY RequestTyped
  <1> QED
    BY <1>1

\* A row inserted was held by a goroutine.
LEMMA LogInsertedKeeps ==
    ASSUME TypeInv, NEW r \in Requests, RequestInv(r), LogInserted(r)
    PROVE  RequestInv(r)'
  <1>1. /\ logJobs[r] # <<>> /\ logJobs'[r] = Tail(logJobs[r])
        /\ rows'[r] = Append(rows[r], Head(logJobs[r])) /\ lost' = lost
        /\ UNCHANGED <<pc, input, pos, depth, lastStatus, lastErr, reply, wire, trace>>
    BY DEF LogInserted, TypeInv, TypeOK, serving
  <1>2. rows[r] \in Seq(Rows) /\ Len(rows[r]) \in Nat /\ lost[r] \in Nat
    BY RequestTyped
  <1>3. /\ Len(rows'[r]) = Len(rows[r]) + 1
        /\ \A i \in 1..Len(rows'[r]) :
             \/ i \in 1..Len(rows[r]) /\ rows'[r][i] = rows[r][i]
             \/ rows'[r][i] = Head(logJobs[r])
    BY <1>1, <1>2
  <1>4. Owed(r)' = Owed(r)
    BY <1>1 DEF Owed
  <1>5. Accounted(r)'
    <2> DEFINE a == Len(logJobs[r])
               b == Len(rows[r])
               c == lost[r]
               x == Len(logJobs'[r])
               y == Len(rows'[r])
               z == lost'[r]
    <2>1. a \in Nat /\ b \in Nat /\ c \in Nat /\ x = a - 1 /\ y = b + 1 /\ z = c
      BY <1>1, <1>2, <1>3, FirstJob
    <2> HIDE DEF a, b, c, x, y, z
    <2>2. x + y + z = a + b + c
      BY <2>1
    <2> USE DEF a, b, c, x, y, z
    <2> QED
      BY <1>4, <2>2 DEF RequestInv, Accounted
  <1>6. RowsMatch(r)'
    <2> SUFFICES ASSUME reply[r].status = OK
                 PROVE  /\ \A i \in 1..Len(logJobs'[r]) : Matches(logJobs'[r][i], r)
                        /\ \A i \in 1..Len(rows'[r]) : Matches(rows'[r][i], r)
      BY <1>1 DEF RowsMatch, Matches
    <2>1. /\ \A i \in 1..Len(logJobs[r]) : Matches(logJobs[r][i], r)
          /\ \A i \in 1..Len(rows[r]) : Matches(rows[r][i], r)
      BY DEF RequestInv, RowsMatch
    <2>2. Matches(Head(logJobs[r]), r)
      BY <1>1, <2>1, FirstJob
    <2>3. \A i \in 1..Len(logJobs'[r]) : Matches(logJobs'[r][i], r)
      BY <1>1, <2>1, FirstJob
    <2>4. \A i \in 1..Len(rows'[r]) : Matches(rows'[r][i], r)
      BY <1>3, <2>1, <2>2
    <2> QED
      BY <2>3, <2>4
  <1> QED
    BY <1>1, <1>5, <1>6, LedgerMoves

\* A row whose insert fails is lost.
LEMMA LogFailsKeeps ==
    ASSUME TypeInv, NEW r \in Requests, RequestInv(r), LogFails(r)
    PROVE  RequestInv(r)'
  <1>1. /\ logJobs[r] # <<>> /\ logJobs'[r] = Tail(logJobs[r])
        /\ rows' = rows /\ lost'[r] = lost[r] + 1
        /\ UNCHANGED <<pc, input, pos, depth, lastStatus, lastErr, reply, wire, trace>>
    BY DEF LogFails, TypeInv, TypeOK, serving
  <1>2. Len(rows[r]) \in Nat /\ lost[r] \in Nat
    BY RequestTyped
  <1>3. Owed(r)' = Owed(r)
    BY <1>1 DEF Owed
  <1>4. Accounted(r)'
    <2> DEFINE a == Len(logJobs[r])
               b == Len(rows[r])
               c == lost[r]
               x == Len(logJobs'[r])
               y == Len(rows'[r])
               z == lost'[r]
    <2>1. a \in Nat /\ b \in Nat /\ c \in Nat /\ x = a - 1 /\ y = b /\ z = c + 1
      BY <1>1, <1>2, FirstJob
    <2> HIDE DEF a, b, c, x, y, z
    <2>2. x + y + z = a + b + c
      BY <2>1
    <2> USE DEF a, b, c, x, y, z
    <2> QED
      BY <1>3, <2>2 DEF RequestInv, Accounted
  <1>5. RowsMatch(r)'
    BY <1>1, FirstJob DEF RequestInv, RowsMatch, Matches
  <1> QED
    BY <1>1, <1>4, <1>5, LedgerMoves

\* A handler under way has neither hit nor been answered.
LEMMA NotAnswered ==
    ASSUME TypeInv, NEW r \in Requests, RequestInv(r), pc[r] \notin Final
    PROVE  /\ ~reply[r].hit
           /\ trace[r] # <<>> => trace[r][Len(trace[r])].kind # "ok"
                                   /\ trace[r][Len(trace[r])].status # BadRequest
  <1>1. ~reply[r].hit
    <2>1. pc[r] # "streaming" => reply[r] = NoReply
      BY RequestTyped DEF TypeInv, Control, Final
    <2>2. pc[r] = "streaming" => ~reply[r].hit
      BY DEF TypeInv, Control
    <2> QED
      BY <2>1, <2>2 DEF NoReply
  <1>2. trace[r] # <<>> => Len(trace[r]) \in 1..Len(trace[r])
    <2>1. trace[r] \in Seq(Outcomes)
      BY RequestTyped
    <2> QED
      BY <2>1
  <1>3. \A k \in 1..Len(trace[r]) : Failed(trace[r][k])
    BY DEF RequestInv, Underway
  <1> QED
    BY <1>1, <1>2, <1>3, FailedIsRetryable

\* The end of the process loses the rows its goroutines held and aborts its handlers.
LEMMA ExitKeeps ==
    ASSUME TypeInv, NEW r \in Requests, RequestInv(r), ShutdownDone \/ Killed
    PROVE  RequestInv(r)'
  <1>1. /\ logJobs'[r] = <<>> /\ rows' = rows /\ lost'[r] = lost[r] + Len(logJobs[r])
        /\ UNCHANGED <<input, pos, depth, lastStatus, lastErr, reply, wire, trace>>
    BY DEF ShutdownDone, Killed, Exit, serving
  <1>2. \/ pc'[r] = pc[r]
        \/ pc[r] \in {"lookup", "loop", "calling", "streaming", "replying"} /\ pc'[r] = "aborted"
    BY RequestTyped DEF ShutdownDone, Killed, serving, Active
  <1>3. \A kinds : Positions(r, kinds)' = Positions(r, kinds)
    BY <1>1 DEF Positions
  <1>4. pc[r] \notin Final =>
          /\ ~reply[r].hit
          /\ trace[r] # <<>> => trace[r][Len(trace[r])].kind # "ok"
                                  /\ trace[r][Len(trace[r])].status # BadRequest
    BY NotAnswered
  <1>5. Decided(r)' = Decided(r) /\ Owed(r)' = Owed(r)
    BY <1>1, <1>2, <1>4 DEF Decided, Owed, Final
  <1>6. Verdict(r)' = Verdict(r)
    BY <1>1, <1>3 DEF Verdict
  <1>7. Underway(r)'
    BY <1>1, <1>2, <1>3 DEF RequestInv, Underway, LastRefusal, Chain, Final
  <1>8. Streamed(r)'
    BY <1>1, <1>2 DEF RequestInv, Streamed, Served, Model, Chain
  <1>9. Concluded(r)'
    BY <1>1, <1>2, <1>5, <1>6 DEF RequestInv, Concluded, Reached, Chain
  <1>10. Accounted(r)'
    <2> DEFINE a == Len(logJobs[r])
               b == Len(rows[r])
               c == lost[r]
               x == Len(logJobs'[r])
               y == Len(rows'[r])
               z == lost'[r]
    <2>1. a \in Nat /\ b \in Nat /\ c \in Nat /\ x = 0 /\ y = b /\ z = c + a
      BY <1>1, RequestTyped
    <2> HIDE DEF a, b, c, x, y, z
    <2>2. x + y + z = a + b + c
      BY <2>1
    <2> USE DEF a, b, c, x, y, z
    <2> QED
      BY <1>5, <2>2 DEF RequestInv, Accounted
  <1>11. RowsMatch(r)'
    BY <1>1 DEF RequestInv, RowsMatch, Matches
  <1> QED
    BY <1>7, <1>8, <1>9, <1>10, <1>11 DEF RequestInv

-----------------------------------------------------------------------------
(* A step is about one request, and leaves what the others hold alone. *)

LEMMA OthersUntouched ==
    ASSUME TypeOK, NEW r \in Requests, NEW q \in Requests, q # r, RequestStep(r)
    PROVE  Untouched(q)
  <1>t. /\ DOMAIN pc = Requests /\ DOMAIN input = Requests /\ DOMAIN pos = Requests
        /\ DOMAIN depth = Requests /\ DOMAIN lastStatus = Requests
        /\ DOMAIN lastErr = Requests /\ DOMAIN reply = Requests /\ DOMAIN wire = Requests
        /\ DOMAIN trace = Requests /\ DOMAIN logJobs = Requests /\ DOMAIN rows = Requests
        /\ DOMAIN lost = Requests
    BY DEF TypeOK
  <1> USE <1>t DEF Untouched, Goto, NextModel, Record, SpawnLog, jobs, serving
  <1>1. CASE RejectBody(r) \/ NoChain(r)
    BY <1>1 DEF RejectBody, NoChain
  <1>2. CASE Receive(r)
    BY <1>2 DEF Receive
  <1>3. CASE LookupHit(r)
    BY <1>3 DEF LookupHit
  <1>4. CASE LookupMiss(r) \/ CallProvider(r)
    BY <1>4 DEF LookupMiss, CallProvider
  <1>5. CASE SkipModel(r)
    BY <1>5 DEF SkipModel
  <1>6. CASE AllFailed(r)
    BY <1>6 DEF AllFailed
  <1>7. CASE CallFails(r)
    BY <1>7 DEF CallFails
  <1>8. ASSUME NEW status \in Refusals, ProviderRefuses(r, status) PROVE Untouched(q)
    BY <1>8 DEF ProviderRefuses
  <1>9. CASE ProviderRejects(r)
    BY <1>9 DEF ProviderRejects
  <1>10. CASE ProviderAnswers(r)
    BY <1>10 DEF ProviderAnswers
  <1>11. CASE StreamBegins(r)
    BY <1>11 DEF StreamBegins
  <1>12. CASE StreamChunk(r)
    BY <1>12 DEF StreamChunk
  <1>13. CASE StreamEnds(r)
    BY <1>13 DEF StreamEnds
  <1>14. CASE WriteReply(r)
    BY <1>14 DEF WriteReply
  <1>15. CASE LogInserted(r)
    BY <1>15 DEF LogInserted
  <1>16. CASE LogFails(r)
    BY <1>16 DEF LogFails
  <1>17. CASE ClientGone(r)
    BY <1>17 DEF ClientGone
  <1> QED
    BY <1>1, <1>2, <1>3, <1>4, <1>5, <1>6, <1>7, <1>8, <1>9, <1>10, <1>11, <1>12, <1>13,
       <1>14, <1>15, <1>16, <1>17 DEF RequestStep, HandlerStep

\* Neither the cache, nor the signal, nor the start of the process touches a request.
LEMMA NoneTouched ==
    ASSUME NEW q \in Requests,
           \/ \E e \in storeJobs \cup cache : EntryStep(e)
           \/ Signal \/ Restart \/ UNCHANGED vars
           \/ \E r \in Requests : ClientGone(r)
    PROVE  Untouched(q)
  BY DEF Untouched, EntryStep, StoreRuns, StoreFails, CacheDrop, Signal, Restart, ClientGone,
         vars, serving, jobs

LEMMA StepKeeps ==
    ASSUME TypeInv, NEW r \in Requests, RequestInv(r), RequestStep(r)
    PROVE  RequestInv(r)'
  <1>1. CASE ClientGone(r)
    BY <1>1, NoneTouched, UntouchedInv
  <1> QED
    BY <1>1, RefusedKeeps, ReceiveKeeps, LookupHitKeeps, GoesOnKeeps, FailsKeeps,
       AllFailedKeeps, RejectsKeeps, AnswersKeeps, StreamBeginsKeeps, StreamChunkKeeps,
       StreamEndsKeeps, WriteReplyKeeps, LogInsertedKeeps, LogFailsKeeps
       DEF RequestStep, HandlerStep

LEMMA NextRequestInv ==
    ASSUME TypeInv, \A r \in Requests : RequestInv(r), [Next]_vars
    PROVE  \A r \in Requests : RequestInv(r)'
  <1> SUFFICES ASSUME NEW q \in Requests PROVE RequestInv(q)'
    OBVIOUS
  <1>1. ASSUME NEW r \in Requests, RequestStep(r) PROVE RequestInv(q)'
    <2>1. CASE q = r
      BY <1>1, <2>1, StepKeeps
    <2>2. CASE q # r
      BY <1>1, <2>2, OthersUntouched, UntouchedInv DEF TypeInv
    <2> QED
      BY <2>1, <2>2
  <1>2. CASE ShutdownDone \/ Killed
    BY <1>2, ExitKeeps
  <1>3. CASE \/ \E e \in storeJobs \cup cache : EntryStep(e)
             \/ Signal \/ Restart \/ UNCHANGED vars
    BY <1>3, NoneTouched, UntouchedInv
  <1> QED
    BY <1>1, <1>2, <1>3 DEF Next, ProcessStep

LEMMA LedgerInvariant == Spec => [](TypeInv /\ \A r \in Requests : RequestInv(r))
  <1>1. Init => TypeInv /\ \A r \in Requests : RequestInv(r)
    BY InitTypeInv, InitRequestInv
  <1>2. TypeInv /\ (\A r \in Requests : RequestInv(r)) /\ [Next]_vars
          => (TypeInv /\ \A r \in Requests : RequestInv(r))'
    BY NextTypeInv, NextRequestInv
  <1> QED
    BY <1>1, <1>2, PTL DEF Spec

\* Whatever the chain and the order in which its providers fail, the client is told what
\* the attempts say: the answer of the first that answered with the number of models
\* passed over, or the last status and error, and a failure only when the chain or the
\* three attempts are used up.
THEOREM RepliesAreVerdicts == Spec => []ReplyIsVerdict
  <1>1. (\A r \in Requests : RequestInv(r)) => ReplyIsVerdict
    BY DEF RequestInv, Concluded, Reached, ReplyIsVerdict
  <1> QED
    BY <1>1, LedgerInvariant, PTL

\* Goroutines, failed inserts, shutdown and crash leave exactly the rows a request is owed:
\* running, written or known to be lost.
THEOREM RowsAreAccounted == Spec => []LogAccounting
  <1>1. (\A r \in Requests : RequestInv(r)) => LogAccounting
    BY DEF RequestInv, Accounted, LogAccounting
  <1> QED
    BY <1>1, LedgerInvariant, PTL

\* A row inserted late still says which model the client was told of.
THEOREM RowsMatchReplies == Spec => []RowMatchesReply
  <1>1. (\A r \in Requests : RequestInv(r)) => RowMatchesReply
    BY DEF RequestInv, RowsMatch, Matches, RowMatchesReply
  <1> QED
    BY <1>1, LedgerInvariant, PTL

-----------------------------------------------------------------------------
(* What a step may not take back. *)

\* Bytes that were sent stay sent, and while a stream runs its headers stay.
LEMMA StreamKept ==
    ASSUME TypeInv, NEW r \in Requests, [Next]_vars
    PROVE  wire[r] \subseteq wire'[r] /\ (pc[r] = "streaming" => reply'[r] = reply[r])
  <1> DEFINE Grows == wire[r] \subseteq wire'[r] /\ (pc[r] = "streaming" => reply'[r] = reply[r])
  <1>1. CASE Untouched(r)
    BY <1>1 DEF Untouched
  <1>2. CASE RequestStep(r)
    <2>1. CASE StreamChunk(r)
      BY <2>1 DEF StreamChunk, TypeInv, TypeOK
    <2>2. CASE ~StreamChunk(r)
      <3>1. wire' = wire
        BY <1>2, <2>2 DEF RequestStep, HandlerStep, RejectBody, Receive, NoChain, LookupHit,
             LookupMiss, SkipModel, CallProvider, AllFailed, CallFails, ProviderRejects,
             ProviderAnswers, ProviderRefuses, StreamBegins, StreamEnds, WriteReply,
             ClientGone, LogInserted, LogFails, serving
      <3>2. pc[r] = "streaming" => reply' = reply
        BY <1>2, <2>2 DEF RequestStep, HandlerStep, RejectBody, Receive, NoChain, LookupHit,
             LookupMiss, SkipModel, CallProvider, AllFailed, CallFails, ProviderRejects,
             ProviderAnswers, ProviderRefuses, StreamBegins, StreamEnds, WriteReply,
             ClientGone, LogInserted, LogFails, serving, Goto
      <3> QED
        BY <3>1, <3>2
    <2> QED
      BY <2>1, <2>2
  <1>3. CASE ShutdownDone \/ Killed
    BY <1>3 DEF ShutdownDone, Killed, serving
  <1>4. ASSUME NEW q \in Requests, q # r, RequestStep(q) PROVE Grows
    BY <1>1, <1>4, OthersUntouched DEF TypeInv
  <1>5. CASE \/ \E e \in storeJobs \cup cache : EntryStep(e)
             \/ Signal \/ Restart \/ UNCHANGED vars
    BY <1>1, <1>5, NoneTouched
  <1> QED
    BY <1>2, <1>3, <1>4, <1>5 DEF Next, ProcessStep

\* Once a stream's first bytes reached the client, no later step of anyone changes the
\* headers it saw, falls back to another model or mixes in another model's bytes.
THEOREM StreamsCommit == Spec => StreamCommits
  <1> DEFINE Commits == \A r \in Requests : wire[r] # {} =>
        /\ reply'[r] = reply[r] /\ wire'[r] = {reply[r].by} /\ wire[r] = {reply[r].by}
        /\ pc'[r] \in {"streaming", "done", "aborted"}
  <1>1. ASSUME TypeInv, \A r \in Requests : RequestInv(r), [Next]_vars PROVE Commits
    <2> SUFFICES ASSUME NEW r \in Requests, wire[r] # {}
                 PROVE  /\ reply'[r] = reply[r] /\ wire'[r] = {reply[r].by}
                        /\ wire[r] = {reply[r].by}
                        /\ pc'[r] \in {"streaming", "done", "aborted"}
      OBVIOUS
    <2>1. pc[r] \in {"streaming", "done", "aborted"} /\ wire[r] = {reply[r].by}
      BY <1>1 DEF RequestInv, Streamed
    <2>2. wire[r] \subseteq wire'[r] /\ (pc[r] = "streaming" => reply'[r] = reply[r])
      BY <1>1, StreamKept
    <2>3. reply'[r] = reply[r]
      BY <1>1, <2>1, <2>2, NextKeepsAnswers DEF TypeInv, AnswersKept, Final
    <2>4. RequestInv(r)' /\ wire'[r] # {}
      BY <1>1, <2>2, NextRequestInv
    <2>5. pc'[r] \in {"streaming", "done", "aborted"} /\ wire'[r] = {reply'[r].by}
      BY <2>4 DEF RequestInv, Streamed
    <2> QED
      BY <2>1, <2>3, <2>5
  <1>2. Commits => [Commits]_vars
    OBVIOUS
  <1>3. TypeInv /\ (\A r \in Requests : RequestInv(r)) /\ [Next]_vars => [Commits]_vars
    BY <1>1, <1>2
  <1> HIDE DEF Commits
  <1>4. Spec => [][Commits]_vars
    BY <1>3, LedgerInvariant, PTL DEF Spec
  <1> QED
    BY <1>4 DEF Commits, StreamCommits

\* Nothing is attempted for a request that has ended.
LEMMA TraceKept ==
    ASSUME TypeInv, NEW r \in Requests, [Next]_vars, pc[r] \in Final
    PROVE  trace'[r] = trace[r]
  <1>1. CASE RequestStep(r)
    BY <1>1 DEF RequestStep, HandlerStep, RejectBody, Receive, NoChain, LookupHit,
         LookupMiss, SkipModel, CallProvider, AllFailed, CallFails, ProviderRejects,
         ProviderAnswers, ProviderRefuses, StreamBegins, StreamChunk, StreamEnds, WriteReply,
         ClientGone, LogInserted, LogFails, serving, Goto, Final
  <1>2. CASE Untouched(r)
    BY <1>2 DEF Untouched
  <1>3. CASE ShutdownDone \/ Killed
    BY <1>3 DEF ShutdownDone, Killed, serving
  <1>4. ASSUME NEW q \in Requests, q # r, RequestStep(q) PROVE trace'[r] = trace[r]
    BY <1>2, <1>4, OthersUntouched DEF TypeInv
  <1>5. CASE \/ \E e \in storeJobs \cup cache : EntryStep(e)
             \/ Signal \/ Restart \/ UNCHANGED vars
    BY <1>2, <1>5, NoneTouched
  <1> QED
    BY <1>1, <1>3, <1>4, <1>5 DEF Next, ProcessStep

LEMMA DecidedKept ==
    ASSUME TypeInv, NEW r \in Requests, [Next]_vars, Decided(r)
    PROVE  Decided(r)' /\ reply'[r] = reply[r]
  <1>1. pc[r] \in Final
    BY DEF Decided, Final
  <1>2. pc'[r] \in Final /\ reply'[r] = reply[r] /\ trace'[r] = trace[r]
    BY <1>1, NextKeepsAnswers, TraceKept DEF TypeInv, AnswersKept
  <1> QED
    BY <1>2 DEF Decided, Final

LEMMA NextSourcesDecided ==
    ASSUME TypeInv, \A r \in Requests : RequestInv(r), SourcesDecided, [Next]_vars
    PROVE  SourcesDecided'
  <1>1. \A e \in cache \cup storeJobs : e.from \in Requests
    BY DEF TypeInv, TypeOK, Entries
  <1>2. \A e \in cache \cup storeJobs : Decided(e.from)'
    BY <1>1, DecidedKept DEF SourcesDecided
  <1>3. CASE cache' \cup storeJobs' \subseteq cache \cup storeJobs
    BY <1>2, <1>3 DEF SourcesDecided
  <1>4. ASSUME NEW r \in Requests, LookupHit(r) PROVE SourcesDecided'
    BY <1>3, <1>4 DEF LookupHit
  <1>5. ASSUME NEW r \in Requests, ProviderAnswers(r) PROVE SourcesDecided'
    <2>1. pc'[r] = "replying" /\ cache' = cache
            /\ storeJobs' \subseteq storeJobs \cup {StoredEntry(r)}
      BY <1>5 DEF ProviderAnswers, Goto, TypeInv, TypeOK
    <2>2. Decided(r)'
      BY <2>1, NextRequestInv DEF RequestInv, Concluded
    <2>3. \A e \in cache' \cup storeJobs' : e \in cache \cup storeJobs \/ e.from = r
      BY <2>1 DEF StoredEntry
    <2>4. \A e \in cache' \cup storeJobs' : Decided(e.from)'
      BY <1>2, <2>2, <2>3 DEF Decided
    <2> QED
      BY <2>4 DEF SourcesDecided
  <1> QED
    BY <1>3, <1>4, <1>5, NextNothingNew DEF NothingNew, TypeInv

\* What the refinement needs of the reachable states.
Sound ==
    TypeInv /\ Provenance /\ (\A r \in Requests : RequestInv(r)) /\ SourcesDecided

LEMMA SoundInvariant == Spec => []Sound
  <1>1. Init => SourcesDecided
    BY DEF Init, SourcesDecided
  <1>2. TypeInv /\ (\A r \in Requests : RequestInv(r)) /\ SourcesDecided /\ [Next]_vars
          => SourcesDecided'
    BY NextSourcesDecided
  <1>3. Spec => []SourcesDecided
    BY <1>1, <1>2, LedgerInvariant, PTL DEF Spec
  <1> QED
    BY <1>3, LedgerInvariant, ProvenanceInvariant, PTL DEF Sound

-----------------------------------------------------------------------------
(* The handler implements the contract: what a step is to the contract. *)

\* The request whose response answers r, as the contract sees it.
Source(r) == IF Decided(r) THEN reply[r].from ELSE NoRequest
\* The contract sees no change in r.
Same(r) == Phase(r)' = Phase(r) /\ Source(r)' = Source(r) /\ Ledger(r)' = Ledger(r)
Reusable == {e.from : e \in cache}

LEMMA UntouchedSame ==
    ASSUME NEW r \in Requests, Untouched(r)
    PROVE  Same(r)
  <1>1. Decided(r)' = Decided(r)
    BY DEF Untouched, Decided
  <1> QED
    BY <1>1 DEF Untouched, Same, Phase, Source, Ledger

LEMMA OthersSame ==
    ASSUME TypeInv, NEW r \in Requests, RequestStep(r)
    PROVE  \A q \in Requests \ {r} : Same(q)
  BY OthersUntouched, UntouchedSame DEF TypeInv

\* What the contract sees of a handler that has no answer yet.
LEMMA UnderwaySeen ==
    ASSUME TypeInv, NEW r \in Requests, RequestInv(r), pc[r] \notin Final
    PROVE  /\ ~Decided(r) /\ Source(r) = NoRequest /\ Ledger(r) = "nothing"
           /\ Phase(r) = IF pc[r] = "idle" THEN "new" ELSE "open"
  <1>1. ~Decided(r)
    BY DEF Decided, Final
  <1>2. Ledger(r) = "nothing"
    BY NothingYet DEF Ledger
  <1>3. pc[r] # "done" /\ pc[r] # "aborted"
    BY DEF Final
  <1> QED
    BY <1>1, <1>2, <1>3 DEF Source, Phase

\* A request owes one row at most, so a goroutine that holds one holds the only one.
LEMMA OneRow ==
    ASSUME TypeInv, NEW r \in Requests, RequestInv(r), logJobs[r] # <<>>
    PROVE  Len(logJobs[r]) = 1 /\ Tail(logJobs[r]) = <<>> /\ rows[r] = <<>> /\ lost[r] = 0
  <1> DEFINE a == Len(logJobs[r])
             b == Len(rows[r])
             c == lost[r]
  <1>1. a \in Nat \ {0} /\ b \in Nat /\ c \in Nat
    BY FirstJob, RequestTyped
  <1>2. a + b + c = 0 \/ a + b + c = 1
    BY DEF RequestInv, Accounted, Owed
  <1>3. a = 1 /\ b = 0 /\ c = 0
    <2> HIDE DEF a, b, c
    <2> QED
      BY <1>1, <1>2
  <1>4. Len(Tail(logJobs[r])) = 0 /\ Tail(logJobs[r]) \in Seq(Rows) /\ rows[r] \in Seq(Rows)
    <2>1. logJobs[r] \in Seq(Rows) /\ rows[r] \in Seq(Rows)
      BY RequestTyped
    <2> QED
      BY <1>3, <2>1
  <1>5. \A s \in Seq(Rows) : Len(s) = 0 => s = <<>>
    OBVIOUS
  <1> QED
    BY <1>3, <1>4, <1>5

\* The contract's functions change at one request when the others are the same.
LEMMA BarsMove ==
    ASSUME NEW r \in Requests, \A q \in Requests \ {r} : Same(q)
    PROVE  /\ [q \in Requests |-> Phase(q)]'
                = [[q \in Requests |-> Phase(q)] EXCEPT ![r] = Phase(r)']
           /\ [q \in Requests |-> Source(q)]'
                = [[q \in Requests |-> Source(q)] EXCEPT ![r] = Source(r)']
           /\ [q \in Requests |-> Ledger(q)]'
                = [[q \in Requests |-> Ledger(q)] EXCEPT ![r] = Ledger(r)']
           /\ Phase(r)' = Phase(r) =>
                [q \in Requests |-> Phase(q)]' = [q \in Requests |-> Phase(q)]
           /\ Source(r)' = Source(r) =>
                [q \in Requests |-> Source(q)]' = [q \in Requests |-> Source(q)]
           /\ Ledger(r)' = Ledger(r) =>
                [q \in Requests |-> Ledger(q)]' = [q \in Requests |-> Ledger(q)]
  BY DEF Same

LEMMA StutterStep ==
    ASSUME \A r \in Requests : Same(r), Reusable' = Reusable
    PROVE  UNCHANGED Contract!vars
  BY DEF Same, Reusable, Contract!vars, Source

\* A reply that reports a failure is no answer.
LEMMA ErrorSteps ==
    ASSUME TypeInv, NEW r \in Requests,
           RejectBody(r) \/ NoChain(r) \/ AllFailed(r) \/ ProviderRejects(r)
    PROVE  ~reply'[r].hit /\ reply'[r].status # OK
  <1>1. \E status \in {BadRequest, NotFound, BadGateway} \cup Refusals, err \in Nat :
          reply'[r] = ErrorReply(status, err)
    <2>1. CASE RejectBody(r) \/ NoChain(r)
      BY ZenonT(60), <2>1 DEF RejectBody, NoChain, TypeInv, TypeOK, Nil
    <2>2. CASE AllFailed(r)
      <3>1. lastStatus[r] \in Refusals \cup {Nil} /\ lastErr[r] \in Nat
        <4>1. lastStatus[r] \in Refusals \cup {Nil} /\ lastErr[r] \in 0..MaxAttempts
          BY DEF TypeInv, TypeOK
        <4> QED
          BY <4>1
      <3>2. reply'[r] = ErrorReply(IF lastStatus[r] # Nil THEN lastStatus[r] ELSE BadGateway,
                                   lastErr[r])
        BY <2>2 DEF AllFailed, TypeInv, TypeOK
      <3> QED
        BY <3>1, <3>2
    <2>3. CASE ProviderRejects(r)
      <3>1. pos[r] \in Nat
        <4>1. pos[r] \in 1..MaxAttempts + 1
          BY DEF TypeInv, TypeOK
        <4> QED
          BY <4>1
      <3>2. reply'[r] = ErrorReply(BadRequest, pos[r])
        BY <2>3 DEF ProviderRejects, TypeInv, TypeOK
      <3> QED
        BY <3>1, <3>2
    <2> QED
      BY <2>1, <2>2, <2>3
  <1>2. PICK status \in {BadRequest, NotFound, BadGateway} \cup Refusals, err \in Nat :
          reply'[r] = ErrorReply(status, err)
    BY <1>1
  <1>3. status # OK
    BY StatusAssumption DEF BadRequest, NotFound, BadGateway, OK
  <1>4. reply'[r].hit = FALSE /\ reply'[r].status = status
    BY <1>2 DEF ErrorReply, NoReply
  <1> QED
    BY <1>3, <1>4

\* A request refused before it is read.
LEMMA RefuseStep ==
    ASSUME Sound, NEW r \in Requests, RejectBody(r) \/ NoChain(r)
    PROVE  Contract!Refuse(r)
  <1> USE DEF Sound
  <1>1. /\ pc[r] = "idle" /\ pc'[r] = "done" /\ trace' = trace /\ trace[r] = <<>>
        /\ UNCHANGED <<logJobs, rows, lost, cache>>
    BY DEF RejectBody, NoChain, Goto, TypeInv, TypeOK, RequestInv, Underway, jobs
  <1>2. ~reply'[r].hit
    BY ErrorSteps
  <1>3. Phase(r) = "new" /\ Source(r) = NoRequest
    BY <1>1, UnderwaySeen DEF Final
  <1>4. ~Decided(r)'
    BY <1>1, <1>2 DEF Decided
  <1>5. Phase(r)' = "failed" /\ Source(r)' = NoRequest /\ Ledger(r)' = Ledger(r)
    BY <1>1, <1>4 DEF Phase, Source, Ledger
  <1>6. \A q \in Requests \ {r} : Same(q)
    BY OthersSame DEF RequestStep
  <1> QED
    BY <1>1, <1>3, <1>5, <1>6, BarsMove DEF Contract!Refuse, Contract!Move, Source

LEMMA OpenStep ==
    ASSUME Sound, NEW r \in Requests, Receive(r)
    PROVE  Contract!Open(r)
  <1> USE DEF Sound
  <1>1. /\ pc[r] = "idle" /\ pc'[r] \in {"lookup", "loop"} /\ UNCHANGED <<logJobs, rows, lost, cache>>
    BY DEF Receive, Goto, TypeInv, TypeOK, jobs
  <1>2. Phase(r) = "new" /\ Source(r) = NoRequest
    BY <1>1, UnderwaySeen DEF Final
  <1>3. Phase(r)' = "open" /\ Source(r)' = NoRequest /\ Ledger(r)' = Ledger(r)
    BY <1>1 DEF Phase, Source, Ledger, Decided
  <1>4. \A q \in Requests \ {r} : Same(q)
    BY OthersSame DEF RequestStep
  <1> QED
    BY <1>1, <1>2, <1>3, <1>4, BarsMove DEF Contract!Open, Contract!Move, Source

\* An answer: from a cached response, or the request's own.
LEMMA AnswerStep ==
    ASSUME Sound, NEW r \in Requests, [Next]_vars,
           LookupHit(r) \/ ProviderAnswers(r) \/ StreamEnds(r)
    PROVE  Contract!Answer(r)
  <1> USE DEF Sound
  <1>1. /\ pc[r] \in {"lookup", "calling", "streaming"} /\ cache' = cache
        /\ \E row : logJobs'[r] = Append(logJobs[r], row)
    BY DEF LookupHit, ProviderAnswers, StreamEnds, Goto, SpawnLog, TypeInv, TypeOK
  <1>2. Phase(r) = "open" /\ Source(r) = NoRequest
    BY <1>1, UnderwaySeen DEF Final
  <1>3. Decided(r)' /\ \E p \in Reusable \cup {r} : reply'[r].from = p
    <2>1. CASE LookupHit(r)
      <3>1. PICK e \in Nearest(r) : reply'[r] =
              [status |-> OK, hit |-> TRUE, by |-> Chain(r)[1], depth |-> 0,
               from |-> e.from, error |-> Nil]
        BY <2>1 DEF LookupHit, TypeInv, TypeOK
      <3>2. e \in cache
        BY DEF Nearest, Tagged
      <3>3. pc'[r] = "replying"
        BY <2>1 DEF LookupHit, Goto, TypeInv, TypeOK
      <3> QED
        BY <3>1, <3>2, <3>3 DEF Decided, Reusable
    <2>2. CASE ProviderAnswers(r)
      <3>1. pc'[r] = "replying" /\ reply'[r].from = r
        BY <2>2 DEF ProviderAnswers, Goto, TypeInv, TypeOK, Served
      <3> QED
        BY <3>1, NextRequestInv DEF RequestInv, Concluded
    <2>3. CASE StreamEnds(r)
      <3>1. pc'[r] = "done" /\ Record(r, Outcome(r, "ok", OK)) /\ pc[r] = "streaming"
              /\ reply'[r] = reply[r]
        BY <2>3 DEF StreamEnds, Goto, TypeInv, TypeOK
      <3>2. Outcome(r, "ok", OK) \in Outcomes /\ Outcome(r, "ok", OK).kind = "ok"
        BY ZenonT(60), <3>1, TryTyped DEF Outcome, OK, TypeInv, Control
      <3>3. trace'[r] # <<>> /\ trace'[r][Len(trace'[r])].kind = "ok"
        BY <3>1, <3>2, Recorded
      <3>4. reply[r].from = r
        <4>1. reply[r] = Served(r)
          BY <3>1 DEF RequestInv, Streamed
        <4> QED
          BY <4>1 DEF Served
      <3> QED
        BY <3>1, <3>3, <3>4 DEF Decided
    <2> QED
      BY <2>1, <2>2, <2>3
  <1>4. logJobs'[r] # <<>>
    <2>1. logJobs[r] = <<>>
      BY <1>1, NothingYet DEF Final
    <2> QED
      BY <1>1, <2>1
  <1>5. Phase(r)' = "answered" /\ Ledger(r)' = "owed"
    BY <1>3, <1>4 DEF Phase, Ledger
  <1>6. \E p \in Reusable \cup {r} : Source(r)' = p
    BY <1>3 DEF Source
  <1>7. \A q \in Requests \ {r} : Same(q)
    BY OthersSame DEF RequestStep, HandlerStep
  <1> QED
    BY <1>1, <1>2, <1>5, <1>6, <1>7, BarsMove
       DEF Contract!Answer, Contract!Move, Contract!Owe, Source, Reusable

\* A failure: every model failed, or a provider rejected the request.
LEMMA FailStep ==
    ASSUME Sound, NEW r \in Requests, [Next]_vars, AllFailed(r) \/ ProviderRejects(r)
    PROVE  Contract!Fail(r)
  <1> USE DEF Sound
  <1>1. /\ pc[r] \in {"loop", "calling"} /\ pc'[r] = "done" /\ UNCHANGED <<cache, rows, lost>>
        /\ ~reply'[r].hit /\ reply'[r].status # OK
    BY ErrorSteps DEF AllFailed, ProviderRejects, Goto, TypeInv, TypeOK, jobs
  <1>2. Phase(r) = "open" /\ Source(r) = NoRequest
    BY <1>1, UnderwaySeen DEF Final
  <1>3. ~Decided(r)'
    <2>1. RequestInv(r)'
      BY NextRequestInv
    <2> QED
      BY <1>1, <2>1 DEF RequestInv, Concluded
  <1>4. Phase(r)' = "failed" /\ Source(r)' = NoRequest
    BY <1>1, <1>3 DEF Phase, Source
  <1>5. Ledger(r)' = "owed" \/ Ledger(r)' = Ledger(r)
    <2>1. logJobs[r] = <<>>
      BY <1>1, NothingYet DEF Final
    <2> QED
      BY <1>1, <2>1 DEF Ledger
  <1>6. \A q \in Requests \ {r} : Same(q)
    BY OthersSame DEF RequestStep, HandlerStep
  <1> QED
    BY <1>1, <1>2, <1>4, <1>5, <1>6, BarsMove
       DEF Contract!Fail, Contract!Move, Contract!Owe, Source, Reusable

\* Between its attempts a handler moves within what the contract calls open.
LEMMA GoesOnStep ==
    ASSUME Sound, NEW r \in Requests,
           \/ LookupMiss(r) \/ SkipModel(r) \/ CallProvider(r) \/ CallFails(r)
           \/ \E status \in Refusals : ProviderRefuses(r, status)
           \/ StreamBegins(r) \/ StreamChunk(r)
    PROVE  Same(r) /\ Reusable' = Reusable
  <1> USE DEF Sound
  <1>1. /\ pc[r] \in {"lookup", "loop", "calling", "streaming"}
        /\ pc'[r] \in {"lookup", "loop", "calling", "streaming"}
        /\ UNCHANGED <<logJobs, rows, lost, cache>>
    BY DEF LookupMiss, SkipModel, CallProvider, CallFails, ProviderRefuses, StreamBegins,
           StreamChunk, Goto, TypeInv, TypeOK, jobs
  <1>2. Phase(r) = "open" /\ Source(r) = NoRequest
    BY <1>1, UnderwaySeen DEF Final
  <1>3. ~Decided(r)'
    BY <1>1 DEF Decided
  <1>4. Phase(r)' = "open" /\ Source(r)' = NoRequest /\ Ledger(r)' = Ledger(r)
    BY <1>1, <1>3 DEF Phase, Source, Ledger
  <1> QED
    BY <1>1, <1>2, <1>4 DEF Same, Reusable

\* The reply is written after the contract saw the answer.
LEMMA WriteReplyStep ==
    ASSUME Sound, NEW r \in Requests, WriteReply(r)
    PROVE  Same(r) /\ Reusable' = Reusable
  <1>1. /\ pc[r] = "replying" /\ pc'[r] = "done"
        /\ UNCHANGED <<reply, trace, logJobs, rows, lost, cache>>
    BY DEF WriteReply, Goto, Sound, TypeInv, TypeOK, jobs
  <1>2. Decided(r)
    BY <1>1 DEF Sound, RequestInv, Concluded
  <1>3. Decided(r)'
    BY <1>1, <1>2 DEF Decided
  <1> QED
    BY <1>1, <1>2, <1>3 DEF Same, Phase, Source, Ledger, Reusable

LEMMA WriteStep ==
    ASSUME Sound, NEW r \in Requests, LogInserted(r)
    PROVE  Contract!Write(r)
  <1> USE DEF Sound
  <1>1. /\ logJobs[r] # <<>> /\ logJobs'[r] = Tail(logJobs[r])
        /\ rows'[r] = Append(rows[r], Head(logJobs[r]))
        /\ UNCHANGED <<pc, reply, trace, lost, cache>>
    BY DEF LogInserted, TypeInv, TypeOK, serving
  <1>2. logJobs'[r] = <<>> /\ rows[r] = <<>>
    BY <1>1, OneRow
  <1>3. rows'[r] # <<>>
    BY <1>1, <1>2
  <1>4. Ledger(r) = "owed" /\ Ledger(r)' = "written"
    BY <1>1, <1>2, <1>3 DEF Ledger
  <1>5. Decided(r)' = Decided(r)
    BY <1>1 DEF Decided
  <1>6. Phase(r)' = Phase(r) /\ Source(r)' = Source(r)
    BY <1>1, <1>5 DEF Phase, Source
  <1>7. \A q \in Requests \ {r} : Same(q)
    BY OthersSame DEF RequestStep
  <1> QED
    BY <1>1, <1>4, <1>6, <1>7, BarsMove DEF Contract!Write, Source

LEMMA LoseStep ==
    ASSUME Sound, NEW r \in Requests, LogFails(r)
    PROVE  Contract!Lose(r)
  <1> USE DEF Sound
  <1>1. /\ logJobs[r] # <<>> /\ logJobs'[r] = Tail(logJobs[r]) /\ lost'[r] = lost[r] + 1
        /\ UNCHANGED <<pc, reply, trace, rows, cache>>
    BY DEF LogFails, TypeInv, TypeOK, serving
  <1>2. logJobs'[r] = <<>> /\ rows[r] = <<>> /\ lost[r] = 0
    BY <1>1, OneRow
  <1>3. rows'[r] = <<>> /\ lost'[r] > 0
    BY <1>1, <1>2
  <1>4. Ledger(r) = "owed" /\ Ledger(r)' = "lost"
    BY <1>1, <1>2, <1>3 DEF Ledger
  <1>5. Decided(r)' = Decided(r)
    BY <1>1 DEF Decided
  <1>6. Phase(r)' = Phase(r) /\ Source(r)' = Source(r)
    BY <1>1, <1>5 DEF Phase, Source
  <1>7. \A q \in Requests \ {r} : Same(q)
    BY OthersSame DEF RequestStep
  <1> QED
    BY <1>1, <1>4, <1>6, <1>7, BarsMove DEF Contract!Lose, Source

\* Shutdown and crash: handlers under way die, rows not yet written are lost.
LEMMA StopStep ==
    ASSUME Sound, ShutdownDone \/ Killed
    PROVE  Contract!Stop
  <1> USE DEF Sound
  <1>1. ASSUME NEW r \in Requests
        PROVE  /\ Phase(r)' = IF Phase(r) = "open" THEN "dead" ELSE Phase(r)
               /\ Source(r)' = Source(r)
               /\ Ledger(r)' = IF Ledger(r) = "owed" THEN "lost" ELSE Ledger(r)
    <2>1. /\ logJobs'[r] = <<>> /\ rows' = rows /\ lost'[r] = lost[r] + Len(logJobs[r])
          /\ UNCHANGED <<reply, trace>>
      BY DEF ShutdownDone, Killed, Exit, serving
    <2>2. IF Active(r) THEN Killed /\ pc'[r] = "aborted" ELSE pc'[r] = pc[r]
      BY DEF ShutdownDone, Killed, serving
    <2>3. RequestInv(r)' /\ RequestInv(r)
      BY ExitKeeps
    <2>4. CASE pc[r] \notin Final
      <3>1. Phase(r) = (IF pc[r] = "idle" THEN "new" ELSE "open") /\ Source(r) = NoRequest
              /\ Ledger(r) = "nothing" /\ logJobs[r] = <<>> /\ rows[r] = <<>> /\ lost[r] = 0
        BY <2>4, UnderwaySeen, NothingYet
      <3>2. ~reply[r].hit /\ (trace[r] # <<>> => trace[r][Len(trace[r])].kind # "ok")
        BY <2>4, UnderwaySeen, NotAnswered
      <3>3. ~Decided(r)' /\ lost'[r] = 0
        BY <2>1, <3>1, <3>2 DEF Decided
      <3>4. pc'[r] = IF pc[r] = "idle" THEN "idle" ELSE "aborted"
        BY <2>2, <2>4 DEF Active, Final
      <3> QED
        BY <2>1, <3>1, <3>3, <3>4 DEF Phase, Source, Ledger
    <2>5. CASE pc[r] \in Final
      <3>1. pc[r] = "replying" => Decided(r)
        BY <2>3 DEF RequestInv, Concluded
      <3>2. Decided(r)' = Decided(r)
        BY <2>1, <2>2, <2>5 DEF Decided, Active, Final
      <3>3. Phase(r)' = Phase(r) /\ Phase(r) # "open" /\ Source(r)' = Source(r)
        BY <2>1, <2>2, <2>5, <3>1, <3>2 DEF Phase, Source, Active, Final
      <3>4. CASE logJobs[r] = <<>>
        <4>1. Len(logJobs[r]) = 0 /\ lost[r] \in Nat
          BY <3>4, RequestTyped
        <4>2. lost'[r] = lost[r]
          BY <2>1, <4>1
        <4> QED
          BY <2>1, <3>3, <3>4, <4>2 DEF Ledger
      <3>5. CASE logJobs[r] # <<>>
        <4>1. Len(logJobs[r]) = 1 /\ rows[r] = <<>> /\ lost[r] = 0
          BY <3>5, OneRow
        <4>2. lost'[r] > 0
          BY <2>1, <4>1
        <4> QED
          BY <2>1, <3>3, <3>5, <4>1, <4>2 DEF Ledger
      <3> QED
        BY <3>4, <3>5
    <2> QED
      BY <2>4, <2>5
  <1>2. cache' = cache
    BY DEF ShutdownDone, Killed, Exit
  <1> QED
    BY <1>1, <1>2 DEF Contract!Stop, Source

\* What the cache and its goroutines do with an entry.
LEMMA EntryStepSeen ==
    ASSUME Sound, NEW e \in storeJobs \cup cache, EntryStep(e)
    PROVE  Contract!Next \/ UNCHANGED Contract!vars
  <1> USE DEF Sound
  <1>1. \A r \in Requests : Same(r)
    BY NoneTouched, UntouchedSame
  <1>2. e.from \in Requests
    BY DEF TypeInv, TypeOK, Entries
  <1>bars. /\ [q \in Requests |-> Phase(q)]' = [q \in Requests |-> Phase(q)]
           /\ [q \in Requests |-> Source(q)]' = [q \in Requests |-> Source(q)]
           /\ [q \in Requests |-> Ledger(q)]' = [q \in Requests |-> Ledger(q)]
    BY <1>1 DEF Same
  <1>3. CASE StoreRuns(e)
    <2>1. cache' = cache \cup {e} /\ e \in storeJobs
      BY <1>3 DEF StoreRuns
    <2>2. Reusable' = Reusable \cup {e.from}
      BY <2>1 DEF Reusable
    <2>3. Decided(e.from) /\ reply[e.from].from = e.from
      BY <2>1 DEF SourcesDecided, Provenance, CacheProvenance, AnsweredBy
    <2>4. Phase(e.from) = "answered" /\ Source(e.from) = e.from
      BY <2>3 DEF Phase, Source
    <2>5. Contract!Publish(e.from)
      BY <1>2, <1>bars, <2>2, <2>4 DEF Contract!Publish, Reusable, Source
    <2> QED
      BY <1>2, <2>5 DEF Contract!Next
  <1>4. CASE StoreFails(e)
    <2>1. Reusable' = Reusable
      BY <1>4 DEF StoreFails, Reusable
    <2> QED
      BY <1>1, <2>1, StutterStep
  <1>5. CASE CacheDrop(e)
    <2>1. cache' = cache \ {e}
      BY <1>5 DEF CacheDrop
    <2>2. CASE \E f \in cache' : f.from = e.from
      <3>1. Reusable' = Reusable
        BY <2>1, <2>2 DEF Reusable
      <3> QED
        BY <1>1, <3>1, StutterStep
    <2>3. CASE ~ \E f \in cache' : f.from = e.from
      <3>1. Reusable' = Reusable \ {e.from}
        BY <2>1, <2>3 DEF Reusable
      <3>2. Contract!Withdraw(e.from)
        BY <1>bars, <3>1 DEF Contract!Withdraw, Reusable, Source
      <3> QED
        BY <1>2, <3>2 DEF Contract!Next
    <2> QED
      BY <2>2, <2>3
  <1> QED
    BY <1>3, <1>4, <1>5 DEF EntryStep

LEMMA InitContract == Init => Contract!Init
  <1> SUFFICES ASSUME Init PROVE Contract!Init
    OBVIOUS
  <1>1. ASSUME NEW r \in Requests
        PROVE  Phase(r) = "new" /\ Source(r) = NoRequest /\ Ledger(r) = "nothing"
    BY InitTypeInv, InitRequestInv, UnderwaySeen DEF Init, Final
  <1>2. {e.from : e \in cache} = {}
    BY DEF Init
  <1> QED
    BY <1>1, <1>2 DEF Contract!Init, Source

LEMMA RequestStepSeen ==
    ASSUME Sound, [Next]_vars, NEW r \in Requests, RequestStep(r)
    PROVE  Contract!Next \/ UNCHANGED Contract!vars
  <1>1. CASE RejectBody(r) \/ NoChain(r)
    BY <1>1, RefuseStep DEF Contract!Next
  <1>2. CASE Receive(r)
    BY <1>2, OpenStep DEF Contract!Next
  <1>3. CASE LookupHit(r) \/ ProviderAnswers(r) \/ StreamEnds(r)
    BY <1>3, AnswerStep DEF Contract!Next
  <1>4. CASE AllFailed(r) \/ ProviderRejects(r)
    BY <1>4, FailStep DEF Contract!Next
  <1>5. CASE LogInserted(r)
    BY <1>5, WriteStep DEF Contract!Next
  <1>6. CASE LogFails(r)
    BY <1>6, LoseStep DEF Contract!Next
  <1>7. CASE \/ LookupMiss(r) \/ SkipModel(r) \/ CallProvider(r) \/ CallFails(r)
             \/ \E status \in Refusals : ProviderRefuses(r, status)
             \/ StreamBegins(r) \/ StreamChunk(r) \/ WriteReply(r)
    <2>1. Same(r) /\ Reusable' = Reusable
      BY <1>7, GoesOnStep, WriteReplyStep
    <2>2. \A q \in Requests : Same(q)
      BY <2>1, OthersSame DEF Sound
    <2> QED
      BY <2>1, <2>2, StutterStep
  <1>8. CASE ClientGone(r)
    <2>1. \A q \in Requests : Same(q)
      BY <1>8, NoneTouched, UntouchedSame
    <2>2. Reusable' = Reusable
      BY <1>8 DEF ClientGone, jobs, Reusable
    <2> QED
      BY <2>1, <2>2, StutterStep
  <1> QED
    BY <1>1, <1>2, <1>3, <1>4, <1>5, <1>6, <1>7, <1>8 DEF RequestStep, HandlerStep

LEMMA NextContract ==
    ASSUME Sound, [Next]_vars
    PROVE  [Contract!Next]_(Contract!vars)
  <1>1. ASSUME NEW r \in Requests, RequestStep(r)
        PROVE  Contract!Next \/ UNCHANGED Contract!vars
    BY <1>1, RequestStepSeen
  <1>2. ASSUME NEW e \in storeJobs \cup cache, EntryStep(e)
        PROVE  Contract!Next \/ UNCHANGED Contract!vars
    BY <1>2, EntryStepSeen
  <1>3. CASE ShutdownDone \/ Killed
    BY <1>3, StopStep DEF Contract!Next
  <1>4. CASE Signal \/ Restart \/ UNCHANGED vars
    <2>1. \A q \in Requests : Same(q)
      BY <1>4, NoneTouched, UntouchedSame
    <2>2. Reusable' = Reusable
      BY <1>4 DEF Signal, Restart, vars, jobs, Reusable
    <2> QED
      BY <2>1, <2>2, StutterStep
  <1> QED
    BY <1>1, <1>2, <1>3, <1>4 DEF Next, ProcessStep

\* The handler, with its fallbacks, its goroutines, its cache and its crashes, implements
\* the contract: every request is decided once, by its own response or by a cached one, and
\* is given one log row at most.
THEOREM HandlerImplementsContract == Spec => ImplementsContract
  <1>1. Sound /\ [Next]_vars => [Contract!Next]_(Contract!vars)
    BY NextContract
  <1>2. Spec => Contract!Init /\ [][Contract!Next]_(Contract!vars)
    BY <1>1, InitContract, SoundInvariant, PTL DEF Spec
  <1> QED
    BY <1>2 DEF ImplementsContract, Contract!Spec

-----------------------------------------------------------------------------
(* The executor.                                                            *)

Messages == [role : Roles, content : Contents]
Lines == [kind : {"data", "noise", "garbled", "blank", "long", "done"}, parts : Seq(Texts),
          finish : {"none", "stop", "length"}]
OutFrames == [kind : {"chunk", "done", "raw"}, parts : Seq(Texts),
              finish : {"none", "stop", "length"}]

ExecutorTypeOK ==
    /\ dialect \in Dialects
    /\ messages \in Seq(Messages)
    /\ sent \in Seq(Lines)
    /\ closed \in {"open", "eof", "broken"}
    /\ read \in 0..Len(sent)
    /\ out \in Seq(OutFrames)
    /\ at \in {"ask", "sent", "scan", "done", "eof", "answered"}

\* What was sent is what the transformer made of the conversation.
BodySent == at = "sent" => body = TransformRequest(dialect, messages)

\* Only a line of data carries text or ends the message, and only Gemini's does both.
LineInv(l) ==
    /\ l.kind # "data" => l.parts = <<>> /\ l.finish = "none"
    /\ l.kind = "data" /\ l.finish # "none" /\ dialect # "gemini" => l.parts = <<>>
\* Nothing follows the line that ends the message, but for [DONE], which nothing follows.
LastLines ==
    /\ \A i \in DOMAIN sent : sent[i].finish # "none" /\ i # Len(sent) => dialect = "openai"
    /\ \A i \in DOMAIN sent : sent[i].kind = "done" =>
         i = Len(sent) /\ dialect = "openai" /\ Finished
ProviderInv ==
    /\ at \in {"ask", "sent"} => sent = <<>> /\ read = 0 /\ out = <<>> /\ closed = "open"
    /\ at \in {"scan", "done", "eof"} => (\A i \in DOMAIN sent : LineInv(sent[i])) /\ LastLines
    /\ closed = "eof" /\ at # "answered" => Finished /\ (dialect = "openai" => Ended)

\* How far the executor has read.
ReadInv ==
    /\ \A i \in 1..read : sent[i].kind # "long"
    /\ at = "done" => read = Len(sent) /\ Finished /\ (dialect = "openai" => Ended)
    /\ at = "eof" => closed = "broken" \/ ~Whole(sent) \/ (closed = "eof" /\ read = Len(sent))
    /\ at = "answered" => closed = "eof" /\ read = Len(sent)

\* [DONE] is the last frame, and ends the loop.
DoneInv ==
    \A i \in DOMAIN out : out[i].kind = "done" => i = Len(out) /\ at = "done"

\* What was read was said.
SaidInv ==
    (dialect = "gemini" => OnePart(sent)) => Said(out) = Said(SubSeq(sent, 1, read))

ExecutorInv ==
    /\ ExecutorTypeOK /\ BodySent /\ ProviderInv /\ ReadInv /\ DoneInv /\ SaidInv

-----------------------------------------------------------------------------
(* What lines and frames say.                                               *)

LEMMA PartsOf ==
    ASSUME NEW P, \A x \in P : x.parts \in Seq(Texts), NEW lines \in Seq(P)
    PROVE  [i \in DOMAIN lines |-> lines[i].parts] \in Seq(Seq(Texts))
<1>1. lines \in [1..Len(lines) -> P] /\ Len(lines) \in Nat
  BY LenProperties
<1> DEFINE n == Len(lines)
           f == [i \in DOMAIN lines |-> lines[i].parts]
<1>2. f \in [1..n -> Seq(Texts)] /\ n \in Nat
  BY <1>1
<1> HIDE DEF n, f
<1>3. f \in Seq(Seq(Texts))
  BY <1>2, SeqDef
<1> QED BY <1>3 DEF f

LEMMA SaidNone == Said(<<>>) = <<>>
<1>1. [i \in DOMAIN <<>> |-> <<>>[i].parts] = <<>>
  <2>1. DOMAIN <<>> = {}
    OBVIOUS
  <2> QED BY <2>1
<1> QED BY <1>1, FlattenNone DEF Said

LEMMA SaidAppend ==
    ASSUME NEW P, \A x \in P : x.parts \in Seq(Texts), NEW lines \in Seq(P), NEW l \in P
    PROVE  /\ Said(lines) \in Seq(Texts)
           /\ Said(Append(lines, l)) = Said(lines) \o l.parts
<1> DEFINE n == Len(lines)
           more == Append(lines, l)
           f == [i \in DOMAIN lines |-> lines[i].parts]
           g == [i \in DOMAIN more |-> more[i].parts]
<1>1. f \in Seq(Seq(Texts)) /\ l.parts \in Seq(Texts)
  BY PartsOf
<1>2. Said(lines) \in Seq(Texts)
  BY <1>1, FlattenType DEF Said
<1>3. more \in Seq(P) /\ Len(more) = n + 1 /\ more[n + 1] = l /\ \A i \in 1..n : more[i] = lines[i]
  BY AppendProperties
<1>4. n \in Nat /\ DOMAIN lines = 1..n /\ DOMAIN more = 1..n + 1
  BY <1>3, LenProperties
<1>5. g \in Seq(Seq(Texts))
  BY <1>3, PartsOf
<1> HIDE DEF more, n
<1>6. DOMAIN f = 1..n /\ DOMAIN g = 1..n + 1
  BY <1>4
<1>7. g[n + 1] = l.parts /\ \A i \in 1..n : g[i] = f[i]
  BY <1>3, <1>4
<1>8. Len(f) = n /\ Len(g) = n + 1
  <2> HIDE DEF f, g
  <2>1. DOMAIN f = 1..Len(f) /\ DOMAIN g = 1..Len(g) /\ Len(f) \in Nat /\ Len(g) \in Nat
    BY <1>1, <1>5, LenProperties
  <2> QED BY <1>4, <1>6, <2>1
<1> HIDE DEF f, g
<1>9. g = Append(f, l.parts)
  <2> DEFINE h == Append(f, l.parts)
  <2>1. h \in Seq(Seq(Texts)) /\ Len(h) = Len(f) + 1 /\ h[Len(f) + 1] = l.parts
        /\ \A i \in 1..Len(f) : h[i] = f[i]
    BY <1>1, AppendProperties
  <2> HIDE DEF h
  <2>2. Len(h) = n + 1 /\ h[n + 1] = l.parts /\ \A i \in 1..n : h[i] = f[i]
    BY <1>8, <2>1
  <2>3. \A i \in 1..n + 1 : i \in 1..n \/ i = n + 1
    BY <1>4
  <2>4. \A i \in 1..Len(g) : g[i] = h[i]
    BY <1>7, <1>8, <2>2, <2>3
  <2>5. g = h
    BY <1>5, <1>8, <2>1, <2>2, <2>4, SeqEqual
  <2> QED BY <2>5 DEF h
<1>10. FlattenSeq(g) = FlattenSeq(f) \o l.parts
  BY <1>1, <1>9, FlattenAppend
<1> QED BY <1>2, <1>10 DEF Said, f, g, more

LEMMA PairAppended ==
    ASSUME NEW P, NEW x \in P, NEW y \in P
    PROVE  Append(<<x>>, y) = <<x, y>> /\ <<x>> \in Seq(P)
<1> DEFINE a == Append(<<x>>, y)
           b == <<x, y>>
<1>1. <<x>> \in Seq(P) /\ Len(<<x>>) = 1 /\ <<x>>[1] = x
  OBVIOUS
<1>2. a \in Seq(P) /\ Len(a) = 2 /\ a[2] = y /\ a[1] = x
  BY <1>1, AppendProperties
<1>3. b \in Seq(P) /\ Len(b) = 2 /\ b[2] = y /\ b[1] = x
  OBVIOUS
<1> HIDE DEF a, b
<1>4. \A i \in 1..2 : a[i] = b[i]
  BY <1>2, <1>3
<1>5. a = b
  BY <1>2, <1>3, <1>4, SeqEqual
<1> QED BY <1>1, <1>5 DEF a, b

\* The frames written for a line, none, one or two, say what they say one after the other.
LEMMA SaidMore ==
    ASSUME NEW P, \A x \in P : x.parts \in Seq(Texts), NEW lines \in Seq(P), NEW x \in P, NEW y \in P
    PROVE  /\ Said(lines \o <<>>) = Said(lines)
           /\ Said(lines \o <<x>>) = Said(lines) \o x.parts
           /\ Said(lines \o <<x, y>>) = (Said(lines) \o x.parts) \o y.parts
<1>1. lines \o <<>> = lines
  BY ConcatEmptySeq
<1>2. lines \o <<x>> = Append(lines, x)
  BY AppendIsConcat
<1>3. lines \o <<x, y>> = Append(Append(lines, x), y)
  <2>1. <<x, y>> = Append(<<x>>, y) /\ <<x>> \in Seq(P)
    BY PairAppended
  <2> QED BY <1>2, <2>1, AppendOfConcat
<1>4. Append(lines, x) \in Seq(P)
  BY AppendProperties
<1> QED BY <1>1, <1>2, <1>3, <1>4, SaidAppend

LEMMA FirstParts ==
    ASSUME NEW l \in Lines
    PROVE  /\ FirstOf(l.parts) \in Seq(Texts)
           /\ Len(l.parts) <= 1 => FirstOf(l.parts) = l.parts
           /\ FirstText(l) = Empty => l.parts = <<>>
<1> DEFINE p == l.parts
<1>1. p \in Seq(Texts)
  BY DEF Lines
<1>2. CASE p = <<>>
  BY <1>1, <1>2 DEF FirstOf
<1>3. CASE p # <<>>
  <2>1. Len(p) \in Nat /\ Len(p) # 0 /\ p[1] \in Texts
    BY <1>1, <1>3, EmptySeq, ElementOfSeq
  <2>2. FirstOf(p) = <<p[1]>> /\ FirstText(l) = p[1]
    BY <1>3 DEF FirstOf, FirstText
  <2>3. <<p[1]>> \in Seq(Texts)
    BY <2>1
  <2>4. Len(p) <= 1 => <<p[1]>> = p
    BY <1>1, <2>1
  <2> HIDE DEF p
  <2>5. FirstText(l) # Empty
    BY <2>1, <2>2, ExecutorAssumption
  <2> QED BY <2>2, <2>3, <2>4, <2>5 DEF p
<1> QED BY <1>2, <1>3

LEMMA FramesTyped ==
    /\ Done \in OutFrames /\ Raw \in OutFrames
    /\ \A parts \in Seq(Texts), finish \in {"none", "stop", "length"} :
         Chunk(parts, finish) \in OutFrames
BY EmptySeq DEF Done, Raw, Chunk, OutFrames

\* What is made of one line: nothing, a frame, [DONE], or Gemini's two last.
Handled(l, h) ==
    LET whole == dialect = "gemini" => Len(l.parts) <= 1
    IN  \/ h.frames = <<>> /\ ~h.isDone /\ l.parts = <<>>
        \/ \E x \in OutFrames : /\ h.frames = <<x>> /\ ~h.isDone
                                /\ x.kind # "done" /\ (whole => x.parts = l.parts)
        \/ h.frames = <<Done>> /\ h.isDone /\ l.kind = "done" /\ l.parts = <<>>
        \/ \E x \in OutFrames : /\ h.frames = <<x, Done>> /\ h.isDone
                                /\ x.kind # "done" /\ x.parts = <<>> /\ l.parts = <<>>
                                /\ dialect = "gemini" /\ l.finish # "none"

LEMMA LineHandled ==
    ASSUME dialect \in Dialects, NEW l \in Lines, LineInv(l), l.kind # "long"
    PROVE  Handled(l, Handle(l))
<1> USE DEF Frames, Skip
<1>1. l.parts \in Seq(Texts) /\ l.finish \in {"none", "stop", "length"}
      /\ l.kind \in {"data", "noise", "garbled", "blank", "done"}
  BY DEF Lines
<1>2. CASE l.kind = "blank"
  <2>1. Handle(l) = [frames |-> <<>>, isDone |-> FALSE]
    BY <1>2 DEF Handle
  <2> QED BY <1>2, <2>1 DEF Handled, LineInv
<1>3. CASE l.kind = "done"
  <2>1. Handle(l) = [frames |-> <<Done>>, isDone |-> TRUE]
    BY <1>3 DEF Handle
  <2> QED BY <1>3, <2>1 DEF Handled, LineInv
<1> DEFINE whole == dialect = "gemini" => Len(l.parts) <= 1
<1>4. CASE l.kind \in {"data", "noise", "garbled"}
  <2>1. Handle(l) = TransformStreamChunk(dialect, l)
    BY <1>4 DEF Handle
  <2>2. CASE dialect = "openai"
    <3>1. Handle(l) = OpenAIChunk(l)
      BY <2>1, <2>2 DEF TransformStreamChunk
    <3>2. CASE l.kind = "garbled"
      <4>1. Handle(l) = [frames |-> <<Raw>>, isDone |-> FALSE]
        BY <3>1, <3>2 DEF OpenAIChunk
      <4>2. Raw.kind # "done" /\ Raw.parts = <<>>
        BY DEF Raw
      <4> QED BY <3>2, <4>1, <4>2, FramesTyped DEF Handled, LineInv
    <3>3. CASE l.kind \in {"data", "noise"}
      <4> DEFINE x == Chunk(l.parts, l.finish)
      <4>1. Handle(l) = [frames |-> <<x>>, isDone |-> FALSE]
        BY <3>1, <3>3 DEF OpenAIChunk
      <4>2. x \in OutFrames /\ x.kind # "done" /\ x.parts = l.parts
        BY <1>1, FramesTyped DEF Chunk
      <4> HIDE DEF x
      <4> QED BY <4>1, <4>2 DEF Handled
    <3> QED BY <1>4, <3>2, <3>3
  <2>3. CASE dialect = "anthropic"
    <3>1. Handle(l) = AnthropicChunk(l)
      BY <2>1, <2>3 DEF TransformStreamChunk
    <3>2. CASE l.kind = "data" /\ l.finish # "none"
      <4> DEFINE x == Chunk(<<>>, "stop")
      <4>1. Handle(l) = [frames |-> <<x>>, isDone |-> FALSE]
        BY <3>1, <3>2 DEF AnthropicChunk
      <4>2. x \in OutFrames /\ x.kind # "done" /\ x.parts = <<>>
        BY FramesTyped, EmptySeq DEF Chunk
      <4>3. l.parts = <<>>
        BY <2>3, <3>2 DEF LineInv
      <4> HIDE DEF x
      <4> QED BY <4>1, <4>2, <4>3 DEF Handled
    <3>3. CASE l.kind = "data" /\ l.finish = "none"
      <4> DEFINE x == Chunk(l.parts, "none")
      <4>1. Handle(l) = [frames |-> <<x>>, isDone |-> FALSE]
        BY <3>1, <3>3 DEF AnthropicChunk
      <4>2. x \in OutFrames /\ x.kind # "done" /\ x.parts = l.parts
        BY <1>1, FramesTyped DEF Chunk
      <4> HIDE DEF x
      <4> QED BY <4>1, <4>2 DEF Handled
    <3>4. CASE l.kind # "data"
      <4>1. Handle(l) = [frames |-> <<>>, isDone |-> FALSE]
        BY <3>1, <3>4 DEF AnthropicChunk
      <4> QED BY <3>4, <4>1 DEF Handled, LineInv
    <3> QED BY <3>2, <3>3, <3>4
  <2>4. CASE dialect = "gemini"
    <3>1. Handle(l) = GeminiChunk(l)
      BY <2>1, <2>4 DEF TransformStreamChunk
    <3>2. CASE l.kind = "data" /\ l.finish = "stop" /\ FirstText(l) = Empty
      <4> DEFINE x == Chunk(<<>>, "stop")
      <4>1. Handle(l) = [frames |-> <<x, Done>>, isDone |-> TRUE]
        BY <3>1, <3>2 DEF GeminiChunk
      <4>2. x \in OutFrames /\ x.kind # "done" /\ x.parts = <<>>
        BY FramesTyped, EmptySeq DEF Chunk
      <4>3. l.parts = <<>>
        BY <3>2, FirstParts
      <4> HIDE DEF x
      <4> QED BY <2>4, <3>2, <4>1, <4>2, <4>3 DEF Handled
    <3>3. CASE l.kind = "data" /\ ~(l.finish = "stop" /\ FirstText(l) = Empty)
      <4> DEFINE x == Chunk(FirstOf(l.parts), "none")
      <4>1. Handle(l) = [frames |-> <<x>>, isDone |-> FALSE]
        BY <3>1, <3>3 DEF GeminiChunk
      <4>2. x \in OutFrames /\ x.kind # "done" /\ (whole => x.parts = l.parts)
        BY <2>4, FirstParts, FramesTyped DEF Chunk
      <4> HIDE DEF x
      <4> QED BY <4>1, <4>2 DEF Handled
    <3>4. CASE l.kind # "data"
      <4>1. Handle(l) = [frames |-> <<>>, isDone |-> FALSE]
        BY <3>1, <3>4 DEF GeminiChunk
      <4> QED BY <3>4, <4>1 DEF Handled, LineInv
    <3> QED BY <3>2, <3>3, <3>4
  <2> QED BY <2>2, <2>3, <2>4 DEF Dialects
<1> QED BY <1>1, <1>2, <1>3, <1>4

-----------------------------------------------------------------------------
(* The steps.                                                               *)

LEMMA OneLineMore ==
    ASSUME NEW s \in Seq(Lines), NEW l \in Lines
    PROVE  LET t == Append(s, l)
               n == Len(s)
           IN  /\ t \in Seq(Lines) /\ n \in Nat /\ Len(t) = n + 1
               /\ DOMAIN s = 1..n /\ DOMAIN t = 1..n + 1
               /\ t[n + 1] = l /\ \A i \in 1..n : t[i] = s[i]
               /\ \A r \in 0..n : SubSeq(t, 1, r) = SubSeq(s, 1, r)
<1> DEFINE t == Append(s, l)
           n == Len(s)
<1>1. t \in Seq(Lines) /\ Len(t) = n + 1 /\ t[n + 1] = l /\ \A i \in 1..n : t[i] = s[i]
  BY AppendProperties
<1>2. n \in Nat /\ DOMAIN s = 1..n /\ DOMAIN t = 1..n + 1
  BY <1>1, LenProperties
<1> HIDE DEF t, n
<1>3. ASSUME NEW r \in 0..n PROVE SubSeq(t, 1, r) = SubSeq(s, 1, r)
  <2>1. r \in Int /\ \A i \in 1..r : i \in 1..n
    BY <1>2
  <2>2. \A i \in 1..r : s[i] \in Lines /\ t[i] \in Lines /\ t[i] = s[i]
    BY <1>1, <1>2, <2>1, ElementOfSeq DEF n
  <2>3. /\ SubSeq(s, 1, r) \in Seq(Lines) /\ SubSeq(t, 1, r) \in Seq(Lines)
        /\ Len(SubSeq(s, 1, r)) = IF 1 <= r THEN r - 1 + 1 ELSE 0
        /\ Len(SubSeq(t, 1, r)) = IF 1 <= r THEN r - 1 + 1 ELSE 0
        /\ \A i \in 1..r - 1 + 1 : SubSeq(s, 1, r)[i] = s[1 + i - 1]
        /\ \A i \in 1..r - 1 + 1 : SubSeq(t, 1, r)[i] = t[1 + i - 1]
    BY <2>1, <2>2, SubSeqProperties
  <2> DEFINE a == SubSeq(s, 1, r)
             b == SubSeq(t, 1, r)
  <2>4. Len(a) = r /\ Len(b) = r
    BY <1>2, <2>1, <2>3
  <2>5. \A i \in 1..r : a[i] = s[i] /\ b[i] = t[i]
    <3>1. \A i \in 1..r : i \in 1..r - 1 + 1 /\ 1 + i - 1 = i
      BY <2>1
    <3> QED BY <2>3, <3>1
  <2>6. a \in Seq(Lines) /\ b \in Seq(Lines)
    BY <2>3
  <2> HIDE DEF a, b
  <2>7. a = b
    BY <2>2, <2>4, <2>5, <2>6, SeqEqual
  <2> QED BY <2>7 DEF a, b
<1> QED BY <1>1, <1>2, <1>3 DEF t, n

\* The provider sends a line.
LEMMA LineSent ==
    ASSUME ExecutorInv, NEW l \in Lines, LineInv(l), Streaming, closed = "open",
           sent' = Append(sent, l), closed' \in {"open", "broken"},
           UNCHANGED <<messages, body, dialect, read, out, at>>,
           ~Finished \/ (dialect = "openai" /\ ~Ended),
           l.kind = "done" => dialect = "openai" /\ Finished
    PROVE  ExecutorInv'
<1> DEFINE n == Len(sent)
<1>1. /\ messages' = messages /\ body' = body /\ dialect' = dialect
      /\ read' = read /\ out' = out /\ at' = at
  OBVIOUS
<1>2. at \in {"scan", "done", "eof"}
  BY DEF Streaming
<1>3. sent \in Seq(Lines)
  BY DEF ExecutorInv, ExecutorTypeOK
<1>4. /\ sent' \in Seq(Lines) /\ n \in Nat /\ Len(sent') = n + 1
      /\ DOMAIN sent = 1..n /\ DOMAIN sent' = 1..n + 1
      /\ sent'[n + 1] = l /\ \A i \in 1..n : sent'[i] = sent[i]
      /\ \A r \in 0..n : SubSeq(sent', 1, r) = SubSeq(sent, 1, r)
  BY <1>3, OneLineMore
<1>5. read \in 0..n
  BY DEF ExecutorInv, ExecutorTypeOK
<1>6. Len(sent) = n
  OBVIOUS
<1> HIDE DEF n
<1>7. Finished => Finished'
  BY <1>4 DEF Finished
<1>8. \A i \in 1..n + 1 : i \in 1..n \/ i = n + 1
  BY <1>4
<1>9. ExecutorTypeOK'
  <2>1. read \in 0..n + 1
    BY <1>4, <1>5
  <2> QED BY <1>1, <1>4, <2>1 DEF ExecutorInv, ExecutorTypeOK
<1>10. BodySent'
  BY <1>1, <1>2 DEF BodySent
<1>11. ProviderInv'
  <2>1. (\A i \in DOMAIN sent : LineInv(sent[i])) /\ LastLines
    BY <1>2 DEF ExecutorInv, ProviderInv
  <2>2. ASSUME NEW i \in DOMAIN sent' PROVE LineInv(sent[i])'
    <3>1. LineInv(sent'[i])
      <4>1. CASE i \in 1..n
        BY <1>4, <2>1, <4>1
      <4>2. CASE i = n + 1
        BY <1>4, <4>2
      <4> QED BY <1>4, <1>8, <4>1, <4>2
    <3> QED BY <1>1, <3>1 DEF LineInv
  <2>3. \A i \in DOMAIN sent' : sent'[i].finish # "none" /\ i # Len(sent') => dialect' = "openai"
    <3>1. ASSUME NEW i \in 1..n, sent[i].finish # "none" PROVE dialect = "openai"
      <4>1. Finished
        BY <1>4, <3>1 DEF Finished
      <4> QED BY <4>1
    <3> QED BY <1>1, <1>4, <1>8, <3>1
  <2>4. \A i \in DOMAIN sent' : sent'[i].kind = "done" =>
          i = Len(sent') /\ dialect' = "openai" /\ Finished'
    <3>1. ASSUME NEW i \in 1..n, sent[i].kind = "done" PROVE FALSE
      <4>1. i = n /\ dialect = "openai" /\ Finished
        BY <1>4, <1>6, <2>1, <3>1 DEF LastLines
      <4>2. sent # <<>>
        <5>1. DOMAIN <<>> = {}
          OBVIOUS
        <5> QED BY <1>4, <5>1
      <4>3. Ended
        BY <1>6, <3>1, <4>1, <4>2 DEF Ended, Last
      <4> QED BY <4>1, <4>3
    <3> QED BY <1>1, <1>4, <1>7, <1>8, <3>1
  <2>5. LastLines'
    BY <2>3, <2>4 DEF LastLines
  <2>6. closed' # "eof" /\ at' \notin {"ask", "sent"}
    BY <1>1, <1>2
  <2> QED BY <2>2, <2>5, <2>6 DEF ProviderInv
<1>12. ReadInv'
  <2>1. ReadInv
    BY DEF ExecutorInv
  <2>2. at # "done"
    BY <2>1 DEF ReadInv
  <2>3. at = "eof" => ~Whole(sent)
    BY <2>1 DEF ReadInv
  <2>4. ~Whole(sent) => ~Whole(sent')
    BY <1>4 DEF Whole
  <2>5. \A i \in 1..read : i \in 1..n
    BY <1>4, <1>5
  <2>6. \A i \in 1..read : sent'[i].kind # "long"
    BY <1>4, <2>1, <2>5 DEF ReadInv
  <2> QED BY <1>1, <1>2, <2>2, <2>3, <2>4, <2>6 DEF ReadInv
<1>13. DoneInv'
  BY <1>1 DEF ExecutorInv, DoneInv
<1>14. SaidInv'
  <2>1. OnePart(sent') => OnePart(sent)
    BY <1>4 DEF OnePart
  <2>2. SubSeq(sent', 1, read) = SubSeq(sent, 1, read)
    BY <1>4, <1>5
  <2>3. (dialect = "gemini" => OnePart(sent)) => Said(out) = Said(SubSeq(sent, 1, read))
    BY DEF ExecutorInv, SaidInv
  <2>4. (dialect = "gemini" => OnePart(sent')) => Said(out) = Said(SubSeq(sent', 1, read))
    BY <2>1, <2>2, <2>3
  <2> QED BY <1>1, <2>4 DEF SaidInv
<1> QED BY <1>9, <1>10, <1>11, <1>12, <1>13, <1>14 DEF ExecutorInv

LEMMA ExecutorInitially == ExecutorInit => ExecutorInv
<1>1. SUFFICES ASSUME ExecutorInit PROVE ExecutorInv
  OBVIOUS
<1>2. messages = <<>> /\ sent = <<>> /\ closed = "open" /\ read = 0 /\ out = <<>> /\ at = "ask"
      /\ dialect \in Dialects
  BY <1>1 DEF ExecutorInit
<1>3. ExecutorTypeOK
  BY <1>2, EmptySeq DEF ExecutorTypeOK
<1>4. BodySent /\ ProviderInv
  BY <1>2 DEF BodySent, ProviderInv
<1>5. ReadInv
  BY <1>2 DEF ReadInv
<1>6. DoneInv
  <2>1. DOMAIN <<>> = {}
    OBVIOUS
  <2> QED BY <1>2, <2>1 DEF DoneInv
<1>7. SaidInv
  <2>1. SubSeq(sent, 1, read) = <<>>
    BY <1>2
  <2> QED BY <1>2, <2>1 DEF SaidInv
<1> QED BY <1>3, <1>4, <1>5, <1>6, <1>7 DEF ExecutorInv

\* The conversation changes, the stream does not.
LEMMA SayKeeps == ExecutorInv /\ Say => ExecutorInv'
<1>1. SUFFICES ASSUME ExecutorInv, Say PROVE ExecutorInv'
  OBVIOUS
<1>2. at = "ask" /\ at' = at /\ dialect' = dialect /\ sent' = sent /\ closed' = closed
      /\ read' = read /\ out' = out
  BY <1>1 DEF Say
<1>3. messages' \in Seq(Messages)
  <2>1. PICK role \in Roles, content \in Contents :
          messages' = Append(messages, [role |-> role, content |-> content])
    BY <1>1 DEF Say
  <2>2. [role |-> role, content |-> content] \in Messages /\ messages \in Seq(Messages)
    BY <1>1 DEF Messages, ExecutorInv, ExecutorTypeOK
  <2> QED BY <2>1, <2>2
<1>4. ExecutorTypeOK'
  BY <1>1, <1>2, <1>3 DEF ExecutorInv, ExecutorTypeOK
<1>5. BodySent'
  BY <1>2 DEF BodySent
<1>6. ProviderInv'
  BY <1>1, <1>2 DEF ExecutorInv, ProviderInv
<1>7. ReadInv' /\ DoneInv'
  BY <1>1, <1>2 DEF ExecutorInv, ReadInv, DoneInv
<1>8. SaidInv'
  BY <1>1, <1>2 DEF ExecutorInv, SaidInv
<1> QED BY <1>4, <1>5, <1>6, <1>7, <1>8 DEF ExecutorInv

LEMMA SendRequestKeeps == ExecutorInv /\ SendRequest => ExecutorInv'
<1>1. SUFFICES ASSUME ExecutorInv, SendRequest PROVE ExecutorInv'
  OBVIOUS
<1>2. at = "ask" /\ at' = "sent" /\ dialect' = dialect /\ messages' = messages /\ sent' = sent
      /\ closed' = closed /\ read' = read /\ out' = out
      /\ body' = TransformRequest(dialect, messages)
  BY <1>1 DEF SendRequest
<1>3. ExecutorTypeOK'
  BY <1>1, <1>2 DEF ExecutorInv, ExecutorTypeOK
<1>4. BodySent'
  <2>1. body' = TransformRequest(dialect', messages')
    BY <1>2
  <2>2. TransformRequest(dialect', messages') = TransformRequest(dialect, messages)'
    BY DEF TransformRequest, OpenAIRequest, AnthropicRequest, GeminiRequest
  <2> QED BY <2>1 DEF BodySent
<1>5. ProviderInv'
  BY <1>1, <1>2 DEF ExecutorInv, ProviderInv
<1>6. ReadInv' /\ DoneInv'
  BY <1>1, <1>2 DEF ExecutorInv, ReadInv, DoneInv
<1>7. SaidInv'
  BY <1>1, <1>2 DEF ExecutorInv, SaidInv
<1> QED BY <1>3, <1>4, <1>5, <1>6, <1>7 DEF ExecutorInv

LEMMA StreamStartsKeeps == ExecutorInv /\ StreamStarts => ExecutorInv'
<1>1. SUFFICES ASSUME ExecutorInv, StreamStarts PROVE ExecutorInv'
  OBVIOUS
<1>2. at = "sent" /\ at' = "scan" /\ dialect' = dialect /\ messages' = <<>> /\ sent' = sent
      /\ closed' = closed /\ read' = read /\ out' = out
  BY <1>1 DEF StreamStarts, Taken
<1>3. ExecutorTypeOK'
  BY <1>1, <1>2, EmptySeq DEF ExecutorInv, ExecutorTypeOK
<1>4. BodySent'
  BY <1>2 DEF BodySent
<1>5. ProviderInv'
  <2>1. sent' = <<>> /\ closed' = "open"
    BY <1>1, <1>2 DEF ExecutorInv, ProviderInv
  <2>2. DOMAIN <<>> = {}
    OBVIOUS
  <2> QED BY <1>2, <2>1, <2>2 DEF ProviderInv, LastLines
<1>6. ReadInv' /\ DoneInv'
  BY <1>1, <1>2 DEF ExecutorInv, ReadInv, DoneInv
<1>7. SaidInv'
  BY <1>1, <1>2 DEF ExecutorInv, SaidInv
<1> QED BY <1>3, <1>4, <1>5, <1>6, <1>7 DEF ExecutorInv

\* One line, one frame of it.
LEMMA RespondKeeps == ExecutorInv /\ Respond => ExecutorInv'
<1>1. SUFFICES ASSUME ExecutorInv, Respond PROVE ExecutorInv'
  OBVIOUS
<1>2. PICK blocks \in Pieces, reason \in {"stop", "length"} :
        LET response == TransformResponse(dialect, blocks, reason)
        IN  /\ sent' = <<Line("data", blocks, reason)>>
            /\ out' = <<Chunk(response.text, response.finish)>>
  BY <1>1 DEF Respond
<1>3. at' = "answered" /\ closed' = "eof" /\ read' = 1 /\ messages' = <<>> /\ dialect' = dialect
  BY <1>1 DEF Respond, Taken
<1>4. dialect \in Dialects
  BY <1>1 DEF ExecutorInv, ExecutorTypeOK
<1> DEFINE l == Line("data", blocks, reason)
           text == TransformResponse(dialect, blocks, reason).text
           finish == TransformResponse(dialect, blocks, reason).finish
           frame == Chunk(text, finish)
<1>5. blocks \in Seq(Texts)
  <2>1. MaxParts \in Nat
    BY ExecutorAssumption
  <2>2. PICK n \in 1..MaxParts : blocks \in [1..n -> Texts]
    BY DEF Pieces
  <2>3. n \in Nat
    BY <2>1
  <2> QED BY <2>2, <2>3, SeqDef
<1>6. l \in Lines /\ l.kind = "data" /\ l.parts = blocks
  BY <1>5 DEF Line, Lines
<1>7. /\ text \in Seq(Texts) /\ finish \in {"none", "stop", "length"}
      /\ (dialect = "gemini" => Len(blocks) <= 1) => text = blocks
  <2>1. /\ FirstOf(blocks) \in Seq(Texts)
        /\ Len(blocks) <= 1 => FirstOf(blocks) = blocks
    BY <1>6, FirstParts
  <2>2. CASE dialect = "openai"
    BY <1>5, <2>2 DEF TransformResponse, OpenAIResponse
  <2>3. CASE dialect = "anthropic"
    BY <1>5, <2>3 DEF TransformResponse, AnthropicResponse
  <2>4. CASE dialect = "gemini"
    BY <2>1, <2>4 DEF TransformResponse, GeminiResponse
  <2> QED BY <1>4, <2>2, <2>3, <2>4 DEF Dialects
<1> HIDE DEF text, finish
<1>8. frame \in OutFrames /\ frame.kind # "done" /\ frame.parts = text
  BY <1>7, FramesTyped DEF Chunk
<1>9. sent' = <<l>> /\ out' = <<frame>>
  BY <1>2 DEF text, finish
<1> HIDE DEF l, frame
<1>10. /\ sent' \in Seq(Lines) /\ Len(sent') = 1 /\ DOMAIN sent' = {1} /\ sent'[1] = l
       /\ out' \in Seq(OutFrames) /\ Len(out') = 1 /\ DOMAIN out' = {1} /\ out'[1] = frame
       /\ SubSeq(sent', 1, 1) = sent'
  <2>1. <<l>> \in Seq(Lines) /\ Len(<<l>>) = 1 /\ DOMAIN <<l>> = {1} /\ <<l>>[1] = l
    BY <1>6
  <2>2. <<frame>> \in Seq(OutFrames) /\ Len(<<frame>>) = 1 /\ DOMAIN <<frame>> = {1}
        /\ <<frame>>[1] = frame
    BY <1>8
  <2>3. SubSeq(<<l>>, 1, Len(<<l>>)) = <<l>>
    BY <2>1, SubSeqFull
  <2> QED BY <1>9, <2>1, <2>2, <2>3
<1>11. ExecutorTypeOK'
  <2>1. read' \in 0..1
    BY <1>3
  <2> QED BY <1>3, <1>4, <1>10, <2>1, EmptySeq DEF ExecutorTypeOK
<1>12. BodySent' /\ ProviderInv'
  BY <1>3 DEF BodySent, ProviderInv
<1>13. ReadInv'
  <2>1. \A i \in 1..1 : i = 1
    OBVIOUS
  <2> QED BY <1>3, <1>6, <1>10, <2>1 DEF ReadInv
<1>14. DoneInv'
  BY <1>8, <1>10 DEF DoneInv
<1>15. SaidInv'
  <2>1. ASSUME (dialect = "gemini" => OnePart(sent))' PROVE Said(out') = Said(sent')
    <3>1. text = blocks
      BY <1>3, <1>6, <1>7, <1>10, <2>1 DEF OnePart
    <3>2. Said(sent') = <<>> \o blocks
      <4>1. sent' = Append(<<>>, l) /\ <<>> \in Seq(Lines) /\ \A x \in Lines : x.parts \in Seq(Texts)
        BY <1>9, EmptySeq DEF Lines
      <4> QED BY <1>6, <4>1, SaidAppend, SaidNone
    <3>3. Said(out') = <<>> \o text
      <4>1. out' = Append(<<>>, frame) /\ <<>> \in Seq(OutFrames)
            /\ \A x \in OutFrames : x.parts \in Seq(Texts)
        BY <1>9, EmptySeq DEF OutFrames
      <4> QED BY <1>8, <4>1, SaidAppend, SaidNone
    <3> QED BY <3>1, <3>2, <3>3
  <2> QED BY <1>3, <1>10, <2>1 DEF SaidInv
<1> QED BY <1>11, <1>12, <1>13, <1>14, <1>15 DEF ExecutorInv

\* The provider's side closes, orderly or not.
LEMMA CloseKeeps ==
    ASSUME ExecutorInv, closed = "open", closed' \in {"eof", "broken"},
           UNCHANGED <<messages, body, dialect, sent, read, out, at>>,
           at \notin {"ask", "sent"},
           closed' = "eof" => Finished /\ (dialect = "openai" => Ended)
    PROVE  ExecutorInv'
<1>1. /\ messages' = messages /\ body' = body /\ dialect' = dialect /\ sent' = sent
      /\ read' = read /\ out' = out /\ at' = at
  OBVIOUS
<1>2. ExecutorTypeOK'
  BY <1>1 DEF ExecutorInv, ExecutorTypeOK
<1>3. BodySent'
  BY <1>1 DEF BodySent
<1>4. ProviderInv'
  BY <1>1 DEF ExecutorInv, ProviderInv, LastLines, LineInv, Finished, Ended
<1>5. ReadInv'
  BY <1>1 DEF ExecutorInv, ReadInv, Finished, Ended
<1>6. DoneInv' /\ SaidInv'
  BY <1>1 DEF ExecutorInv, DoneInv, SaidInv
<1> QED BY <1>2, <1>3, <1>4, <1>5, <1>6 DEF ExecutorInv

LEMMA ProviderKeeps == ExecutorInv /\ Provider => ExecutorInv'
<1>1. SUFFICES ASSUME ExecutorInv, Provider PROVE ExecutorInv'
  OBVIOUS
<1> USE DEF Line
<1>2. <<>> \in Seq(Texts) /\ \A parts \in Pieces : parts \in Seq(Texts)
  <2>1. MaxParts \in Nat
    BY ExecutorAssumption
  <2>2. ASSUME NEW parts \in Pieces PROVE parts \in Seq(Texts)
    <3>1. PICK n \in 1..MaxParts : parts \in [1..n -> Texts]
      BY DEF Pieces
    <3>2. n \in Nat
      BY <2>1
    <3> QED BY <3>1, <3>2, SeqDef
  <2> QED BY <2>2, EmptySeq
<1>3. ASSUME NEW l \in Lines, LineInv(l), Send(l),
             ~Finished \/ (dialect = "openai" /\ ~Ended),
             l.kind = "done" => dialect = "openai" /\ Finished
      PROVE  ExecutorInv'
  <2>1. Streaming /\ closed = "open" /\ sent' = Append(sent, l) /\ closed' = "open"
        /\ UNCHANGED <<messages, body, dialect, read, out, at>>
    BY <1>3 DEF Send
  <2> QED BY <1>1, <1>3, <2>1, LineSent
<1>4. CASE SendText
  <2>1. PICK parts \in Pieces : Send(Line("data", parts, "none")) /\ ~Finished
    BY <1>4 DEF SendText
  <2> DEFINE l == Line("data", parts, "none")
  <2>2. l \in Lines /\ LineInv(l) /\ l.kind # "done"
    BY <1>2 DEF Lines, LineInv
  <2> HIDE DEF l
  <2>3. Send(l)
    BY <2>1 DEF l
  <2> QED BY <1>3, <2>1, <2>2, <2>3
<1>5. CASE SendFinish
  <2>1. PICK finish \in {"stop", "length"},
          parts \in {<<>>} \cup IF dialect = "gemini" THEN {<<t>> : t \in Texts} ELSE {} :
          Send(Line("data", parts, finish)) /\ ~Finished
    BY <1>5 DEF SendFinish
  <2> DEFINE l == Line("data", parts, finish)
  <2>2. parts \in Seq(Texts) /\ (dialect # "gemini" => parts = <<>>)
    <3>1. CASE parts = <<>>
      BY <1>2, <3>1
    <3>2. CASE parts # <<>>
      <4>1. PICK t \in Texts : parts = <<t>> /\ dialect = "gemini"
        BY <2>1, <3>2
      <4> QED BY <4>1
    <3> QED BY <3>1, <3>2
  <2>3. l \in Lines /\ LineInv(l) /\ l.kind # "done"
    BY <2>1, <2>2 DEF Lines, LineInv
  <2> HIDE DEF l
  <2>4. Send(l)
    BY <2>1 DEF l
  <2> QED BY <1>3, <2>1, <2>3, <2>4
<1>6. CASE SendDone
  <2> DEFINE l == Line("done", <<>>, "none")
  <2>1. l \in Lines /\ LineInv(l)
    BY <1>2 DEF Lines, LineInv
  <2>2. Send(l) /\ dialect = "openai" /\ Finished /\ ~Ended
    BY <1>6 DEF SendDone
  <2> HIDE DEF l
  <2> QED BY <1>3, <2>1, <2>2
<1>7. CASE SendOther
  <2>1. PICK kind \in {"noise", "garbled", "blank", "long"} :
          Send(Line(kind, <<>>, "none")) /\ ~Finished
    BY <1>7 DEF SendOther
  <2> DEFINE l == Line(kind, <<>>, "none")
  <2>2. l \in Lines /\ LineInv(l) /\ l.kind # "done"
    BY <1>2 DEF Lines, LineInv
  <2> HIDE DEF l
  <2>3. Send(l)
    BY <2>1 DEF l
  <2> QED BY <1>3, <2>1, <2>2, <2>3
<1>8. CASE Eof
  <2>1. at \notin {"ask", "sent"}
    <3>1. Finished
      BY <1>8 DEF Eof
    <3>2. sent # <<>>
      <4>1. DOMAIN <<>> = {}
        OBVIOUS
      <4> QED BY <3>1, <4>1 DEF Finished
    <3> QED BY <1>1, <3>2 DEF ExecutorInv, ProviderInv
  <2> QED BY <1>1, <1>8, <2>1, CloseKeeps DEF Eof
<1>9. CASE Break
  <2>1. at \notin {"ask", "sent"} /\ Streaming /\ closed = "open" /\ closed' = "broken"
        /\ UNCHANGED <<messages, body, dialect, read, out, at>>
    BY <1>9 DEF Break, Streaming
  <2>2. CASE UNCHANGED sent
    BY <1>1, <2>1, <2>2, CloseKeeps
  <2>3. CASE ~UNCHANGED sent
    <3> DEFINE l == Line("garbled", <<>>, "none")
    <3>1. l \in Lines /\ LineInv(l) /\ l.kind # "done"
      BY <1>2 DEF Lines, LineInv
    <3>2. sent' = Append(sent, l) /\ (~Finished \/ (dialect = "openai" /\ ~Ended))
      BY <1>9, <2>3 DEF Break
    <3> HIDE DEF l
    <3> QED BY <1>1, <2>1, <3>1, <3>2, LineSent
  <2> QED BY <2>2, <2>3
<1> QED BY <1>1, <1>4, <1>5, <1>6, <1>7, <1>8, <1>9 DEF Provider

\* One line more of what was sent.
LEMMA ReadOneMore ==
    ASSUME NEW s \in Seq(Lines), NEW r \in Nat, r < Len(s)
    PROVE  /\ s[r + 1] \in Lines
           /\ SubSeq(s, 1, r) \in Seq(Lines)
           /\ SubSeq(s, 1, r + 1) = Append(SubSeq(s, 1, r), s[r + 1])
<1> DEFINE n == Len(s)
<1>1. n \in Nat /\ DOMAIN s = 1..n
  BY LenProperties
<1>2. n = Len(s)
  OBVIOUS
<1> HIDE DEF n
<1>3. r < n /\ r + 1 \in 1..n
  BY <1>1, <1>2
<1>4. \A i \in 1..r + 1 : s[i] \in Lines
  <2>1. ASSUME NEW i \in 1..r + 1 PROVE s[i] \in Lines
    <3>1. i \in 1..n
      BY <1>1, <1>3
    <3> QED BY <1>2, <3>1, ElementOfSeq
  <2> QED BY <2>1
<1>5. /\ SubSeq(s, 1, r) \in Seq(Lines) /\ SubSeq(s, 1, r + 1) \in Seq(Lines)
      /\ Len(SubSeq(s, 1, r)) = r /\ Len(SubSeq(s, 1, r + 1)) = r + 1
      /\ \A i \in 1..r : SubSeq(s, 1, r)[i] = s[i]
      /\ \A i \in 1..r + 1 : SubSeq(s, 1, r + 1)[i] = s[i]
  <2>1. \A i \in 1..r : i \in 1..r + 1
    OBVIOUS
  <2>2. /\ SubSeq(s, 1, r) \in Seq(Lines)
        /\ Len(SubSeq(s, 1, r)) = IF 1 <= r THEN r - 1 + 1 ELSE 0
        /\ \A i \in 1..r - 1 + 1 : SubSeq(s, 1, r)[i] = s[1 + i - 1]
    BY <1>4, <2>1, SubSeqProperties
  <2>3. /\ SubSeq(s, 1, r + 1) \in Seq(Lines)
        /\ Len(SubSeq(s, 1, r + 1)) = IF 1 <= r + 1 THEN r + 1 - 1 + 1 ELSE 0
        /\ \A i \in 1..r + 1 - 1 + 1 : SubSeq(s, 1, r + 1)[i] = s[1 + i - 1]
    BY <1>4, SubSeqProperties
  <2> DEFINE a == SubSeq(s, 1, r)
             b == SubSeq(s, 1, r + 1)
  <2> HIDE DEF a, b
  <2>4. a \in Seq(Lines) /\ Len(a) = r /\ \A i \in 1..r : a[i] = s[i]
    <3>1. \A i \in 1..r : i \in 1..r - 1 + 1 /\ 1 + i - 1 = i
      OBVIOUS
    <3>2. Len(a) = r
      BY <2>2 DEF a
    <3> QED BY <2>2, <3>1, <3>2 DEF a
  <2>5. b \in Seq(Lines) /\ Len(b) = r + 1 /\ \A i \in 1..r + 1 : b[i] = s[i]
    <3>1. \A i \in 1..r + 1 : i \in 1..r + 1 - 1 + 1 /\ 1 + i - 1 = i
      OBVIOUS
    <3>2. Len(b) = r + 1
      BY <2>3 DEF b
    <3> QED BY <2>3, <3>1, <3>2 DEF b
  <2> QED BY <2>4, <2>5 DEF a, b
<1> DEFINE a == SubSeq(s, 1, r)
           b == SubSeq(s, 1, r + 1)
           c == Append(a, s[r + 1])
<1>6. s[r + 1] \in Lines
  BY <1>4
<1>7. a \in Seq(Lines) /\ b \in Seq(Lines) /\ Len(a) = r /\ Len(b) = r + 1
      /\ (\A i \in 1..r : a[i] = s[i]) /\ \A i \in 1..r + 1 : b[i] = s[i]
  BY <1>5
<1> HIDE DEF a, b
<1>8. c \in Seq(Lines) /\ Len(c) = r + 1 /\ c[r + 1] = s[r + 1] /\ \A i \in 1..r : c[i] = a[i]
  BY <1>6, <1>7, AppendProperties
<1> HIDE DEF c
<1>9. \A i \in 1..r + 1 : b[i] = c[i]
  <2>1. \A i \in 1..r + 1 : i \in 1..r \/ i = r + 1
    OBVIOUS
  <2> QED BY <1>7, <1>8, <2>1
<1>10. b = c
  BY <1>7, <1>8, <1>9, SeqEqual
<1> QED BY <1>6, <1>7, <1>10 DEF a, b, c

\* What is written for a line leaves [DONE] last, if it is written.
LEMMA DoneLast ==
    ASSUME NEW frames \in Seq(OutFrames), NEW more, NEW isDone \in BOOLEAN,
           \A i \in DOMAIN frames : frames[i].kind # "done",
           \/ more = <<>>
           \/ \E x \in OutFrames : more = <<x>> /\ (x.kind = "done" => isDone)
           \/ \E x \in OutFrames : more = <<x, Done>> /\ x.kind # "done" /\ isDone
    PROVE  LET all == frames \o more
           IN  /\ all \in Seq(OutFrames)
               /\ \A i \in DOMAIN all : all[i].kind = "done" => i = Len(all) /\ isDone
<1> DEFINE n == Len(frames)
           all == frames \o more
<1>1. n \in Nat /\ DOMAIN frames = 1..n
  BY LenProperties
<1>2. Len(frames) = n
  OBVIOUS
<1> HIDE DEF n
<1>3. CASE more = <<>>
  <2>1. all = frames
    BY <1>3, ConcatEmptySeq
  <2> QED BY <2>1
<1>4. ASSUME NEW x \in OutFrames, more = <<x>>, x.kind = "done" => isDone
      PROVE  /\ all \in Seq(OutFrames)
             /\ \A i \in DOMAIN all : all[i].kind = "done" => i = Len(all) /\ isDone
  <2>1. all = Append(frames, x)
    BY <1>4, AppendIsConcat
  <2>2. all \in Seq(OutFrames) /\ Len(all) = n + 1 /\ all[n + 1] = x
        /\ \A i \in 1..n : all[i] = frames[i]
    BY <1>2, <2>1, AppendProperties
  <2> HIDE DEF all
  <2>3. DOMAIN all = 1..n + 1
    BY <2>2, LenProperties
  <2>4. \A i \in 1..n + 1 : i \in 1..n \/ i = n + 1
    BY <1>1
  <2> QED BY <1>1, <1>4, <2>2, <2>3, <2>4
<1>5. ASSUME NEW x \in OutFrames, more = <<x, Done>>, x.kind # "done", isDone
      PROVE  /\ all \in Seq(OutFrames)
             /\ \A i \in DOMAIN all : all[i].kind = "done" => i = Len(all) /\ isDone
  <2> DEFINE mid == Append(frames, x)
  <2>1. mid \in Seq(OutFrames) /\ Len(mid) = n + 1 /\ mid[n + 1] = x
        /\ \A i \in 1..n : mid[i] = frames[i]
    BY <1>2, AppendProperties
  <2>2. all = Append(mid, Done)
    <3>1. <<x, Done>> = Append(<<x>>, Done) /\ <<x>> \in Seq(OutFrames) /\ Done \in OutFrames
      BY FramesTyped
    <3>2. frames \o <<x>> = mid
      BY AppendIsConcat
    <3> QED BY <1>5, <3>1, <3>2, AppendOfConcat
  <2> HIDE DEF mid, all
  <2>3. all \in Seq(OutFrames) /\ Len(all) = n + 1 + 1 /\ \A i \in 1..n + 1 : all[i] = mid[i]
    BY <2>1, <2>2, FramesTyped, AppendProperties
  <2>4. DOMAIN all = 1..n + 1 + 1
    BY <2>3, LenProperties
  <2>5. \A i \in 1..n + 1 + 1 : i \in 1..n \/ i = n + 1 \/ i = n + 1 + 1
    BY <1>1
  <2>6. n + 1 \in 1..n + 1 /\ \A i \in 1..n : i \in 1..n + 1
    BY <1>1
  <2> QED BY <1>1, <1>5, <2>1, <2>3, <2>4, <2>5, <2>6
<1> QED BY <1>3, <1>4, <1>5

LEMMA ScanKeeps == ExecutorInv /\ Scan => ExecutorInv'
<1>1. SUFFICES ASSUME ExecutorInv, Scan PROVE ExecutorInv'
  OBVIOUS
<1> DEFINE l == NextLine
           h == Handle(l)
<1>2. /\ at = "scan" /\ Unread /\ l.kind # "long" /\ out' = out \o h.frames
      /\ at' = (IF h.isDone THEN "done" ELSE "scan") /\ read' = read + 1
      /\ messages' = messages /\ body' = body /\ dialect' = dialect /\ sent' = sent
      /\ closed' = closed
  BY <1>1 DEF Scan
<1>3. /\ dialect \in Dialects /\ messages \in Seq(Messages) /\ sent \in Seq(Lines)
      /\ closed \in {"open", "eof", "broken"} /\ read \in 0..Len(sent) /\ out \in Seq(OutFrames)
  BY <1>1 DEF ExecutorInv, ExecutorTypeOK
<1> DEFINE n == Len(sent)
<1>4. n \in Nat /\ DOMAIN sent = 1..n
  BY <1>3, LenProperties
<1>5. read \in Nat /\ read < Len(sent)
  BY <1>2, <1>3, <1>4 DEF Unread
<1>6. n = Len(sent)
  OBVIOUS
<1> HIDE DEF n
<1>7. read + 1 \in 1..n /\ read < n
  BY <1>4, <1>5, <1>6
<1>8. /\ l \in Lines /\ SubSeq(sent, 1, read) \in Seq(Lines)
      /\ SubSeq(sent, 1, read + 1) = Append(SubSeq(sent, 1, read), l)
  BY <1>3, <1>5, ReadOneMore DEF NextLine
<1>9. LineInv(l) /\ LastLines
  BY <1>1, <1>2, <1>4, <1>7 DEF ExecutorInv, ProviderInv, NextLine
<1>10. Handled(l, h)
  BY <1>2, <1>3, <1>8, <1>9, LineHandled
<1>11. l = sent[read + 1]
  BY DEF NextLine
<1> HIDE DEF l, h
<1>12. h.isDone => \/ l.kind = "done"
                   \/ dialect = "gemini" /\ l.finish # "none"
  BY <1>10 DEF Handled
<1>13. h.isDone => read + 1 = n /\ Finished /\ (dialect = "openai" => Ended)
  <2>1. CASE l.kind = "done"
    <3>1. read + 1 = n /\ Finished /\ dialect = "openai"
      BY <1>4, <1>6, <1>7, <1>9, <1>11, <2>1 DEF LastLines
    <3>2. sent # <<>>
      <4>1. DOMAIN <<>> = {}
        OBVIOUS
      <4> QED BY <1>4, <1>7, <4>1
    <3>3. Last(sent) = l
      BY <1>6, <1>11, <3>1 DEF Last
    <3> QED BY <2>1, <3>1, <3>2, <3>3 DEF Ended
  <2>2. CASE dialect = "gemini" /\ l.finish # "none"
    <3>1. read + 1 = n
      BY <1>4, <1>6, <1>7, <1>9, <1>11, <2>2 DEF LastLines
    <3>2. Finished
      BY <1>4, <1>7, <1>11, <2>2 DEF Finished
    <3> QED BY <2>2, <3>1, <3>2
  <2> QED BY <1>12, <2>1, <2>2
<1>14. \A i \in DOMAIN out : out[i].kind # "done"
  BY <1>1, <1>2 DEF ExecutorInv, DoneInv
<1>15. \/ h.frames = <<>>
       \/ \E x \in OutFrames : h.frames = <<x>> /\ (x.kind = "done" => h.isDone)
       \/ \E x \in OutFrames : h.frames = <<x, Done>> /\ x.kind # "done" /\ h.isDone
  BY <1>10, FramesTyped DEF Handled
<1>16. h.isDone \/ ~h.isDone
  OBVIOUS
<1>17. /\ out' \in Seq(OutFrames)
       /\ \A i \in DOMAIN out' : out'[i].kind = "done" => i = Len(out') /\ at' = "done"
  <2> DEFINE ends == at' = "done"
             more == h.frames
             all == out \o more
  <2>1. ends = TRUE <=> h.isDone
    BY <1>2
  <2>2. \/ more = <<>>
        \/ \E x \in OutFrames : more = <<x>> /\ (x.kind = "done" => ends)
        \/ \E x \in OutFrames : more = <<x, Done>> /\ x.kind # "done" /\ ends
    BY <1>15, <2>1
  <2>3. ends \in BOOLEAN /\ out' = all
    BY <1>2
  <2> HIDE DEF ends, more
  <2>4. /\ all \in Seq(OutFrames)
        /\ \A i \in DOMAIN all : all[i].kind = "done" => i = Len(all) /\ ends
    BY <1>3, <1>14, <2>2, <2>3, DoneLast
  <2> HIDE DEF all
  <2> QED BY <2>3, <2>4 DEF ends
<1>18. ExecutorTypeOK'
  <2>1. read + 1 \in 0..n
    BY <1>4, <1>5, <1>7
  <2> QED BY <1>2, <1>3, <1>6, <1>17, <2>1 DEF ExecutorTypeOK
<1>19. at' # "sent" /\ at' # "ask" /\ at' # "eof" /\ at' # "answered"
  BY <1>2
<1>20. BodySent'
  BY <1>19 DEF BodySent
<1>21. ProviderInv'
  <2>1. \A i \in DOMAIN sent : LineInv(sent[i])
    BY <1>1, <1>2 DEF ExecutorInv, ProviderInv
  <2>2. (\A i \in DOMAIN sent : LineInv(sent[i]))'
    BY <1>2, <2>1 DEF LineInv
  <2>3. LastLines'
    BY <1>2, <1>9 DEF LastLines, Finished
  <2>4. closed = "eof" => Finished /\ (dialect = "openai" => Ended)
    BY <1>1, <1>2 DEF ExecutorInv, ProviderInv
  <2>5. (closed = "eof" => Finished /\ (dialect = "openai" => Ended))'
    BY <1>2, <2>4 DEF Finished, Ended
  <2> QED BY <1>19, <2>2, <2>3, <2>5 DEF ProviderInv
<1>22. ReadInv'
  <2>1. \A i \in 1..read : sent[i].kind # "long"
    BY <1>1 DEF ExecutorInv, ReadInv
  <2>2. \A i \in 1..read + 1 : i \in 1..read \/ i = read + 1
    BY <1>5
  <2>3. \A i \in 1..read + 1 : sent[i].kind # "long"
    BY <1>2, <1>11, <2>1, <2>2
  <2>4. at' = "done" => read + 1 = n /\ Finished /\ (dialect = "openai" => Ended)
    BY <1>2, <1>13
  <2>5. at' = "done" => read' = Len(sent') /\ Finished' /\ (dialect' = "openai" => Ended')
    BY <1>2, <1>6, <2>4 DEF Finished, Ended
  <2>6. \A i \in 1..read' : sent'[i].kind # "long"
    BY <1>2, <2>3
  <2> QED BY <1>19, <2>5, <2>6 DEF ReadInv
<1>23. DoneInv'
  BY <1>17 DEF DoneInv
<1>24. SaidInv'
  <2>1. \A x \in OutFrames : x.parts \in Seq(Texts)
    BY DEF OutFrames
  <2>2. (\A x \in Lines : x.parts \in Seq(Texts)) /\ l.parts \in Seq(Texts)
    BY <1>8 DEF Lines
  <2>3. ASSUME dialect = "gemini" => OnePart(sent)
        PROVE  Said(out') = Said(SubSeq(sent, 1, read + 1))
    <3>1. dialect = "gemini" => Len(l.parts) <= 1
      BY <1>4, <1>7, <1>11, <2>3 DEF OnePart
    <3>2. Said(out) = Said(SubSeq(sent, 1, read))
      BY <1>1, <2>3 DEF ExecutorInv, SaidInv
    <3>3. Said(SubSeq(sent, 1, read + 1)) = Said(SubSeq(sent, 1, read)) \o l.parts
      BY <1>8, <2>2, SaidAppend
    <3> DEFINE said == Said(out)
    <3>4. said \in Seq(Texts) /\ said \o <<>> = said
      <4>1. said \in Seq(Texts)
        BY <1>3, <2>1, FramesTyped, SaidAppend
      <4> QED BY <4>1, ConcatEmptySeq
    <3>5. Said(out') = said \o l.parts
      <4>1. CASE h.frames = <<>> /\ l.parts = <<>>
        <5>1. out' = out
          BY <1>2, <1>3, <4>1, ConcatEmptySeq
        <5> QED BY <3>4, <4>1, <5>1
      <4>2. CASE \E x \in OutFrames : h.frames = <<x>> /\ x.parts = l.parts
        <5>1. PICK x \in OutFrames : h.frames = <<x>> /\ x.parts = l.parts
          BY <4>2
        <5>2. out' = out \o <<x>>
          BY <1>2, <5>1
        <5>3. Said(out \o <<x>>) = said \o x.parts
          BY <1>3, <2>1, SaidMore
        <5> QED BY <5>1, <5>2, <5>3
      <4>3. CASE \E x \in OutFrames : h.frames = <<x, Done>> /\ x.parts = <<>> /\ l.parts = <<>>
        <5>1. PICK x \in OutFrames : h.frames = <<x, Done>> /\ x.parts = <<>> /\ l.parts = <<>>
          BY <4>3
        <5>2. out' = out \o <<x, Done>>
          BY <1>2, <5>1
        <5>3. Said(out \o <<x, Done>>) = (said \o x.parts) \o Done.parts
          <6>1. Done \in OutFrames /\ out \in Seq(OutFrames) /\ <<x>> \in Seq(OutFrames)
                /\ Append(<<x>>, Done) = <<x, Done>>
            <7>1. Done \in OutFrames
              BY FramesTyped
            <7>2. Append(<<x>>, Done) = <<x, Done>>
              BY <7>1, PairAppended
            <7>3. <<x>> \in Seq(OutFrames)
              OBVIOUS
            <7> QED BY <1>3, <7>1, <7>2, <7>3
          <6>2. out \o <<x, Done>> = Append(out \o <<x>>, Done)
            BY <6>1, AppendOfConcat
          <6>3. out \o <<x>> \in Seq(OutFrames) /\ Said(out \o <<x>>) = said \o x.parts
            BY <2>1, <6>1, SaidMore, ConcatProperties
          <6>4. Said(Append(out \o <<x>>, Done)) = Said(out \o <<x>>) \o Done.parts
            BY <2>1, <6>1, <6>3, SaidAppend
          <6> QED BY <6>2, <6>3, <6>4
        <5>4. Done.parts = <<>>
          BY DEF Done
        <5> QED BY <3>4, <5>1, <5>2, <5>3, <5>4
      <4>4. Done \in OutFrames /\ Done.parts = <<>>
        BY FramesTyped DEF Done
      <4>5. \/ h.frames = <<>> /\ l.parts = <<>>
            \/ \E x \in OutFrames : h.frames = <<x>> /\ x.parts = l.parts
            \/ \E x \in OutFrames : h.frames = <<x, Done>> /\ x.parts = <<>> /\ l.parts = <<>>
        BY <1>10, <3>1, <4>4 DEF Handled
      <4> QED BY <4>1, <4>2, <4>3, <4>5
    <3> QED BY <3>2, <3>3, <3>5
  <2> QED BY <1>2, <2>3 DEF SaidInv, OnePart
<1> QED BY <1>18, <1>20, <1>21, <1>22, <1>23, <1>24 DEF ExecutorInv

LEMMA ScanEndsKeeps == ExecutorInv /\ ScanEnds => ExecutorInv'
<1>1. SUFFICES ASSUME ExecutorInv, ScanEnds PROVE ExecutorInv'
  OBVIOUS
<1>2. /\ at = "scan" /\ at' = "eof" /\ out' = out
      /\ messages' = messages /\ body' = body /\ dialect' = dialect /\ sent' = sent
      /\ closed' = closed /\ read' = read
  BY <1>1 DEF ScanEnds, AtEof
<1>3. ExecutorTypeOK'
  BY <1>1, <1>2 DEF ExecutorInv, ExecutorTypeOK
<1>4. BodySent'
  BY <1>2 DEF BodySent
<1>5. ProviderInv'
  BY <1>1, <1>2 DEF ExecutorInv, ProviderInv, LastLines, LineInv, Finished, Ended
<1>6. ReadInv'
  <2>1. sent \in Seq(Lines) /\ read \in 0..Len(sent)
    BY <1>1 DEF ExecutorInv, ExecutorTypeOK
  <2> DEFINE n == Len(sent)
  <2>2. n \in Nat /\ DOMAIN sent = 1..n
    BY <2>1, LenProperties
  <2>3. read \in 0..n /\ n = Len(sent)
    BY <2>1
  <2> HIDE DEF n
  <2>4. closed = "broken" \/ ~Whole(sent) \/ (closed = "eof" /\ read = n)
    <3>1. CASE closed = "eof" /\ ~Unread
      <4>1. ~(read < n)
        BY <2>3, <3>1 DEF Unread
      <4>2. read \in Int /\ read <= n
        BY <2>2, <2>3
      <4>3. read = n
        BY <2>2, <4>1, <4>2
      <4> QED BY <3>1, <4>3
    <3>2. CASE closed = "broken"
      BY <3>2
    <3>3. CASE Unread /\ NextLine.kind = "long"
      <4>1. read + 1 \in 1..n
        BY <2>2, <2>3, <3>3 DEF Unread
      <4> QED BY <2>2, <3>3, <4>1 DEF Whole, NextLine
    <3> QED BY <1>1, <3>1, <3>2, <3>3 DEF ScanEnds
  <2>5. (closed = "broken" \/ ~Whole(sent) \/ (closed = "eof" /\ read = Len(sent)))'
    BY <1>2, <2>3, <2>4 DEF Whole
  <2>6. \A i \in 1..read' : sent'[i].kind # "long"
    BY <1>1, <1>2 DEF ExecutorInv, ReadInv
  <2> QED BY <1>2, <2>5, <2>6 DEF ReadInv
<1>7. DoneInv'
  BY <1>1, <1>2 DEF ExecutorInv, DoneInv
<1>8. SaidInv'
  BY <1>1, <1>2 DEF ExecutorInv, SaidInv
<1> QED BY <1>3, <1>4, <1>5, <1>6, <1>7, <1>8 DEF ExecutorInv

LEMMA ExecutorStutters == ExecutorInv /\ UNCHANGED executorVars => ExecutorInv'
<1>1. SUFFICES ASSUME ExecutorInv, UNCHANGED executorVars PROVE ExecutorInv'
  OBVIOUS
<1>2. /\ messages' = messages /\ body' = body /\ dialect' = dialect /\ sent' = sent
      /\ closed' = closed /\ read' = read /\ out' = out /\ at' = at
  BY <1>1 DEF executorVars
<1>3. ExecutorTypeOK'
  BY <1>1, <1>2 DEF ExecutorInv, ExecutorTypeOK
<1>4. BodySent'
  <2>1. TransformRequest(dialect, messages)' = TransformRequest(dialect', messages')
    BY DEF TransformRequest, OpenAIRequest, AnthropicRequest, GeminiRequest
  <2>2. at = "sent" => body = TransformRequest(dialect, messages)
    BY <1>1 DEF ExecutorInv, BodySent
  <2>3. at' = "sent" => body' = TransformRequest(dialect', messages')
    BY <1>2, <2>2
  <2> QED BY <2>1, <2>3 DEF BodySent
<1>5. ProviderInv'
  BY <1>1, <1>2 DEF ExecutorInv, ProviderInv, LastLines, LineInv, Finished, Ended
<1>6. ReadInv'
  BY <1>1, <1>2 DEF ExecutorInv, ReadInv, Whole, Finished, Ended
<1>7. DoneInv' /\ SaidInv'
  BY <1>1, <1>2 DEF ExecutorInv, DoneInv, SaidInv
<1> QED BY <1>3, <1>4, <1>5, <1>6, <1>7 DEF ExecutorInv

\* The executor's inductive invariant: what the provider may have sent, how far it was
\* read, and that what was written says what was read (executor.go:177-229).
THEOREM ExecutorInvariant == ExecutorSpec => []ExecutorInv
<1>1. ExecutorInit => ExecutorInv
  BY ExecutorInitially
<1>2. ExecutorInv /\ [ExecutorNext]_executorVars => ExecutorInv'
  BY SayKeeps, SendRequestKeeps, StreamStartsKeeps, RespondKeeps, ProviderKeeps, ScanKeeps,
     ScanEndsKeeps, ExecutorStutters
     DEF ExecutorNext, Request
<1> QED BY <1>1, <1>2, PTL DEF ExecutorSpec

\* A client that sees [DONE] has seen a message its provider finished, and nothing comes
\* after it (executor.go:195-229).
THEOREM DoneIsTheEnd == ExecutorSpec => []DoneIsHonest
<1>1. ExecutorInv => DoneIsHonest
  <2>1. SUFFICES ASSUME ExecutorInv, NEW i \in DOMAIN out, out[i].kind = "done"
        PROVE  i = Len(out) /\ Finished /\ Whole(sent) /\ read = Len(sent)
    BY DEF DoneIsHonest
  <2>2. i = Len(out) /\ at = "done"
    BY <2>1 DEF ExecutorInv, DoneInv
  <2>3. read = Len(sent) /\ Finished /\ \A j \in 1..read : sent[j].kind # "long"
    BY <2>1, <2>2 DEF ExecutorInv, ReadInv
  <2>4. Whole(sent)
    <3>1. DOMAIN sent = 1..Len(sent)
      BY <2>1, LenProperties DEF ExecutorInv, ExecutorTypeOK
    <3> QED BY <2>3, <3>1 DEF Whole
  <2> QED BY <2>2, <2>3, <2>4
<1> QED BY <1>1, ExecutorInvariant, PTL

\* When the provider ended its message and no line of it was too long, the client has all
\* of its text, once and in order (executor.go:177-229).
THEOREM NothingIsLost == ExecutorSpec => []AllIsSaid
<1>1. ExecutorInv => AllIsSaid
  <2>1. SUFFICES ASSUME ExecutorInv, Over, closed = "eof", Whole(sent),
                        dialect = "gemini" => OnePart(sent)
        PROVE  Said(out) = Said(sent)
    BY DEF AllIsSaid
  <2>2. sent \in Seq(Lines)
    BY <2>1 DEF ExecutorInv, ExecutorTypeOK
  <2>3. Said(out) = Said(SubSeq(sent, 1, read))
    BY <2>1 DEF ExecutorInv, SaidInv
  <2>4. read = Len(sent)
    BY <2>1 DEF ExecutorInv, ReadInv, Over
  <2>5. SubSeq(sent, 1, Len(sent)) = sent
    BY <2>2, SubSeqFull
  <2> QED BY <2>3, <2>4, <2>5
<1> QED BY <1>1, ExecutorInvariant, PTL

\* Every message but the system's is sent in its place, as its speaker's and, when its
\* content is a string, with the text the client wrote, and nothing else is, but for the
\* turn that is made up; the last of the system's is the prompt (anthropic.go:73-86,
\* gemini.go:59-76).
THEOREM ConversationSurvives == ExecutorSpec => []ConversationIsKept
<1>1. ExecutorInv => ConversationIsKept
  <2>1. SUFFICES ASSUME ExecutorInv, at = "sent", dialect # "openai"
        PROVE  /\ \A i \in Others :
                    /\ messages[i].content.kind = "text" =>
                        body.messages[Place(i)].content.text = messages[i].content.text
                    /\ (body.messages[Place(i)].role = "user") = (messages[i].role = "user")
               /\ IF Others = {} /\ dialect = "anthropic" THEN body.messages = <<Placeholder>>
                  ELSE Len(body.messages) = Cardinality(Others)
               /\ \A i \in LastSystem :
                    messages[i].content.kind = "text" => body.system = messages[i].content.text
    BY DEF ConversationIsKept
  <2> DEFINE S == ToSet(messages) \ SystemOf(messages)
             K == Kept(messages, S)
             turns == Turns(dialect, messages)
  <2>2. messages \in Seq(Messages) /\ dialect \in {"anthropic", "gemini"}
    BY <2>1 DEF ExecutorInv, ExecutorTypeOK, Dialects
  <2>3. Others = Places(messages, S)
    <3>1. DOMAIN messages = 1..Len(messages)
      BY <2>2, LenProperties
    <3>2. \A i \in DOMAIN messages : messages[i] \in ToSet(messages)
      BY DEF ToSet
    <3>3. \A i \in DOMAIN messages : messages[i] \in S <=> ~IsSystem(messages[i])
      BY <3>2 DEF SystemOf
    <3> HIDE DEF S
    <3> QED BY <3>1, <3>3 DEF Others, Places
  <2>4. turns = [i \in DOMAIN K |-> Turn(dialect, K[i])]
    BY DEF Turns, TurnsOf
  <2>5. K \in Seq(Messages)
    BY <2>2, KeptType
  <2> DEFINE m == Cardinality(Others)
  <2>6. /\ IsFiniteSet(Others) /\ Len(K) = m
        /\ \A i \in Others : Place(i) \in 1..m /\ K[Place(i)] = messages[i]
    <3> DEFINE O == Places(messages, S)
               At(i) == Cardinality({j \in O : j <= i})
    <3>1. /\ IsFiniteSet(O) /\ Len(K) = Cardinality(O)
          /\ \A i \in O : At(i) \in 1..Cardinality(O) /\ K[At(i)] = messages[i]
      BY <2>2, KeptPlaces
    <3>2. O = Others /\ \A i : Place(i) = At(i)
      BY <2>3 DEF Place
    <3> HIDE DEF O, At, K
    <3> QED BY <3>1, <3>2
  <2>7. m \in Nat /\ (Others = {} <=> m = 0)
    BY <2>6, FS_CardinalityType, FS_EmptySet
  <2> HIDE DEF S, K, turns, m
  <2>8. DOMAIN K = 1..m
    BY <2>5, <2>6, LenProperties
  <2>9. /\ DOMAIN turns = 1..m /\ Len(turns) = m
        /\ \A i \in 1..m : turns[i] = Turn(dialect, K[i])
    <3>1. DOMAIN turns = 1..m /\ \A i \in 1..m : turns[i] = Turn(dialect, K[i])
      BY <2>4, <2>8
    <3>2. turns \in Seq({turns[i] : i \in 1..m})
      <4>1. turns = [i \in 1..m |-> turns[i]]
        BY <2>4, <2>8
      <4> QED BY <2>7, <4>1, SeqDef
    <3>3. DOMAIN turns = 1..Len(turns) /\ Len(turns) \in Nat
      BY <3>2, LenProperties
    <3> QED BY <2>7, <3>1, <3>3
  <2>10. \/ dialect = "anthropic" /\ body.messages = AtLeastOne(turns)
         \/ dialect = "gemini" /\ body.messages = turns
    <3>1. body = TransformRequest(dialect, messages)
      BY <2>1 DEF ExecutorInv, BodySent
    <3>2. CASE dialect = "anthropic"
      BY <3>1, <3>2 DEF TransformRequest, AnthropicRequest, turns
    <3>3. CASE dialect = "gemini"
      BY <3>1, <3>3 DEF TransformRequest, GeminiRequest, turns
    <3> QED BY <2>2, <3>2, <3>3
  <2>11. turns = <<>> <=> m = 0
    <3>1. DOMAIN <<>> = {}
      OBVIOUS
    <3>2. m = 0 => turns = <<>>
      BY <2>9
    <3>3. m # 0 => turns # <<>>
      BY <2>7, <2>9, <3>1
    <3> QED BY <3>2, <3>3
  <2>12. m # 0 => body.messages = turns
    BY <2>10, <2>11 DEF AtLeastOne
  <2>13. ASSUME NEW i \in Others
         PROVE  /\ messages[i].content.kind = "text" =>
                    body.messages[Place(i)].content.text = messages[i].content.text
                /\ (body.messages[Place(i)].role = "user") = (messages[i].role = "user")
    <3> DEFINE p == Place(i)
    <3>1. p \in 1..m /\ K[p] = messages[i] /\ body.messages = turns
      BY <2>6, <2>7, <2>12, <2>13
    <3> HIDE DEF p
    <3>2. body.messages[p] = Turn(dialect, messages[i])
      BY <2>9, <3>1
    <3>3. messages[i].content.kind = "text" =>
            Turn(dialect, messages[i]).content.text = messages[i].content.text
      BY DEF Turn, ContentString
    <3>4. (Turn(dialect, messages[i]).role = "user") = (messages[i].role = "user")
      BY DEF Turn
    <3> QED BY <3>2, <3>3, <3>4 DEF p
  <2>14. IF Others = {} /\ dialect = "anthropic" THEN body.messages = <<Placeholder>>
         ELSE Len(body.messages) = m
    <3>1. CASE m = 0 /\ dialect = "anthropic"
      BY <2>7, <2>10, <2>11, <3>1 DEF AtLeastOne
    <3>2. CASE ~(m = 0 /\ dialect = "anthropic")
      <4>1. body.messages = turns
        BY <2>10, <2>12, <3>2
      <4> QED BY <2>7, <2>9, <3>2, <4>1
    <3> QED BY <3>1, <3>2
  <2>15. ASSUME NEW i \in LastSystem, messages[i].content.kind = "text"
         PROVE  body.system = messages[i].content.text
    <3> DEFINE Y == SystemOf(messages)
               P == Places(messages, Y)
    <3>1. P = SystemPlaces
      <4>1. DOMAIN messages = 1..Len(messages)
        BY <2>2, LenProperties
      <4>2. \A j \in DOMAIN messages : messages[j] \in Y <=> IsSystem(messages[j])
        BY DEF SystemOf, ToSet
      <4> HIDE DEF Y
      <4> QED BY <4>1, <4>2 DEF SystemPlaces, Others, Places
    <3>2. /\ Len(Kept(messages, Y)) = Cardinality(P)
          /\ Cardinality({j \in P : j <= i}) \in 1..Cardinality(P)
          /\ Kept(messages, Y)[Cardinality({j \in P : j <= i})] = messages[i]
      <4>1. i \in P
        BY <2>15, <3>1 DEF LastSystem
      <4> HIDE DEF Y
      <4> QED BY <2>2, <4>1, KeptPlaces
    <3>3. {j \in P : j <= i} = P
      BY <2>15, <3>1 DEF LastSystem
    <3> HIDE DEF P, Y
    <3>4. Last(Kept(messages, Y)) = messages[i] /\ Kept(messages, Y) # <<>>
      <4> DEFINE L == Kept(messages, Y)
                 n == Cardinality({j \in P : j <= i})
      <4>1. n = Cardinality(P)
        BY <3>3
      <4>2. Len(L) = n /\ L[n] = messages[i]
        BY <3>2, <4>1
      <4>3. n \in 1..n
        BY <3>2, <4>1
      <4> HIDE DEF L, n
      <4>4. L # <<>>
        BY <4>2, <4>3
      <4> QED BY <4>2, <4>4 DEF Last, L
    <3>5. SystemPrompt(messages) = messages[i].content.text
      BY <2>15, <3>4 DEF SystemPrompt, ContentString, Y
    <3>6. body = TransformRequest(dialect, messages)
      BY <2>1 DEF ExecutorInv, BodySent
    <3>7. CASE dialect = "anthropic"
      BY <3>5, <3>6, <3>7 DEF TransformRequest, AnthropicRequest
    <3>8. CASE dialect = "gemini"
      BY <3>5, <3>6, <3>8 DEF TransformRequest, GeminiRequest
    <3> QED BY <2>2, <3>7, <3>8
  <2> QED BY <2>13, <2>14, <2>15 DEF m
<1> QED BY <1>1, ExecutorInvariant, PTL
=============================================================================
