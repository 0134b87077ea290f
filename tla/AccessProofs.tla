---------------------------- MODULE AccessProofs ----------------------------
(***************************************************************************)
(* Theorems about who is let in: the keys and the limits of the gateway,   *)
(* for every set of handlers, any limit, window and clock, and any number  *)
(* of edits; the setup and the account of the administrator, for any       *)
(* number of requests and any emails and passwords.                        *)
(***************************************************************************)
EXTENDS Gateway, AdminAccount, FiniteSetTheorems, TLAPS

(* The keys of the gateway.                                                *)

KeyedRequests == [at : {"idle", "came", "admitted"}, key : Keys \cup {NoKey}, was : BOOLEAN]

KeysTyped ==
    /\ gate \in [Handlers -> KeyedRequests]
    /\ \A k \in DOMAIN keys : keys[k] \in BOOLEAN

\* A request that waits for its check remembers that its key is active.
WaitingRemembers == \A h \in Handlers :
    gate[h].at = "came" /\ Active(gate[h].key) => gate[h].was

\* AdmittedWasActive alone is not inductive: the check reads the key, not the history.
KeyInv == KeysTyped /\ WaitingRemembers /\ AdmittedWasActive

\* Nobody has come yet.
LEMMA InitKeyInv == Init => KeyInv
  BY DEF Init, KeysInit, KeyInv, KeysTyped, WaitingRemembers, AdmittedWasActive, Idle, KeyedRequests

\* Remember keeps what the waiting requests know right for the edited table.
LEMMA Remembered ==
    ASSUME KeyInv, Remember(keys'), \A k \in DOMAIN keys' : keys'[k] \in BOOLEAN
    PROVE  KeyInv'
  <1>1. gate \in [Handlers -> KeyedRequests]
    BY DEF KeyInv, KeysTyped
  <1>2. \A h \in Handlers : /\ gate'[h] \in KeyedRequests
                            /\ gate'[h].at = gate[h].at
                            /\ gate[h].was => gate'[h].was
    BY <1>1 DEF Remember, KeyedRequests
  <1>3. KeysTyped'
    BY <1>1, <1>2 DEF KeyInv, KeysTyped, Remember
  <1>4. WaitingRemembers'
    BY <1>1 DEF Remember, WaitingRemembers, Active, Exists, KeyedRequests
  <1>5. AdmittedWasActive'
    BY <1>2 DEF KeyInv, AdmittedWasActive
  <1> QED
    BY <1>3, <1>4, <1>5 DEF KeyInv

\* An edit of a key keeps KeyInv.
LEMMA EditKeyInv == ASSUME KeyInv, NEW k \in Keys, EditKey(k) PROVE KeyInv'
  <1>1. CASE CreateAPIKey(k)
    <2>1. \A j \in DOMAIN keys' : keys'[j] \in BOOLEAN
      BY <1>1 DEF CreateAPIKey, KeyInv, KeysTyped
    <2> QED
      BY <1>1, <2>1, Remembered DEF CreateAPIKey
  <1>2. ASSUME NEW active \in BOOLEAN, ToggleAPIKey(k, active) PROVE KeyInv'
    <2>1. \A j \in DOMAIN keys' : keys'[j] \in BOOLEAN
      BY <1>2 DEF ToggleAPIKey, KeyInv, KeysTyped
    <2> QED
      BY <1>2, <2>1, Remembered DEF ToggleAPIKey
  <1>3. CASE DeleteAPIKey(k)
    BY <1>3 DEF DeleteAPIKey, KeyInv, KeysTyped, WaitingRemembers, AdmittedWasActive,
                Active, Exists
  <1> QED
    BY <1>1, <1>2, <1>3 DEF EditKey

\* A request that leaves takes its history with it.
LEMMA DepartKeyInv ==
    ASSUME KeyInv, NEW h \in Handlers, Depart(h), UNCHANGED keys
    PROVE  KeyInv'
  <1>1. gate' = [gate EXCEPT ![h] = Idle] /\ Idle \in KeyedRequests /\ Idle.at = "idle"
    BY DEF Depart, Idle, KeyedRequests
  <1> QED
    BY <1>1 DEF KeyInv, KeysTyped, WaitingRemembers, AdmittedWasActive, Active, Exists

\* A request that comes, is admitted or is turned away keeps KeyInv.
LEMMA CheckKeyInv == ASSUME KeyInv, NEW h \in Handlers, Check(h) PROVE KeyInv'
  <1> USE DEF KeyInv, KeysTyped
  <1>1. ASSUME NEW k \in Keys, Present(h, k) PROVE KeyInv'
    <2>1. \E was \in BOOLEAN : was = Active(k)
      BY DEF Active, Exists
    <2>2. gate'[h] = [at |-> "came", key |-> k, was |-> Active(k)]
      BY <1>1 DEF Present
    <2>3. gate'[h] \in KeyedRequests
      BY <2>1, <2>2 DEF KeyedRequests
    <2>4. KeysTyped'
      BY <1>1, <2>3 DEF Present
    <2>5. WaitingRemembers' /\ AdmittedWasActive'
      BY <1>1, <2>2 DEF Present, WaitingRemembers, AdmittedWasActive, Active, Exists
    <2> QED
      BY <2>4, <2>5
  <1>2. CASE Admit(h)
    <2>1. gate[h].was
      BY <1>2 DEF Admit, Find, WaitingRemembers
    <2>2. KeysTyped'
      BY <1>2 DEF Admit, KeyedRequests
    <2>3. WaitingRemembers' /\ AdmittedWasActive'
      BY <1>2, <2>1 DEF Admit, KeyedRequests, WaitingRemembers, AdmittedWasActive, Active, Exists
    <2> QED
      BY <2>2, <2>3
  <1>3. CASE Unauthorized(h)
    BY <1>3, DepartKeyInv DEF Unauthorized
  <1> QED
    BY <1>1, <1>2, <1>3 DEF Check

\* So does a step that touches neither the keys nor the requests' checks.
LEMMA StandingKeyInv == ASSUME KeyInv, UNCHANGED <<keys, gate>> PROVE KeyInv'
  BY DEF KeyInv, KeysTyped, WaitingRemembers, AdmittedWasActive, Active, Exists

\* Every step keeps KeyInv.
LEMMA NextKeyInv == KeyInv /\ [Next]_<<keyVars, limitVars>> => KeyInv'
  <1> SUFFICES ASSUME KeyInv, [Next]_<<keyVars, limitVars>> PROVE KeyInv'
    OBVIOUS
  <1>1. CASE Keyed
    BY <1>1, EditKeyInv, CheckKeyInv, StandingKeyInv DEF Keyed, UpdateAPIKeyLastUsed
  <1>2. ASSUME NEW h \in Handlers, Enter(h) \/ Limited(h) PROVE KeyInv'
    BY <1>2, DepartKeyInv, StandingKeyInv DEF Enter, Limited, keyVars
  <1>3. CASE (Tick \/ KeyExpires) /\ UNCHANGED keyVars
    BY <1>3, StandingKeyInv DEF keyVars
  <1>4. CASE UNCHANGED <<keyVars, limitVars>>
    BY <1>4, StandingKeyInv DEF keyVars
  <1> QED
    BY <1>1, <1>2, <1>3, <1>4 DEF Next

\* A request is admitted only with a key that was there and active at some time since
\* it came: the query of APIKeyAuth is one statement and the edits are, too, so nothing
\* comes between what is checked and what is answered (apikey.go:29-45).
THEOREM AdmittedKeysWereActive == Spec => []AdmittedWasActive
  <1>1. KeyInv => AdmittedWasActive
    BY DEF KeyInv
  <1> QED
    BY InitKeyInv, NextKeyInv, <1>1, PTL DEF Spec

\* What a step may do to a key that was deleted: nothing, to the requests in with it.
Final(k) == k \notin DOMAIN keys => k \notin DOMAIN keys' /\ In(k)' \subseteq In(k)

\* A step that leaves the table as it is and only lets requests go is final.
LEMMA DepartFinal ==
    ASSUME KeysTyped, NEW k, UNCHANGED keys,
           UNCHANGED gate \/ \E h \in Handlers : Depart(h)
    PROVE  Final(k)
  BY DEF KeysTyped, Final, In, Depart, Idle

\* A deleted key never comes back, and no request is admitted with it any more: rows
\* are made only under fresh keys, and the goroutine that notes a use updates a row or
\* does nothing (queries.go:251-277, 299-304).
THEOREM DeletedKeysAreFinal == Spec => DeletedIsFinal
  <1>1. KeyInv /\ [Next]_<<keyVars, limitVars>> => [\A k \in made : Final(k)]_keyVars
    <2> SUFFICES ASSUME KeyInv, Next, NEW k \in made PROVE Final(k)
      BY DEF keyVars
    <2> USE DEF KeyInv, KeysTyped
    <2>1. ASSUME NEW j \in Keys, EditKey(j) PROVE Final(k)
      <3>1. Remember(keys') \/ UNCHANGED gate
        BY <2>1 DEF EditKey, CreateAPIKey, ToggleAPIKey, DeleteAPIKey
      <3>2. \A h \in Handlers : gate'[h].at = gate[h].at /\ gate'[h].key = gate[h].key
        BY <3>1 DEF Remember, KeyedRequests
      <3>3. k \notin DOMAIN keys => k \notin DOMAIN keys'
        BY <2>1 DEF EditKey, CreateAPIKey, ToggleAPIKey, DeleteAPIKey
      <3> QED
        BY <3>2, <3>3 DEF Final, In
    <2>2. ASSUME NEW h \in Handlers, Check(h) PROVE Final(k)
      <3>1. ASSUME NEW j \in Keys, Present(h, j) PROVE Final(k)
        BY <3>1 DEF Present, Final, In
      <3>2. CASE Admit(h)
        BY <3>2 DEF Admit, Find, Active, Exists, Final, In, KeyedRequests
      <3>3. CASE Unauthorized(h)
        BY <3>3, DepartFinal DEF Unauthorized
      <3> QED
        BY <2>2, <3>1, <3>2, <3>3 DEF Check
    <2>3. CASE Keyed
      BY <2>1, <2>2, <2>3, DepartFinal DEF Keyed, UpdateAPIKeyLastUsed
    <2>4. ASSUME NEW h \in Handlers, Enter(h) \/ Limited(h) PROVE Final(k)
      BY <2>4, DepartFinal DEF Enter, Limited, keyVars
    <2>5. CASE (Tick \/ KeyExpires) /\ UNCHANGED keyVars
      BY <2>5, DepartFinal DEF keyVars
    <2> QED
      BY <2>3, <2>4, <2>5 DEF Next
  <1> QED
    BY InitKeyInv, NextKeyInv, <1>1, PTL DEF Spec, DeletedIsFinal, Final
-----------------------------------------------------------------------------
(* The limiter: its inductive invariant. *)

Commands == {"idle", "remove", "count", "add", "expire"}
Members == [id : Nat, score : Nat]
InPipeline(c) == pc[c] # "idle"

LimitTyped ==
    /\ clock \in Nat
    /\ asked \in SUBSET Members /\ IsFiniteSet(asked)
    /\ pc \in [Conns -> Commands] /\ mine \in [Conns -> Members] /\ count \in [Conns -> Nat]
    /\ zset \in SUBSET asked /\ served \in SUBSET asked
    /\ refused \in SUBSET asked /\ resent \in SUBSET asked
    /\ expiry \in Nat \cup {Never} /\ whole \in BOOLEAN

\* Members are fresh, and a pipeline is over before its member is MaxLag old.
Pipelines ==
    /\ \A e \in asked : e.id <= Cardinality(asked) /\ e.score <= clock
    /\ \A c \in Conns : InPipeline(c) =>
         /\ mine[c] \in asked \ served /\ clock <= mine[c].score + MaxLag
         /\ \A d \in Conns \ {c} : InPipeline(d) => mine[d] # mine[c]

\* The requests that count against e.
Against(e) == {q \in asked \ {e} : q.score > e.score - Window}
Again(e) == IF e \in resent THEN 1 ELSE 0

\* What a pipeline counts was made in its own window: later members are younger than the
\* lag.  Its own is there before its ZADD only when it was sent before.
Recent == \A c \in Conns :
    pc[c] \in {"count", "add"} => \A q \in zset : q.score > mine[c].score - Window
AddedOnce == \A c \in Conns :
    pc[c] \in {"remove", "count", "add"} /\ mine[c] \in zset => mine[c] \in resent
Founded == \A c \in Conns :
    pc[c] \in {"add", "expire"} =>
        count[c] <= Cardinality(Against(mine[c])) + Again(mine[c])

\* When Redis drops the key, what was served long ago is all it drops, and what pipelines
\* have added that did not get to their EXPIRE.
Outlives(q) == expiry # Never /\ expiry >= q.score + KeyLifetime
Pending(q) == \E c \in Conns : InPipeline(c) /\ mine[c] = q
Expiries ==
    /\ expiry # Never => zset # {}
    /\ \A q \in zset \cap served : Outlives(q)
    /\ whole => \A q \in zset : Pending(q) \/ Outlives(q)
    /\ whole /\ expiry # Never /\ (\E q \in zset : Pending(q)) =>
         \E q \in zset : Pending(q) /\ expiry > q.score + MaxLag

\* What a dropped key took with it too early.
Expected == served \cup {mine[c] : c \in {d \in Conns : pc[d] = "expire"}}
Missing == {q \in Expected \ zset : q.score > clock - Window}
Excess == IF whole THEN 0 ELSE Cardinality(Conns)
MissingIsFew ==
    /\ \A q \in Missing : expiry = Never \/ Outlives(q)
    /\ IsFiniteSet(Missing) /\ Cardinality(Missing) <= Excess

\* The requests let through, those included that know their count but are not through.
Passing == served \cup {mine[c] : c \in {d \in Conns : pc[d] \in {"add", "expire"} /\ Within(d)}}
Bursts == \A end \in 0..MaxTime :
    Cardinality(InWindow(Passing, end, Window - MaxLag)) <= Limit + Others + Excess

LimitInv ==
    /\ LimitTyped /\ Pipelines /\ Recent /\ AddedOnce /\ Founded /\ RefusedForCause
    /\ Expiries /\ MissingIsFew /\ Bursts

\* What a connection may do, and what a step of the limiter is.
Command(c) ==
    Arrive(c) \/ Remove(c) \/ Count(c) \/ Add(c) \/ Decide(c) \/ Resend(c) \/ Break(c)
LimitStep == (\E c \in Conns : Command(c)) \/ Tick \/ KeyExpires \/ UNCHANGED limitVars

\* A part of a finite set is finite, and no larger.
LEMMA SmallerIsFewer ==
    ASSUME NEW T, IsFiniteSet(T), NEW S \in SUBSET T
    PROVE  IsFiniteSet(S) /\ Cardinality(S) \in Nat /\ Cardinality(S) <= Cardinality(T)
  BY FS_Subset, FS_CardinalityType

\* Nobody has asked yet.
LEMMA InitLimitInv == LimitInit => LimitInv
  <1> SUFFICES ASSUME LimitInit PROVE LimitInv
    OBVIOUS
  <1> USE DEF LimitInit
  <1>1. IsFiniteSet({}) /\ Cardinality({}) = 0 /\ Cardinality(Conns) \in Nat \ {0}
    BY FS_EmptySet, FS_CardinalityType, RateAssumption
  <1>2. LimitTyped
    BY <1>1 DEF LimitTyped, Commands, Members, NoMember
  <1>3. Pipelines /\ Recent /\ AddedOnce /\ Founded /\ RefusedForCause /\ Expiries
    BY DEF Pipelines, Recent, AddedOnce, Founded, RefusedForCause, Expiries, Pending, InPipeline
  <1>4. Missing = {} /\ Passing = {}
    BY DEF Missing, Expected, Passing
  <1>5. MissingIsFew
    BY <1>1, <1>4 DEF MissingIsFew, Excess
  <1>6. \A end \in 0..MaxTime : InWindow(Passing, end, Window - MaxLag) = {}
    BY <1>4 DEF InWindow
  <1>7. 0 <= Limit + Others + Excess
    BY <1>1, RateAssumption DEF Others, Excess
  <1>8. Bursts
    BY <1>1, <1>6, <1>7 DEF Bursts
  <1> QED
    BY <1>2, <1>3, <1>5, <1>8 DEF LimitInv

-----------------------------------------------------------------------------
(* Pipelines. *)

\* A request that arrives has a member of its own.
LEMMA ArrivesFresh ==
    ASSUME LimitTyped, Pipelines, NEW c \in Conns, Arrive(c)
    PROVE  \E e \in Members :
             /\ e \notin asked /\ e.score = clock /\ asked' = asked \cup {e}
             /\ IsFiniteSet(asked') /\ e.id = Cardinality(asked')
             /\ Cardinality(asked') = Cardinality(asked) + 1 /\ Cardinality(asked) \in Nat
             /\ mine' = [mine EXCEPT ![c] = e]
             /\ pc[c] = "idle" /\ pc' = [pc EXCEPT ![c] = "remove"]
  <1> DEFINE e == [id |-> Cardinality(asked) + 1, score |-> clock]
  <1>1. Cardinality(asked) \in Nat /\ clock \in Nat /\ IsFiniteSet(asked)
    BY FS_CardinalityType DEF LimitTyped
  <1>2. e \in Members /\ e.score = clock /\ e.id = Cardinality(asked) + 1
    BY <1>1 DEF Members
  <1>3. e \notin asked
    BY <1>1, <1>2 DEF Pipelines
  <1>4. asked' = asked \cup {e} /\ mine' = [mine EXCEPT ![c] = e]
          /\ pc[c] = "idle" /\ pc' = [pc EXCEPT ![c] = "remove"]
    BY DEF Arrive, Goto
  <1> HIDE DEF e
  <1>5. IsFiniteSet(asked') /\ Cardinality(asked') = Cardinality(asked) + 1
    BY <1>1, <1>3, <1>4, FS_AddElement
  <1> QED
    BY <1>1, <1>2, <1>3, <1>4, <1>5

\* A step keeps the types.
LEMMA NextLimitTyped ==
    ASSUME LimitTyped, Pipelines, LimitStep
    PROVE  LimitTyped'
  <1> USE DEF LimitTyped, Commands
  <1>a. NoMember \in Members /\ Never = -1 /\ KeyLifetime \in Nat
    BY RateAssumption DEF NoMember, Members, Never, KeyLifetime
  <1>1. ASSUME NEW c \in Conns, Arrive(c) PROVE LimitTyped'
    <2>1. PICK e \in Members : asked' = asked \cup {e} /\ IsFiniteSet(asked')
                               /\ mine' = [mine EXCEPT ![c] = e]
      BY <1>1, ArrivesFresh
    <2> QED
      BY <1>1, <2>1 DEF Arrive, Goto
  <1>2. ASSUME NEW c \in Conns, Remove(c) PROVE LimitTyped'
    BY <1>2 DEF Remove, Goto
  <1>3. ASSUME NEW c \in Conns, Count(c) PROVE LimitTyped'
    <2>1. Cardinality(zset) \in Nat
      BY SmallerIsFewer
    <2> QED
      BY <1>3, <2>1 DEF Count, Goto
  <1>4. ASSUME NEW c \in Conns, Add(c) PROVE LimitTyped'
    BY <1>4 DEF Add, Goto, Pipelines, InPipeline
  <1>5. ASSUME NEW c \in Conns, Decide(c) PROVE LimitTyped'
    <2>1. mine[c] \in asked
      BY <1>5 DEF Decide, Pipelines, InPipeline
    <2>2. expiry' \in Nat \cup {Never}
      BY <1>a, <1>5 DEF Decide
    <2>3. served' \in SUBSET asked /\ refused' \in SUBSET asked
      BY <1>5, <2>1 DEF Decide
    <2> QED
      BY <1>a, <1>5, <2>2, <2>3 DEF Decide, Leave
  <1>6. ASSUME NEW c \in Conns, Resend(c) PROVE LimitTyped'
    <2>1. mine[c] \in asked
      BY <1>6 DEF Resend, Pipelines, InPipeline
    <2>2. expiry' \in Nat \cup {Never}
      BY <1>a, <1>6 DEF Resend
    <2> QED
      BY <1>6, <2>1, <2>2 DEF Resend
  <1>7. ASSUME NEW c \in Conns, Break(c) PROVE LimitTyped'
    BY <1>a, <1>7 DEF Break, Leave
  <1>8. CASE Tick
    BY <1>8 DEF Tick
  <1>9. CASE KeyExpires
    BY <1>9 DEF KeyExpires
  <1>10. CASE UNCHANGED limitVars
    BY <1>10 DEF limitVars
  <1> QED
    BY <1>1, <1>2, <1>3, <1>4, <1>5, <1>6, <1>7, <1>8, <1>9, <1>10 DEF LimitStep, Command

\* A pipeline has a member of its own, made and not yet served.
LEMMA NextPipelines ==
    ASSUME LimitTyped, Pipelines, LimitStep
    PROVE  Pipelines'
  <1> USE DEF LimitTyped, Pipelines, InPipeline
  <1>1. ASSUME NEW c \in Conns, Arrive(c) PROVE Pipelines'
    <2>1. PICK e \in Members :
             /\ e \notin asked /\ e.score = clock /\ asked' = asked \cup {e}
             /\ IsFiniteSet(asked') /\ e.id = Cardinality(asked')
             /\ Cardinality(asked') = Cardinality(asked) + 1 /\ Cardinality(asked) \in Nat
             /\ mine' = [mine EXCEPT ![c] = e]
             /\ pc[c] = "idle" /\ pc' = [pc EXCEPT ![c] = "remove"]
      BY <1>1, ArrivesFresh
    <2>2. clock' = clock /\ served' = served
      BY <1>1 DEF Arrive
    <2>3. \A q \in asked' : q.id <= Cardinality(asked') /\ q.score <= clock'
      BY <2>1, <2>2 DEF Members
    <2>4. mine'[c] = e /\ e \in asked' \ served' /\ clock' <= e.score + MaxLag
      BY <2>1, <2>2, RateAssumption
    <2>5. \A d \in Conns \ {c} : pc'[d] # "idle" =>
            /\ pc[d] # "idle" /\ mine'[d] = mine[d] /\ mine[d] \in asked
      BY <2>1
    <2> QED
      BY ZenonT(60), <2>1, <2>2, <2>3, <2>4, <2>5
  <1>2. ASSUME NEW c \in Conns, Remove(c) \/ Count(c) \/ Add(c) \/ Resend(c) PROVE Pipelines'
    <2>1. UNCHANGED <<asked, mine, served, clock>> /\ pc[c] # "idle"
            /\ \A d \in Conns \ {c} : pc'[d] = pc[d]
      BY <1>2 DEF Remove, Count, Add, Resend, Goto
    <2> QED
      BY <2>1
  <1>3. ASSUME NEW c \in Conns, Decide(c) \/ Break(c) PROVE Pipelines'
    <2>1. UNCHANGED <<asked, clock>> /\ pc[c] # "idle" /\ served' \subseteq served \cup {mine[c]}
      BY <1>3 DEF Decide, Break
    <2>2. \A d \in Conns : pc'[d] # "idle" => d # c /\ pc[d] # "idle" /\ mine'[d] = mine[d]
      BY <1>3 DEF Decide, Break, Leave
    <2> QED
      BY <2>1, <2>2
  <1>4. CASE Tick
    <2>1. UNCHANGED <<asked, mine, pc, served>> /\ clock' = clock + 1
      BY <1>4 DEF Tick
    <2>2. \A c \in Conns : pc[c] # "idle" => clock' <= mine[c].score + MaxLag
      BY <1>4, RateAssumption DEF Tick, Members
    <2>3. \A q \in asked' : q.id <= Cardinality(asked') /\ q.score <= clock'
      BY <2>1 DEF Members
    <2> QED
      BY <2>1, <2>2, <2>3
  <1>5. CASE KeyExpires \/ UNCHANGED limitVars
    BY <1>5 DEF KeyExpires, limitVars
  <1> QED
    BY <1>1, <1>2, <1>3, <1>4, <1>5 DEF LimitStep, Command

-----------------------------------------------------------------------------
(* What is counted. *)

\* More requests, or one more sent again, never make a count unfounded.
LEMMA CountsGrow ==
    ASSUME NEW A, NEW B, IsFiniteSet(B), A \subseteq B, NEW e, NEW n, NEW w
    PROVE  Cardinality({q \in A \ {e} : q.score > n - w})
             <= Cardinality({q \in B \ {e} : q.score > n - w})
  <1>1. {q \in A \ {e} : q.score > n - w} \in SUBSET {q \in B \ {e} : q.score > n - w}
    OBVIOUS
  <1>2. IsFiniteSet({q \in B \ {e} : q.score > n - w})
    BY SmallerIsFewer
  <1> QED
    BY <1>1, <1>2, SmallerIsFewer

\* What stands against e is a number, and it only grows.
LEMMA AgainstGrows ==
    ASSUME LimitTyped, LimitTyped', asked \subseteq asked', resent \subseteq resent', NEW e
    PROVE  /\ Cardinality({q \in asked \ {e} : q.score > e.score - Window}) \in Nat
           /\ Cardinality({q \in asked' \ {e} : q.score > e.score - Window}) \in Nat
           /\ Cardinality({q \in asked \ {e} : q.score > e.score - Window})
                <= Cardinality({q \in asked' \ {e} : q.score > e.score - Window})
           /\ (IF e \in resent THEN 1 ELSE 0) <= (IF e \in resent' THEN 1 ELSE 0)
  <1>1. IsFiniteSet(asked) /\ IsFiniteSet(asked')
    BY DEF LimitTyped
  <1>2. /\ {q \in asked \ {e} : q.score > e.score - Window} \in SUBSET asked
        /\ {q \in asked' \ {e} : q.score > e.score - Window} \in SUBSET asked'
    OBVIOUS
  <1> QED
    BY <1>1, <1>2, SmallerIsFewer, CountsGrow

\* A step loses no request.
LEMMA AskedGrows == ASSUME LimitStep PROVE asked \subseteq asked' /\ resent \subseteq resent'
  BY DEF LimitStep, Command, Arrive, Remove, Count, Add, Decide, Resend, Break, Tick,
         KeyExpires, limitVars

\* No member in a pipeline is as old as another's window.
LEMMA MembersAreYoung ==
    ASSUME LimitTyped, Pipelines, NEW c \in Conns, NEW d \in Conns,
           InPipeline(c), InPipeline(d)
    PROVE  mine[d].score > mine[c].score - Window /\ mine[d].score > clock - Window
  <1>1. mine[c].score <= clock /\ clock <= mine[d].score + MaxLag
    BY DEF Pipelines
  <1>2. mine[c].score \in Nat /\ mine[d].score \in Nat /\ clock \in Nat
    BY DEF LimitTyped, Members
  <1> QED
    BY <1>1, <1>2, RateAssumption

\* What ZREMRANGEBYSCORE leaves is in the window, whoever adds to it before the ZCARD.
LEMMA NextRecent ==
    ASSUME LimitTyped, Pipelines, Recent, LimitStep
    PROVE  Recent'
  <1> USE DEF LimitTyped, Recent
  <1>1. ASSUME NEW c \in Conns, Arrive(c) PROVE Recent'
    BY <1>1 DEF Arrive, Goto
  <1>2. ASSUME NEW c \in Conns, Remove(c) PROVE Recent'
    <2>1. \A q \in zset' : q.score > mine[c].score - Window
      BY <1>2, RateAssumption DEF Remove, Outdated, Members
    <2>2. \A d \in Conns \ {c} : pc'[d] = pc[d]
      BY <1>2 DEF Remove, Goto
    <2>3. zset' \subseteq zset /\ mine' = mine
      BY <1>2 DEF Remove
    <2> QED
      BY <2>1, <2>2, <2>3
  <1>3. ASSUME NEW c \in Conns, Count(c) PROVE Recent'
    BY <1>3 DEF Count, Goto
  <1>4. ASSUME NEW c \in Conns, Add(c) PROVE Recent'
    <2>1. \A d \in Conns : pc'[d] \in {"count", "add"} => d # c /\ pc'[d] = pc[d]
      BY <1>4 DEF Add, Goto
    <2>2. \A d \in Conns : pc'[d] \in {"count", "add"} => mine[c].score > mine[d].score - Window
      BY <1>4, <2>1, MembersAreYoung DEF Add, Goto, InPipeline
    <2>3. zset' = zset \cup {mine[c]} /\ mine' = mine
      BY <1>4 DEF Add
    <2> QED
      BY <2>1, <2>2, <2>3
  <1>5. ASSUME NEW c \in Conns, Decide(c) \/ Resend(c) \/ Break(c) PROVE Recent'
    <2>1. \A d \in Conns : pc'[d] \in {"count", "add"} =>
            pc'[d] = pc[d] /\ mine'[d] = mine[d]
      BY <1>5 DEF Decide, Resend, Break, Leave
    <2>2. zset' = zset
      BY <1>5 DEF Decide, Resend, Break
    <2> QED
      BY <2>1, <2>2
  <1>6. CASE Tick \/ KeyExpires \/ UNCHANGED limitVars
    BY <1>6 DEF Tick, KeyExpires, limitVars
  <1> QED
    BY <1>1, <1>2, <1>3, <1>4, <1>5, <1>6 DEF LimitStep, Command

\* A member is there before its own ZADD only when that was sent before.
LEMMA NextAddedOnce ==
    ASSUME LimitTyped, Pipelines, AddedOnce, LimitStep
    PROVE  AddedOnce'
  <1> USE DEF LimitTyped, AddedOnce
  <1>1. ASSUME NEW c \in Conns, Arrive(c) PROVE AddedOnce'
    <2>1. PICK e \in Members : e \notin asked /\ mine' = [mine EXCEPT ![c] = e]
      BY <1>1, ArrivesFresh
    <2> QED
      BY <1>1, <2>1 DEF Arrive, Goto
  <1>2. ASSUME NEW c \in Conns, Remove(c) \/ Count(c) PROVE AddedOnce'
    <2>1. zset' \subseteq zset /\ UNCHANGED <<mine, resent>>
      BY <1>2 DEF Remove, Count
    <2>2. \A d \in Conns : pc'[d] \in {"remove", "count", "add"} =>
            pc[d] \in {"remove", "count", "add"}
      BY <1>2 DEF Remove, Count, Goto
    <2> QED
      BY <2>1, <2>2
  <1>3. ASSUME NEW c \in Conns, Add(c) PROVE AddedOnce'
    <2>1. \A d \in Conns : pc'[d] \in {"remove", "count", "add"} => d # c /\ pc'[d] = pc[d]
      BY <1>3 DEF Add, Goto
    <2>2. \A d \in Conns : pc'[d] \in {"remove", "count", "add"} => mine[d] # mine[c]
      BY <1>3, <2>1 DEF Pipelines, InPipeline, Add, Goto
    <2>3. zset' = zset \cup {mine[c]} /\ UNCHANGED <<mine, resent>>
      BY <1>3 DEF Add
    <2> QED
      BY <2>1, <2>2, <2>3
  <1>4. ASSUME NEW c \in Conns, Decide(c) \/ Break(c) PROVE AddedOnce'
    <2>1. \A d \in Conns : pc'[d] \in {"remove", "count", "add"} =>
            pc'[d] = pc[d] /\ mine'[d] = mine[d]
      BY <1>4 DEF Decide, Break, Leave
    <2>2. UNCHANGED <<zset, resent>>
      BY <1>4 DEF Decide, Break
    <2> QED
      BY <2>1, <2>2
  <1>5. ASSUME NEW c \in Conns, Resend(c) PROVE AddedOnce'
    BY <1>5 DEF Resend
  <1>6. CASE Tick \/ KeyExpires \/ UNCHANGED limitVars
    BY <1>6 DEF Tick, KeyExpires, limitVars
  <1> QED
    BY <1>1, <1>2, <1>3, <1>4, <1>5, <1>6 DEF LimitStep, Command

\* ZCARD returns what stands against the request, and itself if it was sent before.
LEMMA CountIsFounded ==
    ASSUME LimitTyped, Pipelines, Recent, AddedOnce, NEW c \in Conns, Count(c)
    PROVE  Cardinality(zset) <= Cardinality(Against(mine[c])) + Again(mine[c])
  <1> DEFINE e == mine[c]
             S == Against(e)
  <1>1. pc[c] = "count" /\ IsFiniteSet(asked) /\ zset \subseteq asked
    BY DEF Count, Goto, LimitTyped
  <1>2. \A q \in zset : q = e \/ q \in S
    BY <1>1 DEF Recent, Against
  <1>3. e \in zset => Again(e) = 1
    BY <1>1 DEF AddedOnce, Again
  <1>4. S \in SUBSET asked
    BY DEF Against
  <1>5. IsFiniteSet(S) /\ Cardinality(S) \in Nat /\ Again(e) \in {0, 1}
    BY <1>1, <1>4, SmallerIsFewer DEF Again
  <1> HIDE DEF e, S
  <1>6. CASE e \in zset
    <2>a. IsFiniteSet(S \cup {e})
            /\ Cardinality(S \cup {e}) = IF e \in S THEN Cardinality(S) ELSE Cardinality(S) + 1
      BY <1>5, FS_AddElement
    <2>1. IsFiniteSet(S \cup {e}) /\ Cardinality(S \cup {e}) <= Cardinality(S) + 1
      BY <1>5, <2>a
    <2>2. zset \in SUBSET (S \cup {e})
      BY <1>2
    <2>3. Cardinality(zset) <= Cardinality(S \cup {e}) /\ Cardinality(zset) \in Nat
            /\ Cardinality(S \cup {e}) \in Nat
      BY <2>1, <2>2, SmallerIsFewer, FS_CardinalityType
    <2>4. Cardinality(zset) <= Cardinality(S) + Again(e)
      BY <1>3, <1>5, <1>6, <2>1, <2>3
    <2> QED
      BY <2>4 DEF e, S
  <1>7. CASE e \notin zset
    <2>1. zset \in SUBSET S
      BY <1>2, <1>7
    <2>2. Cardinality(zset) <= Cardinality(S) /\ Cardinality(zset) \in Nat
      BY <1>5, <2>1, SmallerIsFewer
    <2>3. Cardinality(zset) <= Cardinality(S) + Again(e)
      BY <1>5, <2>2
    <2> QED
      BY <2>3 DEF e, S
  <1> QED
    BY <1>6, <1>7

\* What founds a count still does after a step.
LEMMA StaysFounded ==
    ASSUME LimitTyped, LimitTyped', LimitStep, NEW e, NEW n \in Nat,
           n <= Cardinality({q \in asked \ {e} : q.score > e.score - Window})
                  + (IF e \in resent THEN 1 ELSE 0)
    PROVE  n <= Cardinality({q \in asked' \ {e} : q.score > e.score - Window})
                  + (IF e \in resent' THEN 1 ELSE 0)
  <1> DEFINE a == Cardinality({q \in asked \ {e} : q.score > e.score - Window})
             b == Cardinality({q \in asked' \ {e} : q.score > e.score - Window})
             i == IF e \in resent THEN 1 ELSE 0
             j == IF e \in resent' THEN 1 ELSE 0
  <1>1. a \in Nat /\ b \in Nat /\ a <= b /\ i <= j /\ i \in Nat /\ j \in Nat
    BY AskedGrows, AgainstGrows
  <1>2. n <= a + i
    OBVIOUS
  <1> HIDE DEF a, b, i, j
  <1>3. n <= b + j
    BY <1>1, <1>2
  <1> QED
    BY <1>3 DEF b, j

\* A count stays founded while its request waits for its answer.
LEMMA NextFounded ==
    ASSUME LimitTyped, LimitTyped', Pipelines, Recent, AddedOnce, Founded, LimitStep
    PROVE  Founded'
  <1> SUFFICES ASSUME NEW c \in Conns, pc'[c] \in {"add", "expire"}
               PROVE  count'[c] <= Cardinality({q \in asked' \ {mine'[c]} :
                                                  q.score > mine'[c].score - Window})
                                     + (IF mine'[c] \in resent' THEN 1 ELSE 0)
    BY DEF Founded, Against, Again
  <1>1. CASE Count(c)
    <2>1. /\ mine'[c] = mine[c] /\ count'[c] = Cardinality(zset)
          /\ asked' = asked /\ resent' = resent
      BY <1>1 DEF Count, LimitTyped
    <2> QED
      BY <1>1, <2>1, CountIsFounded DEF Against, Again
  <1>2. CASE ~Count(c)
    <2>1. pc[c] \in {"add", "expire"} /\ mine'[c] = mine[c] /\ count'[c] = count[c]
      BY <1>2 DEF LimitStep, Command, Arrive, Remove, Count, Add, Decide, Resend, Break, Leave,
                  Goto, Tick, KeyExpires, limitVars, LimitTyped
    <2>2. count[c] \in Nat /\ mine[c] \in Members
      BY DEF LimitTyped
    <2>3. count[c] <= Cardinality({q \in asked \ {mine[c]} : q.score > mine[c].score - Window})
                        + (IF mine[c] \in resent THEN 1 ELSE 0)
      BY <2>1 DEF Founded, Against, Again
    <2> QED
      BY <2>1, <2>2, <2>3, StaysFounded
  <1> QED
    BY <1>1, <1>2

\* A refusal is decided by a founded count, and stays founded.
LEMMA NextRefusedForCause ==
    ASSUME LimitTyped, LimitTyped', Founded, RefusedForCause, LimitStep
    PROVE  RefusedForCause'
  <1> SUFFICES ASSUME NEW e \in refused'
               PROVE  Cardinality({q \in asked' \ {e} : q.score > e.score - Window})
                        >= Limit - (IF e \in resent' THEN 1 ELSE 0)
    BY DEF RefusedForCause
  <1> DEFINE a == Cardinality({q \in asked \ {e} : q.score > e.score - Window})
             b == Cardinality({q \in asked' \ {e} : q.score > e.score - Window})
             i == IF e \in resent THEN 1 ELSE 0
             j == IF e \in resent' THEN 1 ELSE 0
  <1>1. a \in Nat /\ b \in Nat /\ i \in Nat /\ j \in Nat /\ Limit \in Nat
    BY AskedGrows, AgainstGrows, RateAssumption
  <1>2. Limit <= a + i
    <2>1. CASE e \in refused
      <3>1. a >= Limit - i
        BY <2>1 DEF RefusedForCause
      <3> HIDE DEF a, i
      <3> QED
        BY <1>1, <3>1
    <2>2. CASE e \notin refused
      <3>1. PICK c \in Conns : pc[c] = "expire" /\ ~Within(c) /\ e = mine[c]
        BY <2>2 DEF LimitStep, Command, Arrive, Remove, Count, Add, Decide, Resend, Break,
                    Tick, KeyExpires, limitVars
      <3>2. count[c] <= a + i
        BY <3>1 DEF Founded, Against, Again
      <3>3. count[c] \in Nat /\ ~(count[c] < Limit)
        BY <3>1 DEF LimitTyped, Within
      <3> HIDE DEF a, i
      <3> QED
        BY <1>1, <3>2, <3>3
    <2> QED
      BY <2>1, <2>2
  <1>3. Limit <= b + j
    BY <1>1, <1>2, StaysFounded
  <1>4. b >= Limit - j
    <2> HIDE DEF b, j
    <2> QED
      BY <1>1, <1>3
  <1> QED
    BY <1>4

-----------------------------------------------------------------------------
(* When Redis drops the key. *)

\* After an EXPIRE the key outlives all requests made so far.
LEMMA ExpireOutlives ==
    ASSUME LimitTyped, Pipelines, NEW q \in asked,
           expiry' = IF zset = {} THEN Never ELSE clock + KeyLifetime, zset # {}
    PROVE  expiry' # Never /\ expiry' >= q.score + KeyLifetime /\ expiry' > q.score + MaxLag
  <1>1. q.score \in Nat /\ clock \in Nat /\ q.score <= clock
    BY DEF LimitTyped, Members, Pipelines
  <1>2. MaxLag \in Nat /\ MaxLag < Window /\ Window \in Nat
    BY RateAssumption
  <1> QED
    BY <1>1, <1>2 DEF Never, KeyLifetime

\* KeyedRequests that arrive, ask for the count or are through let the key be.
LEMMA QuietExpiries ==
    ASSUME LimitTyped, Pipelines, Expiries, UNCHANGED <<zset, expiry, whole>>,
           served' \cap zset \subseteq served, \A q \in zset : Pending(q)' <=> Pending(q)
    PROVE  Expiries'
  BY DEF Expiries, Outlives

\* A key dropped with its set is as good as new.
LEMMA DroppedExpiries ==
    ASSUME zset' = {}, expiry' = Never PROVE Expiries'
  BY DEF Expiries

\* ZREMRANGEBYSCORE leaves what is in a pipeline.
LEMMA PendingRemain ==
    ASSUME LimitTyped, Pipelines, NEW c \in Conns, Remove(c), NEW q \in zset, Pending(q)
    PROVE  q \in zset'
  <1>1. PICK d \in Conns : InPipeline(d) /\ mine[d] = q
    BY DEF Pending
  <1>2. q.score > mine[c].score - Window
    BY <1>1, MembersAreYoung DEF Remove, Goto, InPipeline
  <1>3. q.score \in Nat /\ mine[c].score \in Nat /\ Window \in Nat
    BY RateAssumption DEF LimitTyped, Members
  <1>4. ~(q.score <= mine[c].score - Window)
    BY <1>2, <1>3
  <1> QED
    BY <1>4 DEF Remove, Outdated

\* What ZADD finds in the set keeps it as long as the pipeline may take.
LEMMA AddKeepsAlive ==
    ASSUME LimitTyped, Pipelines, Recent, Expiries, whole, expiry # Never,
           NEW c \in Conns, pc[c] = "add"
    PROVE  \E q \in zset \cup {mine[c]} : Pending(q) /\ expiry > q.score + MaxLag
  <1>1. CASE \E q \in zset : Pending(q)
    BY <1>1 DEF Expiries
  <1>2. CASE ~\E q \in zset : Pending(q)
    <2>1. PICK q \in zset : Outlives(q)
      BY <1>2 DEF Expiries
    <2>2. q.score > mine[c].score - Window /\ Pending(mine[c])
      BY DEF Recent, Pending, InPipeline
    <2>3. q.score \in Nat /\ mine[c].score \in Nat /\ expiry \in Nat
      BY DEF LimitTyped, Members
    <2>4. expiry > mine[c].score + MaxLag
      BY <2>1, <2>2, <2>3, RateAssumption DEF Outlives, KeyLifetime
    <2> QED
      BY <2>2, <2>4
  <1> QED
    BY <1>1, <1>2

\* Every step keeps what is known of the key's expiry.
LEMMA NextExpiries ==
    ASSUME LimitTyped, LimitTyped', Pipelines, Recent, Expiries, LimitStep
    PROVE  Expiries'
  <1> USE DEF LimitTyped
  <1>1. ASSUME NEW c \in Conns, Arrive(c) PROVE Expiries'
    <2>1. PICK e \in Members :
             /\ e \notin asked /\ mine' = [mine EXCEPT ![c] = e]
             /\ pc[c] = "idle" /\ pc' = [pc EXCEPT ![c] = "remove"]
      BY <1>1, ArrivesFresh
    <2>2. \A q \in zset : Pending(q)' <=> Pending(q)
      BY <2>1 DEF Pending, InPipeline
    <2> QED
      BY <1>1, <2>2, QuietExpiries DEF Arrive
  <1>2. ASSUME NEW c \in Conns, Remove(c) PROVE Expiries'
    <2>1. pc[c] = "remove" /\ pc' = [pc EXCEPT ![c] = "count"]
            /\ UNCHANGED <<mine, served, whole>> /\ zset' \subseteq zset
            /\ expiry' = IF zset' = {} THEN Never ELSE expiry
      BY <1>2 DEF Remove, Goto
    <2>2. \A q : Pending(q)' <=> Pending(q)
      BY <2>1 DEF Pending, InPipeline
    <2>3. \A q \in zset : Pending(q) => q \in zset'
      BY <1>2, PendingRemain
    <2>4. CASE zset' = {}
      BY <2>1, <2>4, DroppedExpiries
    <2>5. CASE zset' # {}
      BY <2>1, <2>2, <2>3, <2>5 DEF Expiries, Outlives
    <2> QED
      BY <2>4, <2>5
  <1>3. ASSUME NEW c \in Conns, Count(c) PROVE Expiries'
    <2>1. \A q \in zset : Pending(q)' <=> Pending(q)
      BY <1>3 DEF Count, Goto, Pending, InPipeline
    <2> QED
      BY <1>3, <2>1, QuietExpiries DEF Count
  <1>4. ASSUME NEW c \in Conns, Add(c) PROVE Expiries'
    <2>1. pc[c] = "add" /\ pc' = [pc EXCEPT ![c] = "expire"]
            /\ UNCHANGED <<mine, served, whole, expiry>> /\ zset' = zset \cup {mine[c]}
      BY <1>4 DEF Add, Goto
    <2>2. \A q : Pending(q)' <=> Pending(q)
      BY <2>1 DEF Pending, InPipeline
    <2>3. Pending(mine[c]) /\ mine[c] \notin served
      BY <2>1 DEF Pending, InPipeline, Pipelines
    <2>4. whole /\ expiry # Never =>
            \E q \in zset \cup {mine[c]} : Pending(q) /\ expiry > q.score + MaxLag
      BY <2>1, AddKeepsAlive
    <2>5. \A q : Outlives(q)' <=> Outlives(q)
      BY <2>1 DEF Outlives
    <2> QED
      BY <2>1, <2>2, <2>3, <2>4, <2>5 DEF Expiries
  <1>5. ASSUME NEW c \in Conns, UNCHANGED zset,
               expiry' = IF zset = {} THEN Never ELSE clock + KeyLifetime
        PROVE  Expiries'
    <2>1. CASE zset = {}
      BY <1>5, <2>1, DroppedExpiries
    <2>2. CASE zset # {}
      BY <1>5, <2>2, ExpireOutlives DEF Expiries, Outlives
    <2> QED
      BY <2>1, <2>2
  <1>6. ASSUME NEW c \in Conns, Decide(c) PROVE Expiries'
    BY <1>5, <1>6 DEF Decide
  <1>7. ASSUME NEW c \in Conns, Resend(c) PROVE Expiries'
    <2>1. CASE UNCHANGED expiry
      <3>1. \A q \in zset : Pending(q)' <=> Pending(q)
        BY <1>7 DEF Resend, Pending, InPipeline
      <3> QED
        BY <1>7, <2>1, <3>1, QuietExpiries DEF Resend
    <2> QED
      BY <1>5, <1>7, <2>1 DEF Resend
  <1>8. ASSUME NEW c \in Conns, Break(c) PROVE Expiries'
    BY <1>8 DEF Break, Expiries, Outlives
  <1>9. CASE Tick \/ UNCHANGED limitVars
    <2>1. \A q : Pending(q)' <=> Pending(q)
      BY <1>9 DEF Tick, limitVars, Pending, InPipeline
    <2> QED
      BY <1>9, <2>1, QuietExpiries DEF Tick, limitVars
  <1>10. CASE KeyExpires
    BY <1>10, DroppedExpiries DEF KeyExpires
  <1> QED
    BY <1>1, <1>2, <1>3, <1>4, <1>6, <1>7, <1>8, <1>9, <1>10 DEF LimitStep, Command

-----------------------------------------------------------------------------
(* What a dropped key took with it. *)

\* Excess is a number that never gets less.
LEMMA ExcessGrows ==
    ASSUME LimitTyped, LimitTyped', LimitStep
    PROVE  Excess \in Nat /\ Excess' \in Nat /\ Excess <= Excess'
  <1>1. Cardinality(Conns) \in Nat
    BY FS_CardinalityType, RateAssumption
  <1>2. whole' => whole
    BY DEF LimitStep, Command, Arrive, Remove, Count, Add, Decide, Resend, Break, Tick,
           KeyExpires, limitVars
  <1> QED
    BY <1>1, <1>2 DEF Excess

\* All that is expected in the set was asked.
LEMMA ExpectedAsked == ASSUME LimitTyped, Pipelines PROVE Expected \subseteq asked
  BY DEF LimitTyped, Pipelines, InPipeline, Expected

\* As long as nothing more gets missing the bound stays.
LEMMA FewStayFew ==
    ASSUME LimitTyped, LimitTyped', LimitStep, MissingIsFew, Missing' \subseteq Missing,
           \A q \in Missing' : expiry' = Never \/ Outlives(q)'
    PROVE  MissingIsFew'
  <1>1. IsFiniteSet(Missing') /\ Cardinality(Missing') <= Cardinality(Missing)
          /\ Cardinality(Missing') \in Nat /\ Cardinality(Missing) \in Nat
          /\ Cardinality(Missing) <= Excess
    BY SmallerIsFewer, FS_CardinalityType DEF MissingIsFew
  <1>2. Cardinality(Missing') <= Excess'
    BY <1>1, ExcessGrows
  <1> QED
    BY <1>1, <1>2 DEF MissingIsFew

\* There are no more members in pipelines than handlers.
LEMMA MembersAreFew ==
    /\ IsFiniteSet({mine[c] : c \in Conns})
    /\ Cardinality({mine[c] : c \in Conns}) <= Cardinality(Conns)
    /\ Cardinality({mine[c] : c \in Conns}) \in Nat /\ Cardinality(Conns) \in Nat
  <1> DEFINE T == {mine[c] : c \in Conns}
             f == [c \in Conns |-> mine[c]]
  <1>1. f \in Surjection(Conns, T)
    BY DEF Surjection
  <1> HIDE DEF f, T
  <1>2. IsFiniteSet(T) /\ Cardinality(T) <= Cardinality(Conns)
    BY <1>1, FS_Surjection, RateAssumption
  <1>3. Cardinality(T) \in Nat /\ Cardinality(Conns) \in Nat
    BY <1>2, FS_CardinalityType, RateAssumption
  <1> QED
    BY <1>2, <1>3 DEF T

\* A key is dropped only long after its last EXPIRE.  All it takes with it that still
\* counts are requests between their ZADD and their EXPIRE, and those only after a
\* pipeline was given up there.
LEMMA DropTakesFew ==
    ASSUME LimitTyped, LimitTyped', Pipelines, Expiries, MissingIsFew, KeyExpires
    PROVE  MissingIsFew'
  <1> USE DEF LimitTyped
  <1>1. expiry # Never /\ expiry <= clock /\ expiry \in Nat /\ clock \in Nat
          /\ zset' = {} /\ expiry' = Never
          /\ UNCHANGED <<clock, asked, pc, mine, served, whole>>
    BY DEF KeyExpires
  <1>2. \A q \in asked : Outlives(q) => ~(q.score > clock - Window)
    <2> SUFFICES ASSUME NEW q \in asked, Outlives(q) PROVE ~(q.score > clock - Window)
      OBVIOUS
    <2>1. q.score \in Nat /\ expiry >= q.score + 2 * Window
      BY DEF Outlives, KeyLifetime, Members
    <2> QED
      BY <1>1, <2>1, RateAssumption
  <1>3. Missing = {}
    BY <1>1, <1>2, ExpectedAsked DEF MissingIsFew, Missing
  <1>4. \A q \in Missing' : q \in zset /\ \E c \in Conns : pc[c] = "expire" /\ mine[c] = q
    <2> SUFFICES ASSUME NEW q \in Missing'
                 PROVE  q \in zset /\ \E c \in Conns : pc[c] = "expire" /\ mine[c] = q
      OBVIOUS
    <2>1. q \in Expected /\ q.score > clock - Window
      BY <1>1 DEF Missing, Expected
    <2>2. q \in zset
      BY <1>3, <2>1 DEF Missing
    <2>3. q \notin served
      BY <1>2, <2>1, <2>2, ExpectedAsked DEF Expiries
    <2> QED
      BY <2>1, <2>2, <2>3 DEF Expected
  <1>5. Missing' \in SUBSET {mine[c] : c \in Conns}
    BY <1>4
  <1>6. IsFiniteSet(Missing') /\ Cardinality(Missing') \in Nat
          /\ Cardinality(Missing') <= Cardinality({mine[c] : c \in Conns})
    BY <1>5, MembersAreFew, SmallerIsFewer
  <1>7. Cardinality(Missing') <= Cardinality(Conns)
    BY <1>6, MembersAreFew
  <1>8. whole => Missing' = {}
    <2> SUFFICES ASSUME whole, NEW q \in Missing' PROVE FALSE
      OBVIOUS
    <2>1. \E p \in zset : Pending(p)
      BY <1>4 DEF Pending, InPipeline
    <2>2. PICK p \in zset : Pending(p) /\ expiry > p.score + MaxLag
      BY <1>1, <2>1 DEF Expiries
    <2>3. clock <= p.score + MaxLag /\ p.score \in Nat
      BY <2>2 DEF Pending, Pipelines, Members
    <2> QED
      BY <1>1, <2>2, <2>3, RateAssumption
  <1>9. Cardinality(Missing') <= Excess'
    BY SMTT(30), <1>1, <1>7, <1>8, FS_EmptySet DEF Excess
  <1> QED
    BY <1>1, <1>6, <1>9 DEF MissingIsFew

\* No other step takes what is expected in the set out of it.
LEMMA NextMissingIsFew ==
    ASSUME LimitTyped, LimitTyped', Pipelines, Expiries, MissingIsFew, LimitStep
    PROVE  MissingIsFew'
  <1> USE DEF LimitTyped
  <1>1. ASSUME NEW c \in Conns, Arrive(c) \/ Count(c) PROVE MissingIsFew'
    <2>1. \A d \in Conns : pc'[d] = "expire" => pc[d] = "expire" /\ mine'[d] = mine[d]
      BY <1>1 DEF Arrive, Count, Goto
    <2>2. UNCHANGED <<zset, served, clock, expiry>>
      BY <1>1 DEF Arrive, Count
    <2>3. Missing' \subseteq Missing
      BY <2>1, <2>2 DEF Missing, Expected
    <2> QED
      BY <2>2, <2>3, FewStayFew DEF MissingIsFew, Outlives
  <1>2. ASSUME NEW c \in Conns, Remove(c) PROVE MissingIsFew'
    <2>1. \A d \in Conns : pc'[d] = "expire" => pc[d] = "expire"
      BY <1>2 DEF Remove, Goto
    <2>2. /\ UNCHANGED <<mine, served, clock>> /\ (expiry' = expiry \/ expiry' = Never)
          /\ zset' = zset \ Outdated(c) /\ pc[c] = "remove"
      BY <1>2 DEF Remove, Goto
    <2>3. \A q \in Outdated(c) : ~(q.score > clock - Window)
      <3>1. mine[c].score <= clock /\ mine[c].score \in Nat /\ clock \in Nat
        BY <2>2 DEF Pipelines, InPipeline, Members
      <3> QED
        BY <3>1, RateAssumption DEF Outdated, Members
    <2>4. Missing' \subseteq Missing
      BY <2>1, <2>2, <2>3 DEF Missing, Expected
    <2> QED
      BY <2>2, <2>4, FewStayFew DEF MissingIsFew, Outlives
  <1>3. ASSUME NEW c \in Conns, Add(c) PROVE MissingIsFew'
    <2>1. \A d \in Conns \ {c} : pc'[d] = pc[d]
      BY <1>3 DEF Add, Goto
    <2>2. UNCHANGED <<mine, served, clock, expiry>> /\ zset' = zset \cup {mine[c]}
      BY <1>3 DEF Add
    <2>3. Missing' \subseteq Missing
      BY <2>1, <2>2 DEF Missing, Expected
    <2> QED
      BY <2>2, <2>3, FewStayFew DEF MissingIsFew, Outlives
  <1>4. ASSUME NEW c \in Conns, Decide(c) \/ Resend(c) \/ Break(c) PROVE MissingIsFew'
    <2>1. \A d \in Conns : pc'[d] = "expire" => d # c /\ pc[d] = "expire" /\ mine'[d] = mine[d]
      BY <1>4 DEF Decide, Resend, Break, Leave
    <2>2. UNCHANGED <<zset, clock, asked>>
      BY <1>4 DEF Decide, Resend, Break
    <2>3. served' = served \/ (served' = served \cup {mine[c]} /\ pc[c] = "expire")
      BY <1>4 DEF Decide, Resend, Break
    <2>4. Missing' \subseteq Missing
      BY <2>1, <2>2, <2>3 DEF Missing, Expected
    <2>5. CASE expiry' = expiry
      BY <2>4, <2>5, FewStayFew DEF MissingIsFew, Outlives
    <2>6. CASE expiry' = IF zset = {} THEN Never ELSE clock + KeyLifetime
      <3>1. \A q \in asked : expiry' = Never \/ Outlives(q)'
        BY <2>6, ExpireOutlives DEF Outlives
      <3>2. Missing \subseteq asked
        BY ExpectedAsked DEF Missing
      <3> QED
        BY <2>4, <3>1, <3>2, FewStayFew
    <2> QED
      BY <1>4, <2>5, <2>6 DEF Decide, Resend, Break
  <1>5. CASE Tick
    <2>1. UNCHANGED <<pc, mine, served, zset, expiry>> /\ clock' = clock + 1
      BY <1>5 DEF Tick
    <2>2. \A q \in asked : q.score > clock' - Window => q.score > clock - Window
      BY <2>1, RateAssumption DEF Members
    <2>3. Missing' \subseteq Missing
      BY <2>1, <2>2, ExpectedAsked DEF Missing, Expected
    <2> QED
      BY <2>1, <2>3, FewStayFew DEF MissingIsFew, Outlives
  <1>6. CASE KeyExpires
    BY <1>6, DropTakesFew
  <1>7. CASE UNCHANGED limitVars
    <2>1. Missing' = Missing
      BY <1>7 DEF limitVars, Missing, Expected
    <2> QED
      BY <1>7, <2>1, FewStayFew DEF limitVars, MissingIsFew, Outlives
  <1> QED
    BY <1>1, <1>2, <1>3, <1>4, <1>5, <1>6, <1>7 DEF LimitStep, Command

-----------------------------------------------------------------------------
(* Bursts. *)

\* The requests let through by their count are requests made.
LEMMA PassingAsked == ASSUME LimitTyped, Pipelines PROVE Passing \subseteq asked
  BY DEF LimitTyped, Pipelines, InPipeline, Passing

\* A step that lets no one through leaves the bursts.
LEMMA NoNewBurst ==
    ASSUME LimitTyped, LimitTyped', Pipelines, Bursts, LimitStep, Passing' \subseteq Passing
    PROVE  Bursts'
  <1> SUFFICES ASSUME NEW end \in 0..MaxTime
               PROVE  Cardinality(InWindow(Passing', end, Window - MaxLag))
                        <= Limit + Others + Excess'
    BY DEF Bursts
  <1> DEFINE S == InWindow(Passing, end, Window - MaxLag)
             T == InWindow(Passing', end, Window - MaxLag)
  <1>1. S \in SUBSET asked /\ T \in SUBSET S
    BY PassingAsked DEF InWindow
  <1>2. IsFiniteSet(asked) /\ Cardinality(S) <= Limit + Others + Excess
    BY DEF LimitTyped, Bursts
  <1>3. Limit + Others \in Int
    BY MembersAreFew, RateAssumption DEF Others
  <1> HIDE DEF S, T
  <1>4. IsFiniteSet(S) /\ Cardinality(S) \in Nat
    BY <1>1, <1>2, SmallerIsFewer
  <1>5. Cardinality(T) <= Cardinality(S) /\ Cardinality(T) \in Nat
    BY <1>1, <1>4, SmallerIsFewer
  <1>6. Cardinality(T) <= (Limit + Others) + Excess'
    BY <1>2, <1>3, <1>4, <1>5, ExcessGrows
  <1> QED
    BY <1>6 DEF T

\* Who counts fewer than the limit sees all of its window that is not missing, and not
\* in a pipeline.
LEMMA CountSees ==
    ASSUME LimitTyped, Pipelines, NEW c \in Conns, pc[c] = "count", NEW end \in 0..MaxTime,
           mine[c].score <= end, NEW q \in asked, q.score > end - (Window - MaxLag),
           q \in Passing \cup {mine[c]}
    PROVE  q \in zset \/ q \in Missing \/ q \in {mine[d] : d \in Conns}
  <1>1. q \in served \/ q \in {mine[d] : d \in Conns}
    BY DEF Passing
  <1>2. clock <= mine[c].score + MaxLag /\ clock \in Nat /\ mine[c].score \in Nat
          /\ q.score \in Nat
    BY DEF LimitTyped, Members, Pipelines, InPipeline
  <1>3. q.score > clock - Window
    BY <1>2, RateAssumption
  <1> QED
    BY <1>1, <1>3 DEF Missing, Expected

\* All three together are within the bound.
LEMMA ThreeAreFew ==
    ASSUME LimitTyped, MissingIsFew, Cardinality(zset) < Limit,
           NEW S \in SUBSET (zset \cup Missing \cup {mine[d] : d \in Conns})
    PROVE  Cardinality(S) <= Limit + Others + Excess
  <1> DEFINE M == {mine[d] : d \in Conns}
  <1>1. IsFiniteSet(zset) /\ Cardinality(zset) \in Nat
    BY SmallerIsFewer DEF LimitTyped
  <1>2. IsFiniteSet(Missing) /\ Cardinality(Missing) \in Nat /\ Cardinality(Missing) <= Excess
    BY FS_CardinalityType DEF MissingIsFew
  <1>3. IsFiniteSet(M) /\ Cardinality(M) \in Nat /\ Cardinality(M) <= Cardinality(Conns)
          /\ Cardinality(Conns) \in Nat
    BY MembersAreFew
  <1>4. Excess \in Nat /\ Limit \in Nat
    BY <1>3, RateAssumption DEF Excess
  <1> HIDE DEF M
  <1>5. ASSUME NEW A, NEW B, IsFiniteSet(A), IsFiniteSet(B)
        PROVE  IsFiniteSet(A \cup B) /\ Cardinality(A \cup B) \in Nat
                 /\ Cardinality(A \cup B) <= Cardinality(A) + Cardinality(B)
    <2>1. IsFiniteSet(A \cup B)
            /\ Cardinality(A \cup B) = Cardinality(A) + Cardinality(B) - Cardinality(A \cap B)
      BY <1>5, FS_Union
    <2>2. IsFiniteSet(A \cap B)
      BY <1>5, SmallerIsFewer
    <2>3. Cardinality(A) \in Nat /\ Cardinality(B) \in Nat /\ Cardinality(A \cap B) \in Nat
            /\ Cardinality(A \cup B) \in Nat
      BY <1>5, <2>1, <2>2, FS_CardinalityType
    <2> QED
      BY <2>1, <2>3
  <1> DEFINE U == zset \cup Missing
             V == U \cup M
  <1>6. IsFiniteSet(U) /\ Cardinality(U) \in Nat
          /\ Cardinality(U) <= Cardinality(zset) + Cardinality(Missing)
    BY <1>1, <1>2, <1>5
  <1> HIDE DEF U
  <1>7. IsFiniteSet(V) /\ Cardinality(V) \in Nat
          /\ Cardinality(V) <= Cardinality(U) + Cardinality(M)
    BY <1>3, <1>5, <1>6
  <1> HIDE DEF V
  <1>8. S \in SUBSET V
    BY DEF M, U, V
  <1>9. Cardinality(S) <= Cardinality(V) /\ Cardinality(S) \in Nat
    BY <1>7, <1>8, SmallerIsFewer
  <1> QED
    BY <1>1, <1>2, <1>3, <1>4, <1>6, <1>7, <1>9 DEF Others

\* Who counts fewer than the limit does not burst it.
LEMMA CountKeepsBursts ==
    ASSUME LimitTyped, LimitTyped', Pipelines, MissingIsFew, Bursts, LimitStep,
           NEW c \in Conns, Count(c)
    PROVE  Bursts'
  <1>1. /\ pc[c] = "count" /\ pc' = [pc EXCEPT ![c] = "add"]
        /\ count' = [count EXCEPT ![c] = Cardinality(zset)]
        /\ UNCHANGED <<mine, served, zset, whole, asked>>
    BY DEF Count, Goto
  <1>2. mine[c] \in asked /\ IsFiniteSet(asked)
    BY <1>1 DEF Pipelines, InPipeline, LimitTyped
  <1>3. \A d \in Conns \ {c} : pc'[d] = pc[d] /\ (Within(d)' <=> Within(d))
    BY <1>1 DEF LimitTyped, Within
  <1>4. CASE ~(Cardinality(zset) < Limit)
    <2>1. ~Within(c)'
      BY <1>1, <1>4 DEF LimitTyped, Within
    <2>2. Passing' \subseteq Passing
      BY <1>1, <1>3, <2>1 DEF Passing
    <2> QED
      BY <2>2, NoNewBurst
  <1>5. CASE Cardinality(zset) < Limit
    <2>1. Passing' \subseteq Passing \cup {mine[c]}
      BY <1>1, <1>3 DEF Passing
    <2> SUFFICES ASSUME NEW end \in 0..MaxTime
                 PROVE  Cardinality(InWindow(Passing', end, Window - MaxLag))
                          <= Limit + Others + Excess
      BY <1>1 DEF Bursts, Excess
    <2> DEFINE S == InWindow(Passing, end, Window - MaxLag)
               T == InWindow(Passing', end, Window - MaxLag)
    <2>2. CASE mine[c] \in T
      <3>1. mine[c].score <= end
        BY <2>2 DEF InWindow
      <3>2. \A q \in T : q \in asked /\ q.score > end - (Window - MaxLag)
                           /\ q \in Passing \cup {mine[c]}
        BY <1>2, <2>1, PassingAsked DEF InWindow
      <3>3. T \in SUBSET (zset \cup Missing \cup {mine[d] : d \in Conns})
        BY <1>1, <3>1, <3>2, CountSees
      <3> QED
        BY <1>5, <3>3, ThreeAreFew
    <2>3. CASE mine[c] \notin T
      <3>1. T \in SUBSET S /\ S \in SUBSET asked
        BY <2>1, <2>3, PassingAsked DEF InWindow
      <3>2. Cardinality(S) <= Limit + Others + Excess
        BY DEF Bursts
      <3>3. Limit + Others + Excess \in Int
        BY MembersAreFew, ExcessGrows, RateAssumption DEF Others
      <3> HIDE DEF S, T
      <3>4. IsFiniteSet(S) /\ Cardinality(S) \in Nat
        BY <1>2, <3>1, SmallerIsFewer
      <3>5. Cardinality(T) <= Cardinality(S) /\ Cardinality(T) \in Nat
        BY <3>1, <3>4, SmallerIsFewer
      <3>6. Cardinality(T) <= Limit + Others + Excess
        BY <3>2, <3>3, <3>4, <3>5
      <3> QED
        BY <3>6 DEF T
    <2> QED
      BY <2>2, <2>3
  <1> QED
    BY <1>4, <1>5

\* Only a ZCARD lets one more through.
LEMMA NextBursts ==
    ASSUME LimitTyped, LimitTyped', Pipelines, MissingIsFew, Bursts, LimitStep
    PROVE  Bursts'
  <1> USE DEF LimitTyped
  <1>1. ASSUME NEW c \in Conns, Count(c) PROVE Bursts'
    BY <1>1, CountKeepsBursts
  <1>2. ASSUME NEW c \in Conns, Arrive(c) \/ Remove(c) \/ Add(c) PROVE Bursts'
    <2>1. \A d \in Conns : pc'[d] \in {"add", "expire"} =>
            pc[d] \in {"add", "expire"} /\ mine'[d] = mine[d]
      BY <1>2 DEF Arrive, Remove, Add, Goto
    <2>2. UNCHANGED <<served, count>>
      BY <1>2 DEF Arrive, Remove, Add
    <2>3. Passing' \subseteq Passing
      BY <2>1, <2>2 DEF Passing, Within
    <2> QED
      BY <2>3, NoNewBurst
  <1>3. ASSUME NEW c \in Conns, Decide(c) \/ Resend(c) \/ Break(c) PROVE Bursts'
    <2>1. \A d \in Conns : pc'[d] \in {"add", "expire"} =>
            d # c /\ pc[d] \in {"add", "expire"} /\ mine'[d] = mine[d] /\ count'[d] = count[d]
      BY <1>3 DEF Decide, Resend, Break, Leave
    <2>2. \/ served' = served
          \/ served' = served \cup {mine[c]} /\ pc[c] = "expire" /\ Within(c)
      BY <1>3 DEF Decide, Resend, Break
    <2>3. Passing' \subseteq Passing
      BY <2>1, <2>2 DEF Passing, Within
    <2> QED
      BY <2>3, NoNewBurst
  <1>4. CASE Tick \/ KeyExpires \/ UNCHANGED limitVars
    <2>1. UNCHANGED <<pc, mine, served, count>>
      BY <1>4 DEF Tick, KeyExpires, limitVars
    <2>2. Passing' = Passing
      BY <2>1 DEF Passing, Within
    <2> QED
      BY <2>2, NoNewBurst
  <1> QED
    BY <1>1, <1>2, <1>3, <1>4 DEF LimitStep, Command

\* LimitInv is inductive.
LEMMA NextLimitInv == LimitInv /\ LimitStep => LimitInv'
  <1> SUFFICES ASSUME LimitInv, LimitStep PROVE LimitInv'
    OBVIOUS
  <1> USE DEF LimitInv
  <1>1. LimitTyped' /\ Pipelines'
    BY NextLimitTyped, NextPipelines
  <1>2. Recent' /\ AddedOnce' /\ Expiries'
    BY <1>1, NextRecent, NextAddedOnce, NextExpiries
  <1>3. Founded' /\ RefusedForCause'
    BY <1>1, NextFounded, NextRefusedForCause
  <1>4. MissingIsFew' /\ Bursts'
    BY <1>1, NextMissingIsFew, NextBursts
  <1> QED
    BY <1>1, <1>2, <1>3, <1>4

\* Who was let through passed.
LEMMA BurstsBound == LimitInv => BoundedBurst
  <1> SUFFICES ASSUME LimitInv, NEW end \in 0..MaxTime
               PROVE  Cardinality(InWindow(served, end, Window - MaxLag))
                        <= Limit + Others + Excess
    BY DEF BoundedBurst, Excess
  <1> DEFINE S == InWindow(served, end, Window - MaxLag)
             T == InWindow(Passing, end, Window - MaxLag)
  <1>1. S \in SUBSET T /\ T \in SUBSET asked
    BY PassingAsked DEF InWindow, Passing, LimitInv
  <1>2. Cardinality(T) <= Limit + Others + Excess /\ IsFiniteSet(asked)
    BY DEF LimitInv, Bursts, LimitTyped
  <1>3. Limit + Others + Excess \in Int
    BY MembersAreFew, RateAssumption DEF Others, Excess
  <1> HIDE DEF S, T
  <1>4. IsFiniteSet(T) /\ Cardinality(T) \in Nat
    BY <1>1, <1>2, SmallerIsFewer
  <1>5. Cardinality(S) <= Cardinality(T) /\ Cardinality(S) \in Nat
    BY <1>1, <1>4, SmallerIsFewer
  <1>6. Cardinality(S) <= Limit + Others + Excess
    BY <1>2, <1>3, <1>4, <1>5
  <1> QED
    BY <1>6 DEF S
-----------------------------------------------------------------------------
(* The theorems of the limiter. *)

\* A step of the gateway is one of the limiter, or none to it.
LEMMA StepOfLimiter == [Next]_<<keyVars, limitVars>> => LimitStep
  BY GatewayAssumption DEF Next, Keyed, Enter, Limited, LimitStep, Command

\* No one is refused without the limit of others since its window began, whatever
\* pipelines interleave, are sent twice or break off, and whenever the key is dropped
\* (ratelimit.go:27-54).
THEOREM RefusalsHaveCause == Spec => []RefusedForCause
  <1>1. Init => LimitInv
    BY InitLimitInv DEF Init
  <1>2. LimitInv /\ [Next]_<<keyVars, limitVars>> => LimitInv'
    BY NextLimitInv, StepOfLimiter
  <1>3. LimitInv => RefusedForCause
    BY DEF LimitInv
  <1> QED
    BY <1>1, <1>2, <1>3, PTL DEF Spec

\* No window lets the limit through more than once, but for the handlers that count at
\* the same time and, after a pipeline broke off, those a dropped key forgot
\* (ratelimit.go:22-46).
THEOREM BurstsAreBounded == Spec => []BoundedBurst
  <1>1. Init => LimitInv
    BY InitLimitInv DEF Init
  <1>2. LimitInv /\ [Next]_<<keyVars, limitVars>> => LimitInv'
    BY NextLimitInv, StepOfLimiter
  <1> QED
    BY <1>1, <1>2, BurstsBound, PTL DEF Spec

-----------------------------------------------------------------------------
(* The setup and the account.                                              *)

States == {"new", "check", "create", "complete", "compare", "write", "end"}
Rows == [email : Emails, password : Passwords]
Fields == [at : States, id : Requests \cup {None}, email : Emails \cup {None},
           password : Passwords \cup {None}, next : Passwords \cup {None},
           answer : Nat, late : BOOLEAN, told : BOOLEAN, held : SUBSET Passwords]

Typed ==
    /\ complete \in BOOLEAN
    /\ Ids \subseteq Requests
    /\ admins \in [Ids -> Rows]
    /\ tokens \subseteq Ids
    /\ req \in [Requests -> Fields]

\* What a request has when it is between two of its statements.
Between == \A r \in Requests :
    /\ req[r].at \in {"check", "create", "complete"} =>
        req[r].email \in Emails /\ req[r].password \in Passwords
    /\ req[r].at \in {"compare", "write"} =>
        req[r].id \in tokens /\ req[r].next \in Passwords

\* An account is there from the moment its setup has only the flag left to set.
AccountsAreMade == \A r \in Requests :
    /\ req[r].at = "complete" => r \in Ids
    /\ r \in Ids => req[r].at \in {"complete", "end"}

\* A setup that came late gets no further than its check, since the flag stays.
LateIsRefused == \A r \in Requests :
    req[r].late => complete /\ req[r].at \in {"check", "end"}

\* The history has the password the account has now, and, once compared, the one given.
HistoryIsKept == \A r \in Requests :
    /\ req[r].at \in {"compare", "write"} => admins[req[r].id].password \in req[r].held
    /\ req[r].at = "write" => req[r].password \in req[r].held

\* Who is answered that setup is complete is told so when it is, and the flag stays; so
\* whoever begins after that is late.
Truthful(r, q) ==
    /\ q.answer \in {Created, Conflict} => complete
    /\ q.answer = Created => r \in Ids
    /\ q.told => q.late
AnswersAreTrue == \A r \in Requests : Truthful(r, req[r])

AccountInv ==
    /\ Typed /\ Between /\ AccountsAreMade /\ LateIsRefused /\ HistoryIsKept /\ AnswersAreTrue
    /\ SomebodyCanLogIn /\ SetupCloses

LEMMA InitAccountInv == AccountInit => AccountInv
  <1> SUFFICES ASSUME AccountInit PROVE AccountInv
    OBVIOUS
  <1>1. Ids = {} /\ admins \in [Ids -> Rows]
    BY DEF AccountInit, Ids
  <1>2. \A r \in Requests : /\ req[r].at = "new" /\ ~req[r].late /\ req[r] \in Fields
                            /\ req[r].answer = 0 /\ ~req[r].told
    BY DEF AccountInit, New, Fields, States
  <1>3. Typed
    BY <1>1, <1>2 DEF AccountInit, Typed
  <1>4. Between /\ AccountsAreMade /\ LateIsRefused /\ HistoryIsKept /\ AnswersAreTrue
    BY <1>1, <1>2 DEF Between, AccountsAreMade, LateIsRefused, HistoryIsKept, AnswersAreTrue,
                      Truthful, Created, Conflict
  <1>5. SomebodyCanLogIn /\ SetupCloses
    BY <1>1 DEF AccountInit, SomebodyCanLogIn, SetupCloses
  <1> QED
    BY <1>3, <1>4, <1>5 DEF AccountInv

\* One request moves on, and the tables stay.
LEMMA MovesOn ==
    ASSUME AccountInv, NEW r \in Requests, NEW new \in Fields,
           UNCHANGED <<complete, admins, tokens>>,
           req' = [req EXCEPT ![r] = new],
           new.at \in {"check", "create", "complete"} =>
               new.email \in Emails /\ new.password \in Passwords,
           new.at \in {"compare", "write"} =>
               /\ new.id \in tokens /\ new.next \in Passwords
               /\ admins[new.id].password \in new.held,
           new.at = "write" => new.password \in new.held,
           new.at = "complete" => r \in Ids,
           r \in Ids => new.at \in {"complete", "end"} /\ ~new.late,
           new.late => complete /\ new.at \in {"check", "end"},
           Truthful(r, new)
    PROVE  AccountInv'
  <1> USE DEF AccountInv, Ids
  <1>1. \A s \in Requests : req'[s] = IF s = r THEN new ELSE req[s]
    BY DEF Typed
  <1>2. Typed'
    BY DEF Typed
  <1>3. Between' /\ AccountsAreMade' /\ LateIsRefused'
    BY <1>1 DEF Between, AccountsAreMade, LateIsRefused
  <1>4. HistoryIsKept'
    BY <1>1 DEF HistoryIsKept
  <1>5. SomebodyCanLogIn' /\ SetupCloses'
    BY <1>1 DEF SomebodyCanLogIn, SetupCloses, Typed
  <1>6. AnswersAreTrue'
    BY <1>1 DEF AnswersAreTrue, Truthful
  <1> QED
    BY <1>2, <1>3, <1>4, <1>5, <1>6

\* A request that is answered and changes nothing else.
LEMMA Answered ==
    ASSUME AccountInv, NEW r \in Requests, NEW from \in States \ {"new"}, NEW status \in Nat,
           Answer(r, from, status), UNCHANGED <<complete, admins, tokens>>,
           status # Created, status = Conflict => complete
    PROVE  AccountInv'
  <1> DEFINE new == [req[r] EXCEPT !.at = "end", !.answer = status]
  <1>1. /\ new \in Fields /\ new.at = "end" /\ new.late = req[r].late
        /\ new.answer = status /\ new.told = req[r].told
    BY DEF AccountInv, Typed, Fields, States
  <1>2. req' = [req EXCEPT ![r] = new]
    BY DEF Answer, AccountInv, Typed
  <1>3. new.late => complete
    BY <1>1 DEF AccountInv, LateIsRefused
  <1>4. r \in Ids => ~new.late
    BY <1>1 DEF AccountInv, SetupCloses
  <1>5. Truthful(r, new)
    BY <1>1 DEF AccountInv, AnswersAreTrue, Truthful
  <1> HIDE DEF new
  <1> QED
    BY <1>1, <1>2, <1>3, <1>4, <1>5, MovesOn

\* A request that is made and answered at once.
LEMMA ArrivesAndEnds ==
    ASSUME AccountInv, NEW r \in Requests, NEW a \in Ids, NEW status \in Nat,
           Arrives(r, [New EXCEPT !.at = "end", !.id = a, !.answer = status]),
           UNCHANGED <<complete, admins, tokens>>, status \notin {Created, Conflict}
    PROVE  AccountInv'
  <1> DEFINE new == [New EXCEPT !.at = "end", !.id = a, !.answer = status]
  <1>1. new \in Fields /\ new.at = "end" /\ ~new.late
    BY DEF AccountInv, Typed, Fields, States, New
  <1>2. req' = [req EXCEPT ![r] = new]
    BY DEF Arrives
  <1>3. Truthful(r, new)
    BY DEF Truthful, New
  <1> HIDE DEF new
  <1> QED
    BY <1>1, <1>2, <1>3, MovesOn

\* The statements of a setup.
LEMMA SetupInv == ASSUME AccountInv, NEW r \in Requests, Setup(r) PROVE AccountInv'
  <1>1. CASE BeginSetup(r)
    <2> DEFINE told == \E s \in Requests : Told(s)
               Came(email, password) ==
                   [New EXCEPT !.at = "check", !.email = email, !.password = password,
                               !.late = complete, !.told = told]
    <2>1. PICK email \in Emails, password \in Passwords : Arrives(r, Came(email, password))
      BY <1>1 DEF BeginSetup
    <2> DEFINE new == Came(email, password)
    <2>2. /\ new \in Fields /\ new.at = "check" /\ new.late = complete
          /\ new.email \in Emails /\ new.password \in Passwords
          /\ new.answer = 0 /\ new.told = told
      BY DEF AccountInv, Typed, Fields, States, New
    <2>3. req[r].at = "new" /\ req' = [req EXCEPT ![r] = new]
      BY <2>1 DEF Arrives
    <2>4. r \notin Ids
      BY <2>3 DEF AccountInv, AccountsAreMade
    <2>5. UNCHANGED <<complete, admins, tokens>>
      BY <1>1 DEF BeginSetup
    <2>6. Truthful(r, new)
      <3>1. told => complete
        BY DEF Told, AccountInv, AnswersAreTrue, Truthful
      <3> QED
        BY <2>2, <3>1 DEF Truthful, Created, Conflict
    <2> HIDE DEF new
    <2> QED
      BY <2>2, <2>3, <2>4, <2>5, <2>6, MovesOn
  <1>2. CASE CheckSetup(r)
    <2> DEFINE new == [req[r] EXCEPT !.at = "create"]
    <2>1. /\ ~complete /\ req[r].at = "check" /\ req' = [req EXCEPT ![r] = new]
          /\ UNCHANGED <<complete, admins, tokens>>
      BY <1>2 DEF CheckSetup, Proceed, AccountInv, Typed
    <2>2. /\ new \in Fields /\ new.at = "create" /\ new.late = req[r].late
          /\ new.answer = req[r].answer /\ new.told = req[r].told
          /\ new.email = req[r].email /\ new.password = req[r].password
      BY DEF AccountInv, Typed, Fields, States
    <2>3. ~req[r].late /\ r \notin Ids
      BY <2>1 DEF AccountInv, LateIsRefused, AccountsAreMade
    <2>4. req[r].email \in Emails /\ req[r].password \in Passwords
      BY <2>1 DEF AccountInv, Between
    <2>5. Truthful(r, new)
      BY <2>2 DEF AccountInv, AnswersAreTrue, Truthful
    <2> HIDE DEF new
    <2> QED
      BY <2>1, <2>2, <2>3, <2>4, <2>5, MovesOn
  <1>3. CASE AlreadyComplete(r) \/ FormRejected(r)
    BY <1>3, Answered
    DEF AlreadyComplete, FormRejected, Conflict, Rejected, Created, States
  <1>4. CASE CreateAdmin(r)
    <2>1. /\ ~Taken(req[r].email, r) /\ req[r].at = "create"
          /\ admins' = Inserted(r) /\ UNCHANGED <<complete, tokens>>
      BY <1>4 DEF CreateAdmin, Proceed, Answer
    <2> DEFINE Moved(new) ==
                 /\ new \in Fields /\ new.at \in {"complete", "end"}
                 /\ new.late = req[r].late /\ new.told = req[r].told
                 /\ new.answer \in {req[r].answer, Failed}
                 /\ new.email = req[r].email /\ new.password = req[r].password
    <2>2. req[r] \in Fields /\ Failed \in Nat
      BY DEF AccountInv, Typed, Failed
    <2>3. Moved([req[r] EXCEPT !.at = "complete"])
      BY <2>2 DEF Fields, States
    <2>4. Moved([req[r] EXCEPT !.at = "end", !.answer = Failed])
      BY <2>2 DEF Fields, States
    <2> HIDE DEF Moved
    <2>5. PICK new : Moved(new) /\ req' = [req EXCEPT ![r] = new]
      <3>1. CASE Proceed(r, "create", "complete")
        BY <2>3, <3>1 DEF Proceed, AccountInv, Typed
      <3>2. CASE Answer(r, "create", Failed)
        BY <2>4, <3>2 DEF Answer, AccountInv, Typed
      <3> QED
        BY <1>4, <3>1, <3>2 DEF CreateAdmin
    <2>6. /\ req' = [req EXCEPT ![r] = new]
          /\ new \in Fields /\ new.at \in {"complete", "end"} /\ new.late = req[r].late
          /\ new.told = req[r].told /\ new.answer \in {req[r].answer, Failed}
          /\ new.email = req[r].email /\ new.password = req[r].password
      BY <2>5 DEF Moved
    <2>7. /\ req[r].email \in Emails /\ req[r].password \in Passwords
          /\ r \notin Ids /\ ~req[r].late
      BY <2>1 DEF AccountInv, Between, AccountsAreMade, LateIsRefused
    <2>8. /\ Ids' = Ids \cup {r}
          /\ admins'[r] = [email |-> req[r].email, password |-> req[r].password]
          /\ \A a \in Ids : admins'[a] = admins[a]
      BY <2>1, <2>7 DEF Inserted, Ids
    <2>9. \A s \in Requests : req'[s] = IF s = r THEN new ELSE req[s]
      BY <2>6 DEF AccountInv, Typed
    <2>10. Typed'
      <3>1. admins' \in [Ids' -> Rows]
        BY <2>1, <2>7, <2>8 DEF AccountInv, Typed, Inserted, Rows, Ids
      <3> QED
        BY <2>1, <2>6, <2>8, <3>1 DEF AccountInv, Typed
    <2>11. Between' /\ AccountsAreMade'
      BY <2>1, <2>6, <2>7, <2>8, <2>9 DEF AccountInv, Between, AccountsAreMade
    <2>12. LateIsRefused' /\ SetupCloses'
      <3>1. \A s \in Requests : req'[s].late => s # r /\ req[s].late /\ req'[s] = req[s]
        BY <2>6, <2>7, <2>9
      <3>2. Ids \subseteq Requests /\ complete' = complete
        BY <2>1 DEF AccountInv, Typed
      <3> QED
        BY <2>8, <3>1, <3>2 DEF AccountInv, LateIsRefused, SetupCloses
    <2>13. HistoryIsKept'
      BY <2>1, <2>6, <2>8, <2>9 DEF AccountInv, HistoryIsKept, Between, Typed
    <2>14. SomebodyCanLogIn'
      BY <2>1, <2>8 DEF AccountInv, SomebodyCanLogIn
    <2>15. AnswersAreTrue'
      BY <2>1, <2>6, <2>8, <2>9
      DEF AccountInv, AnswersAreTrue, Truthful, Created, Conflict, Failed
    <2> QED
      BY <2>10, <2>11, <2>12, <2>13, <2>14, <2>15 DEF AccountInv
  <1>5. CASE CompleteSetup(r)
    <2>1. PICK status \in {Created, Failed} : Answer(r, "complete", status)
      BY <1>5 DEF CompleteSetup
    <2> DEFINE new == [req[r] EXCEPT !.at = "end", !.answer = status]
    <2>2. /\ complete' = TRUE /\ UNCHANGED admins /\ tokens \subseteq tokens'
          /\ tokens' \subseteq tokens \cup {r}
      BY <1>5 DEF CompleteSetup
    <2>3. req[r].at = "complete" /\ req' = [req EXCEPT ![r] = new] /\ r \in Ids
      BY <2>1 DEF Answer, AccountInv, Typed, AccountsAreMade
    <2>4. /\ new \in Fields /\ new.at = "end" /\ new.late = req[r].late
          /\ new.told = req[r].told
      <3>1. status \in Nat /\ req[r] \in Fields
        BY DEF AccountInv, Typed, Created, Failed
      <3> QED
        BY <3>1 DEF Fields, States
    <2> HIDE DEF new
    <2>5. \A s \in Requests : req'[s] = IF s = r THEN new ELSE req[s]
      BY <2>3 DEF AccountInv, Typed
    <2>6. Typed'
      BY <2>2, <2>3, <2>4 DEF AccountInv, Typed, Ids
    <2>7. Between' /\ AccountsAreMade' /\ HistoryIsKept'
      BY <2>2, <2>3, <2>4, <2>5 DEF AccountInv, Between, AccountsAreMade, HistoryIsKept, Ids
    <2>8. LateIsRefused' /\ SetupCloses' /\ SomebodyCanLogIn'
      BY <2>2, <2>3, <2>4, <2>5
      DEF AccountInv, Typed, LateIsRefused, SetupCloses, SomebodyCanLogIn, Ids
    <2>9. AnswersAreTrue'
      BY <2>2, <2>3, <2>4, <2>5 DEF AccountInv, AnswersAreTrue, Truthful, Ids
    <2> QED
      BY <2>6, <2>7, <2>8, <2>9 DEF AccountInv
  <1> QED
    BY <1>1, <1>2, <1>3, <1>4, <1>5 DEF Setup

\* Logins, profile edits and password changes.
LEMMA AccountKeepsInv == ASSUME AccountInv, NEW r \in Requests, Account(r) PROVE AccountInv'
  <1>1. CASE Login(r)
    <2>1. PICK a \in Ids :
              /\ Arrives(r, [New EXCEPT !.at = "end", !.id = a, !.answer = Success])
              /\ tokens' = tokens \cup {a}
      BY <1>1 DEF Login
    <2>2. UNCHANGED <<complete, admins>>
      BY <1>1 DEF Login
    <2> DEFINE new == [New EXCEPT !.at = "end", !.id = a, !.answer = Success]
    <2>3. /\ req' = [req EXCEPT ![r] = new] /\ new \in Fields
          /\ new.at = "end" /\ ~new.late /\ ~new.told /\ new.answer = Success
      <3>1. Success \in Nat
        BY DEF Success
      <3> QED
        BY <2>1, <3>1 DEF Arrives, New, Fields, States, AccountInv, Typed
    <2> HIDE DEF new
    <2>4. \A s \in Requests : req'[s] = IF s = r THEN new ELSE req[s]
      BY <2>3 DEF AccountInv, Typed
    <2>5. Typed'
      BY <2>1, <2>2, <2>3 DEF AccountInv, Typed, Ids
    <2>6. Between' /\ AccountsAreMade' /\ HistoryIsKept'
      BY <2>1, <2>2, <2>3, <2>4 DEF AccountInv, Between, AccountsAreMade, HistoryIsKept, Ids
    <2>7. LateIsRefused' /\ SetupCloses' /\ SomebodyCanLogIn'
      BY <2>2, <2>3, <2>4
      DEF AccountInv, Typed, LateIsRefused, SetupCloses, SomebodyCanLogIn, Ids
    <2>8. AnswersAreTrue'
      BY <2>2, <2>3, <2>4
      DEF AccountInv, AnswersAreTrue, Truthful, Created, Conflict, Success, Ids
    <2> QED
      BY <2>5, <2>6, <2>7, <2>8 DEF AccountInv
  <1>2. CASE UpdateProfile(r)
    <2>1. PICK a \in tokens, email \in Emails, status \in {Success, Failed} :
              /\ ~Taken(email, a)
              /\ Arrives(r, [New EXCEPT !.at = "end", !.id = a, !.answer = status])
              /\ admins' = [admins EXCEPT ![a].email = email]
      BY <1>2 DEF UpdateProfile
    <2>2. UNCHANGED <<complete, tokens>>
      BY <1>2 DEF UpdateProfile
    <2> DEFINE new == [New EXCEPT !.at = "end", !.id = a, !.answer = status]
    <2>3. /\ req' = [req EXCEPT ![r] = new] /\ new \in Fields
          /\ new.at = "end" /\ ~new.late /\ ~new.told /\ new.answer = status
      <3>1. status \in Nat /\ a \in Requests
        BY DEF Success, Failed, AccountInv, Typed
      <3> QED
        BY <2>1, <3>1 DEF Arrives, New, Fields, States
    <2> HIDE DEF new
    <2>4. \A s \in Requests : req'[s] = IF s = r THEN new ELSE req[s]
      BY <2>3 DEF AccountInv, Typed
    <2>5. /\ Ids' = Ids /\ a \in Ids
          /\ admins' \in [Ids -> Rows]
          /\ admins'[a].email = email /\ admins'[a].password = admins[a].password
          /\ \A b \in Ids \ {a} : admins'[b] = admins[b]
      BY <2>1 DEF AccountInv, Typed, Ids, Rows
    <2>6. Typed'
      BY <2>2, <2>3, <2>5 DEF AccountInv, Typed
    <2>7. Between' /\ AccountsAreMade'
      BY <2>2, <2>3, <2>4, <2>5 DEF AccountInv, Between, AccountsAreMade
    <2>8. HistoryIsKept'
      <3>1. \A b \in Ids : admins'[b].password = admins[b].password
        BY <2>5
      <3> QED
        BY <2>3, <2>4, <3>1 DEF AccountInv, Typed, Between, HistoryIsKept
    <2>9. LateIsRefused' /\ SetupCloses' /\ SomebodyCanLogIn'
      BY <2>2, <2>3, <2>4, <2>5
      DEF AccountInv, Typed, LateIsRefused, SetupCloses, SomebodyCanLogIn
    <2>10. AnswersAreTrue'
      BY <2>2, <2>3, <2>4, <2>5
      DEF AccountInv, AnswersAreTrue, Truthful, Created, Conflict, Success, Failed
    <2> QED
      BY <2>6, <2>7, <2>8, <2>9, <2>10 DEF AccountInv
  <1>3. CASE ProfileFails(r)
    <2>1. /\ Failed \in Nat /\ Failed \notin {Created, Conflict}
          /\ tokens \subseteq Ids
      BY DEF Failed, Created, Conflict, AccountInv, Typed
    <2> QED
      BY <1>3, <2>1, ArrivesAndEnds DEF ProfileFails
  <1>4. CASE BeginPassword(r)
    <2>1. PICK a \in tokens, current \in Passwords, next \in Passwords :
              Arrives(r, [New EXCEPT !.at = "compare", !.id = a, !.password = current,
                                     !.next = next, !.held = {admins[a].password}])
      BY <1>4 DEF BeginPassword
    <2> DEFINE new == [New EXCEPT !.at = "compare", !.id = a, !.password = current,
                                  !.next = next, !.held = {admins[a].password}]
    <2>2. a \in Requests /\ admins[a].password \in Passwords
      BY DEF AccountInv, Typed, Rows
    <2>3. /\ new \in Fields /\ new.at = "compare" /\ new.id = a /\ new.next = next
          /\ ~new.late /\ admins[a].password \in new.held
          /\ new.answer = 0 /\ ~new.told
      BY <2>2 DEF Fields, States, New
    <2>4. req[r].at = "new" /\ req' = [req EXCEPT ![r] = new]
      BY <2>1 DEF Arrives
    <2>5. r \notin Ids /\ UNCHANGED <<complete, admins, tokens>>
      BY <1>4, <2>4 DEF BeginPassword, AccountInv, AccountsAreMade
    <2>6. Truthful(r, new)
      BY <2>3 DEF Truthful, Created, Conflict
    <2> HIDE DEF new
    <2> QED
      BY <2>3, <2>4, <2>5, <2>6, MovesOn
  <1>5. CASE Compare(r)
    <2> DEFINE new == [req[r] EXCEPT !.at = "write"]
    <2>1. /\ req[r].at = "compare" /\ req[r].password = admins[req[r].id].password
          /\ req' = [req EXCEPT ![r] = new]
          /\ UNCHANGED <<complete, admins, tokens>>
      BY <1>5 DEF Compare, Proceed, AccountInv, Typed
    <2>2. req[r] \in Fields
      BY DEF AccountInv, Typed
    <2>3. /\ new \in Fields /\ new.at = "write" /\ new.late = req[r].late
          /\ new.id = req[r].id /\ new.next = req[r].next
          /\ new.password = req[r].password /\ new.held = req[r].held
          /\ new.answer = req[r].answer /\ new.told = req[r].told
      BY <2>2 DEF Fields, States
    <2>4. /\ req[r].id \in tokens /\ req[r].next \in Passwords
          /\ admins[req[r].id].password \in req[r].held
          /\ r \notin Ids /\ ~req[r].late
      BY <2>1 DEF AccountInv, Between, HistoryIsKept, AccountsAreMade, LateIsRefused
    <2>5. Truthful(r, new)
      BY <2>3 DEF AccountInv, AnswersAreTrue, Truthful
    <2> HIDE DEF new
    <2> QED
      BY <2>1, <2>3, <2>4, <2>5, MovesOn
  <1>6. CASE Incorrect(r) \/ NewRejected(r)
    BY <1>6, Answered DEF Incorrect, NewRejected, Rejected, Created, Conflict, States
  <1>7. CASE ChangePassword(r)
    <2> DEFINE a == req[r].id
    <2>1. PICK status \in {Success, Failed} :
            req' = [s \in Requests |->
              IF s = r THEN [req[r] EXCEPT !.at = "end", !.answer = status]
              ELSE IF req[s].id = a THEN [req[s] EXCEPT !.held = @ \cup {req[r].next}]
              ELSE req[s]]
      BY <1>7 DEF ChangePassword
    <2>2. /\ req[r].at = "write" /\ UNCHANGED <<complete, tokens>>
          /\ admins' = [admins EXCEPT ![a].password = req[r].next]
      BY <1>7 DEF ChangePassword
    <2>3. a \in Ids /\ req[r].next \in Passwords
      BY <2>2 DEF AccountInv, Typed, Between
    <2>4. /\ Ids' = Ids
          /\ admins' \in [Ids -> Rows]
          /\ admins'[a].password = req[r].next
          /\ \A b \in Ids : admins'[b].email = admins[b].email
          /\ \A b \in Ids \ {a} : admins'[b] = admins[b]
      BY <2>2, <2>3 DEF AccountInv, Typed, Ids, Rows
    <2>5. \A s \in Requests : req[s] \in Fields
      BY DEF AccountInv, Typed
    <2>6. status \in Nat
      BY DEF Success, Failed
    <2>7. /\ req'[r] \in Fields /\ req'[r].at = "end" /\ req'[r].late = req[r].late
          /\ req'[r].answer = status /\ req'[r].told = req[r].told
      BY <2>1, <2>5, <2>6 DEF Fields, States
    <2>8. ASSUME NEW s \in Requests \ {r}
          PROVE  /\ req'[s] \in Fields
                 /\ req'[s].at = req[s].at /\ req'[s].late = req[s].late
                 /\ req'[s].answer = req[s].answer /\ req'[s].told = req[s].told
                 /\ req'[s].id = req[s].id /\ req'[s].email = req[s].email
                 /\ req'[s].password = req[s].password /\ req'[s].next = req[s].next
                 /\ req[s].held \subseteq req'[s].held
                 /\ req[s].id = a => req[r].next \in req'[s].held
      <3>1. CASE req[s].id = a
        <4>1. req'[s] = [req[s] EXCEPT !.held = @ \cup {req[r].next}]
          BY <2>1, <3>1
        <4> QED
          BY <2>3, <2>5, <4>1 DEF Fields
      <3>2. CASE req[s].id # a
        BY <2>1, <2>5, <3>2
      <3> QED
        BY <3>1, <3>2
    <2>9. Typed'
      <3>1. req' \in [Requests -> Fields]
        BY <2>1, <2>7, <2>8
      <3> QED
        BY <2>2, <2>4, <3>1 DEF AccountInv, Typed
    <2>10. Between' /\ AccountsAreMade' /\ LateIsRefused'
      BY <2>2, <2>4, <2>7, <2>8 DEF AccountInv, Between, AccountsAreMade, LateIsRefused
    <2>11. HistoryIsKept'
      <3> SUFFICES ASSUME NEW s \in Requests, req'[s].at \in {"compare", "write"}
                   PROVE  /\ admins'[req'[s].id].password \in req'[s].held
                          /\ req'[s].at = "write" => req'[s].password \in req'[s].held
        BY DEF HistoryIsKept
      <3>1. s # r /\ req[s].at \in {"compare", "write"}
        BY <2>7, <2>8
      <3>2. /\ req[s].id \in Ids /\ admins[req[s].id].password \in req[s].held
            /\ req[s].at = "write" => req[s].password \in req[s].held
        BY <3>1 DEF AccountInv, Typed, Between, HistoryIsKept
      <3> QED
        BY <2>4, <2>8, <3>1, <3>2
    <2>12. SetupCloses' /\ SomebodyCanLogIn'
      BY <2>2, <2>4, <2>7, <2>8 DEF AccountInv, Typed, SetupCloses, SomebodyCanLogIn
    <2>13. AnswersAreTrue'
      BY <2>2, <2>4, <2>7, <2>8
      DEF AccountInv, AnswersAreTrue, Truthful, Created, Conflict, Success, Failed
    <2> QED
      BY <2>9, <2>10, <2>11, <2>12, <2>13 DEF AccountInv
  <1> QED
    BY <1>1, <1>2, <1>3, <1>4, <1>5, <1>6, <1>7 DEF Account

LEMMA StepAccountInv == AccountInv /\ [AccountNext]_accountVars => AccountInv'
  <1> SUFFICES ASSUME AccountInv, [AccountNext]_accountVars PROVE AccountInv'
    OBVIOUS
  <1>1. ASSUME NEW r \in Requests, StatementFails(r) PROVE AccountInv'
    BY <1>1, Answered DEF StatementFails, Failed, Created, Conflict, States
  <1>2. ASSUME NEW r \in Requests, ReadFails(r) PROVE AccountInv'
    BY <1>2, Answered DEF ReadFails, NotFound, Created, Conflict, States
  <1>3. CASE UNCHANGED accountVars
    BY <1>3 DEF accountVars, AccountInv, Typed, Between, AccountsAreMade, LateIsRefused,
                HistoryIsKept, AnswersAreTrue, Truthful, SomebodyCanLogIn, SetupCloses, Ids
  <1> QED
    BY <1>1, <1>2, <1>3, SetupInv, AccountKeepsInv DEF AccountNext

LEMMA AlwaysAccountInv == AccountSpec => []AccountInv
  BY InitAccountInv, StepAccountInv, PTL DEF AccountSpec

\* Whatever fails between the statements of however many setups, a complete setup has
\* left an account (setup.go:61-70).
THEOREM NobodyIsLockedOut == AccountSpec => []SomebodyCanLogIn
  <1>1. AccountInv => SomebodyCanLogIn
    BY DEF AccountInv
  <1> QED
    BY <1>1, AlwaysAccountInv, PTL

\* A setup that arrives when setup is complete never makes an account (setup.go:29-37).
THEOREM SetupIsClosed == AccountSpec => []SetupCloses
  <1>1. AccountInv => SetupCloses
    BY DEF AccountInv
  <1> QED
    BY <1>1, AlwaysAccountInv, PTL

\* What setups are answered holds, whatever fails between their statements: who was
\* answered 201 has an account, and after a first 201 or 409 no setup that begins makes
\* one (setup.go:28-97).
THEOREM SetupAnswersAreFinal == AccountSpec => []AnswersHold
  <1>1. AccountInv => AnswersHold
    BY DEF AccountInv, Typed, AnswersAreTrue, Truthful, SetupCloses, AnswersHold
  <1> QED
    BY <1>1, AlwaysAccountInv, PTL

\* Only a request that gave a password the account had since it arrived changes the
\* account's password (auth.go:119-163).
THEOREM PasswordsAreChangedByHolders == AccountSpec => ChangedByHolder
  <1> DEFINE A == \A a \in Ids : admins'[a].password # admins[a].password =>
                    \E r \in Requests : /\ req[r].at = "write" /\ req'[r].at = "end"
                                        /\ req[r].id = a /\ req[r].password \in req[r].held
  <1>1. AccountInv /\ [AccountNext]_accountVars => A
    <2> SUFFICES ASSUME AccountInv, [AccountNext]_accountVars, NEW a \in Ids,
                        admins'[a].password # admins[a].password
                 PROVE  \E r \in Requests : /\ req[r].at = "write" /\ req'[r].at = "end"
                                            /\ req[r].id = a
                                            /\ req[r].password \in req[r].held
      OBVIOUS
    <2>1. PICK r \in Requests : CreateAdmin(r) \/ UpdateProfile(r) \/ ChangePassword(r)
      BY DEF AccountNext, accountVars, Setup, Account, BeginSetup, CheckSetup, AlreadyComplete, FormRejected,
             CompleteSetup, Login, ProfileFails, BeginPassword, Compare, Incorrect,
             NewRejected, StatementFails, ReadFails
    <2>2. ~CreateAdmin(r)
      <3>1. CreateAdmin(r) => r \notin Ids
        BY DEF CreateAdmin, Proceed, Answer, AccountInv, AccountsAreMade
      <3> QED
        BY <3>1 DEF CreateAdmin, Inserted
    <2>3. ~UpdateProfile(r)
      BY ZenonT(60) DEF UpdateProfile, AccountInv, Typed, Ids, Rows
    <2>4. ChangePassword(r)
      BY <2>1, <2>2, <2>3
    <2>5. req[r].at = "write" /\ req[r].password \in req[r].held /\ req[r].id = a
      BY <2>4 DEF ChangePassword, AccountInv, HistoryIsKept, Typed, Ids
    <2>6. req'[r].at = "end"
      <3>1. PICK status \in {Success, Failed} :
                req'[r] = [req[r] EXCEPT !.at = "end", !.answer = status]
        BY <2>4 DEF ChangePassword
      <3> QED
        BY <3>1 DEF AccountInv, Typed, Fields
    <2> QED
      BY <2>5, <2>6
  <1>2. AccountInv /\ [AccountNext]_accountVars => [A]_accountVars
    BY <1>1
  <1> QED
    BY <1>2, AlwaysAccountInv, PTL DEF AccountSpec, ChangedByHolder
=============================================================================
