--------------------------- MODULE ProxyContract ---------------------------
(***************************************************************************)
(* What the proxy promises of each request, without its chain, its cache   *)
(* entries, its goroutines or its process: it is decided once, as an answer *)
(* or a failure; an answer is a provider's response to this very request or *)
(* the reuse of one to an earlier request; and at most one log row is       *)
(* written about it, only after it was decided.                            *)
(***************************************************************************)
CONSTANTS Requests, NoRequest

VARIABLES
    phase,    \* "new", "open", "answered", "failed", "dead"
    source,   \* the request whose provider response answers the request
    reusable, \* the requests whose response may answer another one
    ledger    \* "nothing", "owed", "written" or "lost"
vars == <<phase, source, reusable, ledger>>

Init ==
    /\ phase = [r \in Requests |-> "new"]
    /\ source = [r \in Requests |-> NoRequest]
    /\ reusable = {}
    /\ ledger = [r \in Requests |-> "nothing"]

Move(r, from, to) == phase[r] = from /\ phase' = [phase EXCEPT ![r] = to]
Owe(r) == ledger' = [ledger EXCEPT ![r] = "owed"]

Open(r) == Move(r, "new", "open") /\ UNCHANGED <<source, reusable, ledger>>
Refuse(r) == Move(r, "new", "failed") /\ UNCHANGED <<source, reusable, ledger>>

Answer(r) ==
    /\ Move(r, "open", "answered")
    /\ \E p \in reusable \cup {r} : source' = [source EXCEPT ![r] = p]
    /\ Owe(r)
    /\ UNCHANGED reusable

Fail(r) ==
    /\ Move(r, "open", "failed")
    /\ Owe(r) \/ UNCHANGED ledger
    /\ UNCHANGED <<source, reusable>>

Publish(r) ==
    /\ phase[r] = "answered" /\ source[r] = r
    /\ reusable' = reusable \cup {r}
    /\ UNCHANGED <<phase, source, ledger>>

Withdraw(r) == reusable' = reusable \ {r} /\ UNCHANGED <<phase, source, ledger>>

Write(r) ==
    /\ ledger[r] = "owed"
    /\ ledger' = [ledger EXCEPT ![r] = "written"]
    /\ UNCHANGED <<phase, source, reusable>>

Lose(r) ==
    /\ ledger[r] = "owed"
    /\ ledger' = [ledger EXCEPT ![r] = "lost"]
    /\ UNCHANGED <<phase, source, reusable>>

\* The process ends: open requests die, rows not yet written are lost.
Stop ==
    /\ phase' = [r \in Requests |-> IF phase[r] = "open" THEN "dead" ELSE phase[r]]
    /\ ledger' = [r \in Requests |-> IF ledger[r] = "owed" THEN "lost" ELSE ledger[r]]
    /\ UNCHANGED <<source, reusable>>

Next ==
    \/ \E r \in Requests :
         \/ Open(r) \/ Refuse(r) \/ Answer(r) \/ Fail(r)
         \/ Publish(r) \/ Withdraw(r) \/ Write(r) \/ Lose(r)
    \/ Stop

Spec == Init /\ [][Next]_vars
=============================================================================
