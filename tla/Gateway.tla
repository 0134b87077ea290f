------------------------------ MODULE Gateway ------------------------------
(***************************************************************************)
(* What a request to the proxy API passes before its handler: APIKeyAuth,  *)
(* then RateLimit for the key that was found.  There is one key: the rows   *)
(* and sorted sets of others are apart.                                    *)
(***************************************************************************)
EXTENDS ApiKeys, RateLimit

ASSUME GatewayAssumption == Cardinality(Keys) = 1 /\ Conns = Handlers

Init == KeysInit /\ LimitInit

\* The key check and the keys' administration.
Keyed ==
    /\ \/ \E k \in Keys : EditKey(k)
       \/ \E h \in Handlers : Check(h)
       \/ \E k \in touches : UpdateAPIKeyLastUsed(k)
    /\ UNCHANGED limitVars

Enter(h) ==
    /\ gate[h].at = "admitted"
    /\ Arrive(h)
    /\ UNCHANGED keyVars

Limited(h) ==
    \/ (Remove(h) \/ Count(h) \/ Add(h) \/ Resend(h)) /\ UNCHANGED keyVars
    \/ (Decide(h) \/ Break(h)) /\ Depart(h) /\ UNCHANGED <<keys, made, touches, edits>>

Next ==
    \/ Keyed
    \/ \E h \in Handlers : Enter(h) \/ Limited(h)
    \/ (Tick \/ KeyExpires) /\ UNCHANGED keyVars

Spec == Init /\ [][Next]_<<keyVars, limitVars>>
=============================================================================
