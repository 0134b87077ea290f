------------------------------ MODULE Browser ------------------------------
(***************************************************************************)
(* A tab of the dashboard: the page on screen, what the page keeps while it *)
(* is mounted, and the calls it has made.  A call goes through the route    *)
(* handler to the backend, which makes the reads or the edit it stands for  *)
(* one by one; its answer is applied when it comes, in any order, and it    *)
(* may fail before or after the backend did its work.  Leaving a page       *)
(* forgets what the page kept; answers to its calls no longer show, but     *)
(* what they ask the backend to do may still be done.                       *)
(***************************************************************************)
EXTENDS Integers, Sequences, FiniteSets

CONSTANTS
    MaxCalls,  \* calls of the tab at one time
    MaxClicks, \* page -> what the user does on it
    None

ASSUME BrowserAssumption == MaxCalls \in Nat /\ \A p \in DOMAIN MaxClicks : MaxClicks[p] \in Nat

VARIABLES
    at,     \* the page on screen
    ui,     \* its state
    calls,  \* [id, kind, arg, todo, res, here, fresh]
    clicks,
    doubt   \* history: what is shown came from an answer that was overtaken, or a
            \* call failed, or somebody else edited since

browser == <<at, ui, calls, clicks, doubt>>

\* The calls that make the backend change something.
Edits == {"flush", "saveModel", "deleteModel", "toggleModel", "saveChain", "deleteChain",
          "createKey", "deleteKey", "toggleKey"}

\* todo: the parts the backend has still to do; res: what the others gave.
\* here: the page that asked still waits.  fresh: history, nothing was edited since
\* the backend did its part, and the page would ask for the same still.
Call(kind, arg, todo) ==
    [id |-> CHOOSE i \in 1..MaxCalls : \A c \in calls : c.id # i,
     kind |-> kind, arg |-> arg, todo |-> todo, res |-> <<>>, here |-> TRUE, fresh |-> TRUE]

Room == Cardinality(calls) < MaxCalls
Waiting == {c \in calls : c.here}
Click == clicks < MaxClicks[at] /\ clicks' = clicks + 1

-----------------------------------------------------------------------------
(* The backend. *)

\* The calls when the backend did part p of c, with result r.
Did(c, p, r) ==
    [c EXCEPT !.todo = @ \ {p}, !.res = [q \in DOMAIN @ \cup {p} |-> IF q = p THEN r ELSE @[q]]]
Served(c, p, r) == (calls \ {c}) \cup {Did(c, p, r)}

\* An edit of row i made stale what was read before it, and what an earlier edit of
\* that row answers.
Outdated(cs, i) ==
    {[d EXCEPT !.fresh = @ /\ (d.res = <<>> \/ (d.kind \in Edits /\ d.arg.id # i))] : d \in cs}
\* c is carried out: the page that waits for it will know, one that is gone will not.
Edit(c, p, r) ==
    /\ calls' = (Outdated(calls \ {c}, c.arg.id) \cup (IF c.here THEN {Did(c, p, r)} ELSE {}))
    /\ doubt' = (doubt \/ ~c.here)

-----------------------------------------------------------------------------
(* The page. *)

Ask(c) == Room /\ calls' = calls \cup {c}

Answered(c) == c.here /\ c.todo = {}
\* The page's await goes on, with s as the page's state.
Resume(c, s) == ui' = s /\ calls' = calls \ {c} /\ UNCHANGED <<at, clicks>>

\* The backend refused, an answer was lost, or the call never came there: the await
\* throws.  An edit may be carried out later.
Left(c) == IF c.kind \in Edits /\ c.todo # {} THEN {[c EXCEPT !.here = FALSE]} ELSE {}
Throw(c, s) ==
    /\ c.here
    /\ ui' = s
    /\ calls' = (calls \ {c}) \cup Left(c)
    /\ doubt' = (doubt \/ c.kind \notin Edits \/ c.res # <<>>)
    /\ UNCHANGED <<at, clicks>>

\* A link of the sidebar: the page p mounts with state s.
Visit(p, s) ==
    /\ at' = p /\ ui' = s /\ doubt' = FALSE /\ UNCHANGED clicks
    /\ calls' = UNION {Left(c) : c \in calls}

\* The backend will never carry out the call of a page that is gone.
Forget(c) == ~c.here /\ calls' = calls \ {c} /\ UNCHANGED <<at, ui, clicks, doubt>>
=============================================================================
