--------------------------- MODULE ConsoleProofs ----------------------------
(***************************************************************************)
(* Theorems about the pages that edit the catalog and the keys, for any    *)
(* tables, any number of calls, clicks and edits of others, and any bodies *)
(* the dialogs offer.                                                      *)
(***************************************************************************)
EXTENDS Console, SequenceLemmas

(* The invariant.                                                           *)

\* The parts of the backend's work on a call, and the calls a page makes.
Parts(kind) ==
    CASE kind = "models" -> {"models"}
      [] kind = "chains" -> {"chains", "models"}
      [] kind = "keys" -> {"keys"}
      [] kind = "saveChain" -> {"begin", "write"}
      [] OTHER -> {"edit"}
KindsOn(page) ==
    CASE page = "models" -> {"models", "saveModel", "deleteModel", "toggleModel"}
      [] page = "chains" -> {"chains", "saveChain", "deleteChain"}
      [] page = "keys" -> {"keys", "createKey", "deleteKey", "toggleKey"}

Carried(c) == c.todo = {}
CallFields == {"id", "kind", "arg", "todo", "res", "here", "fresh"}
\* A call gave the results of the parts that were done; one that no page waits for is an
\* edit that is still to be carried out.
CallOK(c) ==
    /\ DOMAIN c = CallFields
    /\ c.kind \in KindsOn(at)
    /\ c.here \in BOOLEAN /\ c.fresh \in BOOLEAN
    /\ c.todo \subseteq Parts(c.kind)
    /\ DOMAIN c.res = Parts(c.kind) \ c.todo
    /\ c.todo = Parts(c.kind) => c.res = <<>>
    /\ ~c.here => c.kind \in Edits /\ ~Carried(c)
CallsOK == IsFiniteSet(calls) /\ \A c \in calls : CallOK(c)

\* The page of the models.
IsModel(r) ==
    r = [names |-> r.names, tags |-> r.tags, priority |-> r.priority, active |-> r.active]
ModelTable(t) ==
    /\ t = [m \in DOMAIN t |-> t[m]]
    /\ DOMAIN t \subseteq 1..created.models
    /\ \A m \in DOMAIN t : IsModel(t[m])
ModelCall(c) ==
    /\ c.kind = "models" /\ Carried(c) =>
         ModelTable(c.res["models"]) /\ (c.fresh => c.res["models"] = models)
    /\ c.kind = "saveModel" => c.arg.id = c.arg.meant
    /\ c.kind = "toggleModel" =>
         /\ c.arg.id \in 1..created.models
         /\ Carried(c) /\ c.fresh /\ c.arg.id \in DOMAIN models =>
              models[c.arg.id].active = c.arg.active
\* The page waits for a listing, or will ask for one.
Unlisted == doubt \/ ui.due \/ \E c \in calls : c.kind = at
ToReload(kinds) == \E c \in calls : c.kind \in kinds /\ Carried(c)
\* A row is shown as it is, but for a switch whose answer is to come.
RowShown(m) ==
    /\ ui.list[m].names = models[m].names
    /\ ui.list[m].tags = models[m].tags
    /\ ui.list[m].priority = models[m].priority
    /\ \/ ui.list[m].active = models[m].active
       \/ \E c \in calls : c.kind = "toggleModel" /\ Carried(c) /\ c.arg.id = m
ModelsAgree ==
    ~Unlisted /\ ~ToReload({"saveModel", "deleteModel"}) =>
        DOMAIN ui.list = DOMAIN models /\ \A m \in DOMAIN models : RowShown(m)
ModelsInv ==
    /\ DOMAIN ui = {"list", "loading", "due", "open", "editing", "form", "saving", "meant"}
    /\ created.models \in Nat
    /\ DOMAIN created = {"models", "chains"}
    /\ ModelTable(models) /\ ModelTable(ui.list)
    /\ ui.editing = ui.meant
    /\ \A c \in calls : ModelCall(c)
    /\ ModelsAgree

\* The page of the chains.
ChainOK(r) == "ids" \in DOMAIN r /\ r.ids \in Seq(Nat) /\ IsInjective(r.ids)
ChainTable(t) == \A i \in DOMAIN t : ChainOK(t[i])
ChainCall(c) ==
    /\ c.id \in Admins
    /\ c.kind = "chains" /\ "chains" \notin c.todo =>
         ChainTable(c.res["chains"]) /\ (c.fresh => c.res["chains"] = chains)
    /\ c.kind = "chains" /\ "models" \notin c.todo =>
         DOMAIN c.res["models"] \subseteq Nat /\ (c.fresh => c.res["models"] = models)
    /\ c.kind = "saveChain" =>
         /\ c.arg.id = c.arg.meant /\ ChainOK(c.arg.body)
         /\ "begin" \in c.todo => "write" \in c.todo
\* The answer of an edit that changed a table, or may have, is to come.
Pending(c) ==
    c.here /\ \/ c.kind = "saveChain" /\ "begin" \notin c.todo
              \/ c.kind = "deleteChain" /\ Carried(c)
OpsOK == DOMAIN op = Admins /\ \A a \in Admins : /\ DOMAIN op[a] = {"at", "id", "body"}
                                                 /\ op[a].at # "idle" => ChainOK(op[a].body)
ChainsAgree ==
    ~Unlisted /\ (\A c \in calls : ~Pending(c)) => ui.list = chains /\ ui.models = models
ChainsInv ==
    /\ DOMAIN ui = {"list", "models", "loading", "due", "open", "editing", "form", "saving",
                    "meant"}
    /\ DOMAIN models \subseteq Nat /\ DOMAIN ui.models \subseteq Nat
    /\ OpsOK
    /\ ChainTable(chains) /\ ChainTable(ui.list) /\ ChainOK(ui.form)
    /\ ui.open => ui.editing = ui.meant
    /\ \A c \in calls : ChainCall(c)
    /\ ChainsAgree

\* The page of the keys.
KeyTable(t) == t = [k \in DOMAIN t |-> t[k]] /\ DOMAIN t \subseteq 1..made
KeyCall(c) ==
    /\ c.kind = "keys" /\ Carried(c) =>
         KeyTable(c.res["keys"]) /\ (c.fresh => c.res["keys"] = keys)
    /\ c.kind = "createKey" =>
         /\ Carried(c) => c.res["edit"] \in Nat
         /\ c.here => ui.open \/ ui.left
    /\ c.kind = "toggleKey" =>
         /\ c.arg.id \in 1..made
         /\ Carried(c) /\ c.fresh /\ c.arg.id \in DOMAIN keys => keys[c.arg.id] = c.arg.active
KeyShown(k) ==
    \/ ui.list[k] = keys[k]
    \/ \E c \in calls : c.kind = "toggleKey" /\ Carried(c) /\ c.arg.id = k
KeysAgree ==
    ~Unlisted /\ ~ToReload({"createKey", "deleteKey"}) =>
        DOMAIN ui.list = DOMAIN keys /\ \A k \in DOMAIN keys : KeyShown(k)
KeysPageInv ==
    /\ DOMAIN ui = {"list", "loading", "due", "open", "name", "saving", "newKey", "left"}
    /\ made \in Nat
    /\ KeyTable(keys) /\ KeyTable(ui.list)
    /\ \A c \in calls : KeyCall(c)
    /\ KeysAgree

ConsoleInv ==
    /\ at \in Pages
    /\ CallsOK
    /\ at = "models" => ModelsInv
    /\ at = "chains" => ChainsInv
    /\ at = "keys" => KeysPageInv
    /\ told \subseteq seen

-----------------------------------------------------------------------------
(* What becomes of calls.                                                   *)

SameCall(d, e) ==
    d.id = e.id /\ d.kind = e.kind /\ d.arg = e.arg /\ d.todo = e.todo /\ d.res = e.res
    /\ d.here = e.here

LEMMA SomeParts == \A kind : Parts(kind) # {}
BY DEF Parts

LEMMA NothingDone ==
    ASSUME NEW c, CallOK(c)
    PROVE  c.res = <<>> <=> c.todo = Parts(c.kind)
<1>1. DOMAIN <<>> = {}
  OBVIOUS
<1>2. c.res = <<>> => c.todo = Parts(c.kind)
  BY <1>1 DEF CallOK
<1> QED BY <1>2 DEF CallOK

\* A call made stale stays the call it was.
LEMMA OutdatedOK ==
    ASSUME NEW cs, \A c \in cs : CallOK(c), NEW i, NEW d \in Outdated(cs, i)
    PROVE  /\ CallOK(d)
           /\ \E e \in cs : /\ SameCall(d, e)
                            /\ d.fresh => /\ e.fresh
                                          /\ \/ e.todo = Parts(e.kind)
                                             \/ e.kind \in Edits /\ e.arg.id # i
<1>1. PICK e \in cs :
        d = [e EXCEPT !.fresh = @ /\ (e.res = <<>> \/ (e.kind \in Edits /\ e.arg.id # i))]
  BY DEF Outdated
<1>2. CallOK(e)
  OBVIOUS
<1>3. /\ DOMAIN d = CallFields /\ SameCall(d, e)
      /\ d.fresh = (e.fresh /\ (e.res = <<>> \/ (e.kind \in Edits /\ e.arg.id # i)))
  BY <1>1, <1>2 DEF CallOK, CallFields, SameCall
<1>4. d.fresh \in BOOLEAN
  BY <1>2, <1>3 DEF CallOK
<1>5. CallOK(d)
  BY <1>2, <1>3, <1>4 DEF CallOK, SameCall, Carried
<1>6. e.res = <<>> <=> e.todo = Parts(e.kind)
  BY <1>2, NothingDone
<1> QED BY <1>3, <1>5, <1>6

LEMMA OutdatedAll ==
    ASSUME NEW cs, \A c \in cs : CallOK(c), NEW i, NEW e \in cs
    PROVE  \E d \in Outdated(cs, i) : SameCall(d, e)
<1> DEFINE d == [e EXCEPT !.fresh = @ /\ (e.res = <<>> \/ (e.kind \in Edits /\ e.arg.id # i))]
<1>1. d \in Outdated(cs, i)
  BY DEF Outdated
<1>2. DOMAIN e = CallFields
  BY DEF CallOK
<1>3. SameCall(d, e)
  BY <1>2 DEF SameCall, CallFields
<1> QED BY <1>1, <1>3

\* A part of a call is done.
LEMMA DidOK ==
    ASSUME NEW c, CallOK(c), NEW p \in Parts(c.kind), NEW r,
           c.here \/ \E q \in c.todo : q # p
    PROVE  LET d == Did(c, p, r)
           IN  /\ CallOK(d)
               /\ d.id = c.id /\ d.kind = c.kind /\ d.arg = c.arg /\ d.here = c.here
               /\ d.fresh = c.fresh
               /\ d.todo = c.todo \ {p}
               /\ d.res[p] = r /\ \A q \in DOMAIN c.res : q # p => d.res[q] = c.res[q]
<1> DEFINE d == Did(c, p, r)
<1>1. /\ DOMAIN d = CallFields
      /\ d.id = c.id /\ d.kind = c.kind /\ d.arg = c.arg /\ d.here = c.here
      /\ d.fresh = c.fresh /\ d.todo = c.todo \ {p}
  BY DEF CallOK, CallFields, Did
<1>2. d.res = [q \in DOMAIN c.res \cup {p} |-> IF q = p THEN r ELSE c.res[q]]
  BY DEF CallOK, CallFields, Did
<1>3. DOMAIN c.res = Parts(c.kind) \ c.todo
  BY DEF CallOK
<1> HIDE DEF d
<1>4. DOMAIN d.res = Parts(d.kind) \ d.todo
  BY <1>1, <1>2, <1>3 DEF CallOK
<1>5. d.todo \subseteq Parts(d.kind) /\ d.todo # Parts(d.kind)
  BY <1>1, <1>3 DEF CallOK
<1>6. ~d.here => d.kind \in Edits /\ d.todo # {}
  BY <1>1 DEF CallOK
<1>7. CallOK(d)
  BY <1>1, <1>4, <1>5, <1>6 DEF CallOK, Carried
<1>8. d.res[p] = r /\ \A q \in DOMAIN c.res : q # p => d.res[q] = c.res[q]
  BY <1>2, <1>3
<1> QED BY <1>1, <1>7, <1>8 DEF d

LEMMA DidLast ==
    ASSUME NEW c, CallOK(c), c.here, NEW p \in Parts(c.kind), NEW r
    PROVE  LET d == Did(c, p, r)
           IN  /\ CallOK(d)
               /\ d.id = c.id /\ d.kind = c.kind /\ d.arg = c.arg /\ d.here
               /\ d.res[p] = r
               /\ (\A q \in c.todo : q = p) => Carried(d)
<1> DEFINE d == Did(c, p, r)
<1>1. CallOK(d)
  BY DidOK
<1>2. d.id = c.id /\ d.kind = c.kind /\ d.arg = c.arg
  BY DidOK
<1>6. d.here
  BY DEF Did, CallOK, CallFields
<1>3. d.todo = c.todo \ {p}
  BY DEF Did, CallOK, CallFields
<1>4. d.res[p] = r
  BY DidOK
<1> HIDE DEF d
<1>5. (\A q \in c.todo : q = p) => d.todo = {}
  BY <1>3
<1> QED BY <1>1, <1>2, <1>4, <1>5, <1>6 DEF d, Carried

\* The page leaves: an edit may still be to be carried out.
LEMMA LeftOK ==
    ASSUME NEW c, CallOK(c), NEW d \in Left(c)
    PROVE  /\ CallOK(d)
           /\ d.id = c.id /\ d.kind = c.kind /\ d.arg = c.arg /\ d.todo = c.todo
           /\ d.res = c.res /\ d.fresh = c.fresh /\ ~d.here
           /\ c.kind \in Edits /\ ~Carried(d)
<1>1. c.kind \in Edits /\ c.todo # {} /\ d = [c EXCEPT !.here = FALSE]
  BY DEF Left
<1>2. /\ DOMAIN d = CallFields
      /\ d.id = c.id /\ d.kind = c.kind /\ d.arg = c.arg /\ d.todo = c.todo
      /\ d.res = c.res /\ d.fresh = c.fresh /\ d.here = FALSE
  BY <1>1 DEF CallOK, CallFields
<1>3. CallOK(d)
  BY <1>1, <1>2 DEF CallOK, Carried
<1> QED BY <1>1, <1>2, <1>3 DEF Carried

\* A call is made: one of the identities is free.
LEMMA NewOK ==
    ASSUME CallsOK, Room, NEW kind \in KindsOn(at), NEW arg
    PROVE  LET d == Call(kind, arg, Parts(kind))
           IN  /\ CallOK(d)
               /\ d.id \in 1..MaxCalls /\ d.kind = kind /\ d.arg = arg /\ d.todo = Parts(kind)
               /\ d.here
<1> DEFINE d == Call(kind, arg, Parts(kind))
           ids == {c.id : c \in calls}
<1>1. \E i \in 1..MaxCalls : \A c \in calls : c.id # i
  <2>1. IsFiniteSet(ids) /\ Cardinality(ids) <= Cardinality(calls)
    <3> DEFINE f == [c \in calls |-> c.id]
    <3>1. f \in Surjection(calls, ids)
      BY DEF Surjection
    <3> HIDE DEF f
    <3> QED BY <3>1, FS_Surjection DEF CallsOK
  <2>2. MaxCalls \in Nat
    BY BrowserAssumption
  <2>3. IsFiniteSet(1..MaxCalls) /\ Cardinality(1..MaxCalls) = MaxCalls
    BY <2>2, FS_Interval
  <2> DEFINE n == Cardinality(ids)
             k == Cardinality(calls)
  <2>4. n \in Nat /\ k \in Nat /\ n <= k /\ k < MaxCalls
    BY <2>1, FS_CardinalityType DEF CallsOK, Room
  <2>5. ~(1..MaxCalls \subseteq ids)
    <3>1. 1..MaxCalls \subseteq ids => Cardinality(1..MaxCalls) <= Cardinality(ids)
      BY <2>1, FS_Subset
    <3>2. 1..MaxCalls \subseteq ids => MaxCalls <= n
      BY <2>3, <3>1
    <3> HIDE DEF n, k
    <3> QED BY <2>2, <2>4, <3>2
  <2> QED BY <2>5
<1>2. /\ d.id \in 1..MaxCalls /\ d.kind = kind /\ d.arg = arg /\ d.todo = Parts(kind)
      /\ d.here = TRUE /\ d.fresh = TRUE /\ d.res = <<>> /\ DOMAIN d = CallFields
  BY <1>1 DEF Call, CallFields
<1>3. DOMAIN <<>> = {}
  OBVIOUS
<1> HIDE DEF d
<1>4. CallOK(d)
  BY <1>2, <1>3 DEF CallOK
<1> QED BY <1>2, <1>4 DEF d

\* There are finitely many calls, whatever happens to them.
LEMMA FinitelyMany ==
    ASSUME IsFiniteSet(calls)
    PROVE  /\ \A c : IsFiniteSet(calls \ {c})
           /\ \A c : IsFiniteSet(calls \cup {c})
           /\ \A c, d : IsFiniteSet((calls \ {c}) \cup {d})
           /\ \A c, d : IsFiniteSet((calls \ {c}) \cup Left(d))
           /\ \A i : IsFiniteSet(Outdated(calls, i))
           /\ \A c, i : IsFiniteSet(Outdated(calls \ {c}, i))
           /\ \A c, d, i : IsFiniteSet(Outdated(calls \ {c}, i) \cup {d})
           /\ IsFiniteSet(UNION {Left(c) : c \in calls})
<1>1. ASSUME NEW c PROVE IsFiniteSet(calls \ {c})
  BY FS_Subset
<1>2. \A S, d : IsFiniteSet(S) => IsFiniteSet(S \cup {d})
  BY FS_AddElement
<1>3. ASSUME NEW S, IsFiniteSet(S), NEW i PROVE IsFiniteSet(Outdated(S, i))
  <2> DEFINE f == [c \in S |->
         [c EXCEPT !.fresh = @ /\ (c.res = <<>> \/ (c.kind \in Edits /\ c.arg.id # i))]]
  <2>1. f \in Surjection(S, Outdated(S, i))
    BY DEF Outdated, Surjection
  <2> HIDE DEF f
  <2> QED BY <1>3, <2>1, FS_Surjection
<1>4. ASSUME NEW S, IsFiniteSet(S), NEW d PROVE IsFiniteSet(S \cup Left(d))
  <2>1. Left(d) \subseteq {[d EXCEPT !.here = FALSE]}
    BY DEF Left
  <2>2. S \cup Left(d) \subseteq S \cup {[d EXCEPT !.here = FALSE]}
    BY <2>1
  <2> QED BY <1>2, <1>4, <2>2, FS_Subset
<1>5. IsFiniteSet(UNION {Left(c) : c \in calls})
  <2> DEFINE gone == {[c EXCEPT !.here = FALSE] : c \in calls}
  <2>1. IsFiniteSet(gone)
    <3> DEFINE f == [c \in calls |-> [c EXCEPT !.here = FALSE]]
    <3>1. f \in Surjection(calls, gone)
      BY DEF Surjection
    <3> HIDE DEF f, gone
    <3> QED BY <3>1, FS_Surjection
  <2>2. UNION {Left(c) : c \in calls} \subseteq gone
    BY DEF Left
  <2> QED BY <2>1, <2>2, FS_Subset
<1> QED BY <1>1, <1>2, <1>3, <1>4, <1>5

LEMMA CallsKept ==
    ASSUME at' = at, IsFiniteSet(calls'), \A d \in calls' : CallOK(d)
    PROVE  CallsOK'
<1>1. \A d \in calls' : CallOK(d)'
  BY DEF CallOK
<1> QED BY <1>1 DEF CallsOK

LEMMA CallsAsked ==
    ASSUME CallsOK, at' = at, NEW kind \in KindsOn(at), NEW arg,
           Ask(Call(kind, arg, Parts(kind)))
    PROVE  CallsOK'
<1>1. Room /\ calls' = calls \cup {Call(kind, arg, Parts(kind))}
  BY DEF Ask
<1> DEFINE d == Call(kind, arg, Parts(kind))
<1>2. CallOK(d)
  BY <1>1, NewOK
<1> HIDE DEF d
<1>3. IsFiniteSet(calls') /\ \A e \in calls' : CallOK(e)
  BY <1>1, <1>2, FinitelyMany DEF CallsOK, d
<1> QED BY <1>3, CallsKept

LEMMA CallsServed ==
    ASSUME CallsOK, at' = at, NEW c \in calls, NEW p \in Parts(c.kind), NEW r,
           c.here \/ \E q \in c.todo : q # p, calls' = Served(c, p, r)
    PROVE  CallsOK'
<1> DEFINE d == Did(c, p, r)
<1>1. CallOK(c)
  BY DEF CallsOK
<1>2. CallOK(d)
  BY <1>1, DidOK
<1> HIDE DEF d
<1>3. calls' = (calls \ {c}) \cup {d}
  BY DEF Served, d
<1>4. IsFiniteSet(calls') /\ \A e \in calls' : CallOK(e)
  <2>1. IsFiniteSet((calls \ {c}) \cup {d})
    BY FinitelyMany DEF CallsOK
  <2> QED BY <1>2, <1>3, <2>1 DEF CallsOK
<1> QED BY <1>4, CallsKept

LEMMA CallsEdited ==
    ASSUME CallsOK, NEW c \in calls, NEW p \in Parts(c.kind), NEW r, \A q \in c.todo : q = p,
           Edit(c, p, r)
    PROVE  /\ at' = at => CallsOK'
           /\ \A d \in calls' :
                \/ CallOK(d) /\ \E e \in calls \ {c} :
                     /\ SameCall(d, e)
                     /\ d.fresh => /\ e.fresh
                                   /\ \/ e.todo = Parts(e.kind)
                                      \/ e.kind \in Edits /\ e.arg.id # c.arg.id
                \/ CallOK(d) /\ d.kind = c.kind /\ d.arg = c.arg /\ Carried(d) /\ d.res[p] = r
                   /\ d.id = c.id
           /\ \A e \in calls \ {c} : \E d \in calls' : SameCall(d, e)
           /\ ~doubt' => /\ ~doubt
                         /\ \E d \in calls' : /\ d.kind = c.kind /\ d.arg = c.arg
                                              /\ Carried(d) /\ d.here
<1> DEFINE i == c.arg.id
           cs == calls \ {c}
           did == Did(c, p, r)
<1>1. /\ calls' = Outdated(cs, i) \cup (IF c.here THEN {did} ELSE {})
      /\ doubt' = (doubt \/ ~c.here)
  BY DEF Edit
<1>2. CallOK(c) /\ (\A e \in cs : CallOK(e)) /\ IsFiniteSet(calls)
  BY DEF CallsOK
<1>3. c.here => /\ CallOK(did) /\ did.kind = c.kind /\ did.arg = c.arg /\ did.here
                /\ Carried(did) /\ did.res[p] = r /\ did.id = c.id
  BY <1>2, DidLast
<1> HIDE DEF did
<1>5. ASSUME NEW d \in calls'
      PROVE  \/ CallOK(d) /\ \E e \in cs :
                  /\ SameCall(d, e)
                  /\ d.fresh => /\ e.fresh
                                /\ e.todo = Parts(e.kind) \/ (e.kind \in Edits /\ e.arg.id # i)
             \/ CallOK(d) /\ d.kind = c.kind /\ d.arg = c.arg /\ Carried(d) /\ d.res[p] = r
                /\ d.id = c.id
  <2>1. CASE d \in Outdated(cs, i)
    BY <1>2, <2>1, OutdatedOK
  <2>2. CASE c.here /\ d = did
    BY <1>3, <2>2
  <2> QED BY <1>1, <2>1, <2>2
<1>6. \A e \in cs : \E d \in calls' : SameCall(d, e)
  <2>1. \A e \in cs : \E d \in Outdated(cs, i) : SameCall(d, e)
    BY <1>2, OutdatedAll
  <2> QED BY <1>1, <2>1
<1>7. ~doubt' => ~doubt /\ \E d \in calls' : d.kind = c.kind /\ d.arg = c.arg /\ Carried(d) /\ d.here
  BY <1>1, <1>3
<1>8. IsFiniteSet(calls')
  <2>1. IsFiniteSet(Outdated(calls \ {c}, i)) /\ IsFiniteSet(Outdated(calls \ {c}, i) \cup {did})
    BY <1>2, FinitelyMany
  <2>2. calls' = Outdated(calls \ {c}, i) \/ calls' = Outdated(calls \ {c}, i) \cup {did}
    BY <1>1
  <2> QED BY <2>1, <2>2
<1>9. at' = at => CallsOK'
  BY <1>5, <1>8, CallsKept
<1> QED BY <1>5, <1>6, <1>7, <1>9

LEMMA CallsRemoved ==
    ASSUME CallsOK, at' = at, NEW c, calls' = calls \ {c}
    PROVE  CallsOK'
<1>1. IsFiniteSet(calls') /\ \A d \in calls' : CallOK(d)
  BY FinitelyMany DEF CallsOK
<1> QED BY <1>1, CallsKept

LEMMA CallsThrown ==
    ASSUME CallsOK, at' = at, NEW c \in calls, calls' = (calls \ {c}) \cup Left(c)
    PROVE  CallsOK'
<1>1. CallOK(c)
  BY DEF CallsOK
<1>2. \A d \in Left(c) : CallOK(d)
  BY <1>1, LeftOK
<1>3. IsFiniteSet(calls') /\ \A d \in calls' : CallOK(d)
  BY <1>2, FinitelyMany DEF CallsOK
<1> QED BY <1>3, CallsKept

LEMMA CallsOutdated ==
    ASSUME CallsOK, at' = at, NEW i, calls' = Outdated(calls, i)
    PROVE  CallsOK'
<1>1. \A c \in calls : CallOK(c)
  BY DEF CallsOK
<1>2. \A d \in calls' : CallOK(d)
  BY <1>1, OutdatedOK
<1>3. IsFiniteSet(calls')
  BY FinitelyMany DEF CallsOK
<1> QED BY <1>2, <1>3, CallsKept

LEMMA CallsLeft ==
    ASSUME CallsOK, at' = at, calls' = UNION {Left(c) : c \in calls}
    PROVE  CallsOK'
<1>1. ASSUME NEW d \in calls' PROVE CallOK(d)
  <2>1. PICK c \in calls : d \in Left(c)
    BY <1>1
  <2>2. CallOK(c)
    BY DEF CallsOK
  <2> QED BY <2>1, <2>2, LeftOK
<1>2. IsFiniteSet(calls')
  BY FinitelyMany DEF CallsOK
<1> QED BY <1>1, <1>2, CallsKept

-----------------------------------------------------------------------------
(* The page of the models.                                                  *)

\* A step that edits no row: what is waited for stays waited for, or the list is loaded.
LEMMA ModelsStep ==
    ASSUME ModelsInv, CallsOK, at = "models", at' = at, UNCHANGED <<models, created>>,
           DOMAIN ui' = DOMAIN ui, ui'.editing = ui'.meant, ModelTable(ui'.list),
           \A d \in calls' : ModelCall(d),
           \/ doubt' \/ ui'.due \/ \E d \in calls' : d.kind = "models"
           \/ ui'.list = models
           \/ /\ ui'.list = ui.list
              /\ doubt => doubt'
              /\ ui.due => ui'.due
              /\ \A c \in calls : c.kind = "models" \/ Carried(c) =>
                   \E d \in calls' : d.kind = c.kind /\ d.arg = c.arg /\ d.todo = c.todo
    PROVE  ModelsInv'
<1>1. at' = at /\ models' = models /\ created' = created
  OBVIOUS
<1>2. ModelTable(models)' /\ ModelTable(ui.list)'
  BY <1>1 DEF ModelsInv, ModelTable
<1>3. \A d \in calls' : ModelCall(d)'
  BY <1>1 DEF ModelCall, ModelTable
<1>4. ModelsAgree'
  <2>1. SUFFICES ASSUME ~Unlisted', ~ToReload({"saveModel", "deleteModel"})'
                 PROVE  DOMAIN ui'.list = DOMAIN models /\ \A m \in DOMAIN models : RowShown(m)'
    BY <1>1 DEF ModelsAgree
  <2>2. ~doubt' /\ ~ui'.due /\ \A d \in calls' : d.kind # "models"
    BY <1>1, <2>1 DEF Unlisted
  <2>3. CASE ui'.list = models
    BY <1>1, <2>3 DEF RowShown
  <2>4. CASE /\ ui'.list = ui.list
             /\ doubt => doubt'
             /\ ui.due => ui'.due
             /\ \A c \in calls : c.kind = "models" \/ Carried(c) =>
                   \E d \in calls' : d.kind = c.kind /\ d.arg = c.arg /\ d.todo = c.todo
    <3>1. ~Unlisted
      BY <2>2, <2>4 DEF Unlisted
    <3>2. ~ToReload({"saveModel", "deleteModel"})
      BY <2>1, <2>4 DEF ToReload, Carried
    <3>3. DOMAIN ui.list = DOMAIN models /\ \A m \in DOMAIN models : RowShown(m)
      BY <3>1, <3>2 DEF ModelsInv, ModelsAgree
    <3>4. ASSUME NEW m \in DOMAIN models PROVE RowShown(m)'
      <4>1. RowShown(m)
        BY <3>3
      <4>2. (\E c \in calls : c.kind = "toggleModel" /\ Carried(c) /\ c.arg.id = m) =>
            \E d \in calls' : d.kind = "toggleModel" /\ Carried(d) /\ d.arg.id = m
        BY <2>4 DEF Carried
      <4> QED BY <1>1, <2>4, <4>1, <4>2 DEF RowShown, Carried
    <3> QED BY <2>4, <3>3, <3>4
  <2> QED BY <2>2, <2>3, <2>4
<1> QED BY <1>1, <1>2, <1>3, <1>4 DEF ModelsInv

\* What is asked for is asked for the row that is meant.
LEMMA ModelsClick ==
    ASSUME ModelsInv, CallsOK, at = "models",
           \/ OpenCreateModel \/ CancelModel
           \/ \E body \in ModelBodies : FillModel(body)
           \/ \E m \in DOMAIN ui.list : OpenEditModel(m)
    PROVE  ModelsInv' /\ CallsOK'
<1>1. /\ at' = at /\ models' = models /\ created' = created /\ calls' = calls /\ doubt' = doubt
      /\ DOMAIN ui' = DOMAIN ui /\ ui'.list = ui.list /\ ui'.due = ui.due
      /\ ui'.editing = ui'.meant
  BY DEF OpenCreateModel, CancelModel, FillModel, OpenEditModel, OnModels, Here, catalog,
         ModelsInv
<1>2. \A d \in calls' : ModelCall(d)
  BY <1>1 DEF ModelsInv
<1>3. ModelTable(ui'.list)
  BY <1>1 DEF ModelsInv
<1>4. ModelsInv'
  BY <1>1, <1>2, <1>3, ModelsStep
<1>5. CallsOK'
  BY <1>1 DEF CallsOK, CallOK
<1> QED BY <1>4, <1>5

LEMMA ModelsAsk ==
    ASSUME ModelsInv, CallsOK, at = "models",
           \/ HandleSaveModel \/ LoadModels
           \/ \E m \in DOMAIN ui.list : HandleDeleteModel(m) \/ HandleToggleModel(m)
    PROVE  ModelsInv' /\ CallsOK'
<1>1. ASSUME NEW kind \in KindsOn(at), NEW arg, Ask(Call(kind, arg, Parts(kind))),
             at' = at, UNCHANGED <<models, created, doubt>>,
             DOMAIN ui' = DOMAIN ui, ui'.list = ui.list, ui'.editing = ui'.meant,
             ui'.due = ui.due \/ kind = "models",
             kind = "saveModel" => arg.id = arg.meant,
             kind = "toggleModel" => arg.id \in 1..created.models
      PROVE  ModelsInv' /\ CallsOK'
  <2>1. CallsOK'
    BY <1>1, CallsAsked
  <2> DEFINE d == Call(kind, arg, Parts(kind))
  <2>2. Room /\ calls' = calls \cup {d}
    BY <1>1 DEF Ask
  <2>3. d.kind = kind /\ d.arg = arg /\ d.todo = Parts(kind)
    BY <1>1, <2>2, NewOK
  <2> HIDE DEF d
  <2>4. ~Carried(d)
    BY <2>3, SomeParts DEF Carried
  <2>5. ModelCall(d)
    BY <1>1, <2>3, <2>4 DEF ModelCall
  <2>6. \A e \in calls' : ModelCall(e)
    BY <2>2, <2>5 DEF ModelsInv
  <2>7. ModelTable(ui'.list)
    BY <1>1 DEF ModelsInv
  <2>8. \/ \E e \in calls' : e.kind = "models"
        \/ ui'.due = ui.due
    BY <1>1, <2>2, <2>3
  <2>9. ModelsInv'
    BY <1>1, <2>2, <2>6, <2>7, <2>8, ModelsStep
  <2> QED BY <2>1, <2>9
<1>2. CASE HandleSaveModel
  BY <1>1, <1>2 DEF HandleSaveModel, SaveModel, OnModels, catalog, ModelsInv, KindsOn, Parts
<1>3. CASE LoadModels
  BY <1>1, <1>3 DEF LoadModels, ListModels, catalog, ModelsInv, KindsOn, Parts
<1>4. CASE \E m \in DOMAIN ui.list : HandleDeleteModel(m)
  BY <1>1, <1>4 DEF HandleDeleteModel, DeleteModelCall, OnModels, catalog, ModelsInv, KindsOn, Parts
<1>5. CASE \E m \in DOMAIN ui.list : HandleToggleModel(m)
  <2>1. PICK m \in DOMAIN ui.list : HandleToggleModel(m)
    BY <1>5
  <2>2. m \in 1..created.models
    BY DEF ModelsInv, ModelTable
  <2> QED BY <1>1, <2>1, <2>2
         DEF HandleToggleModel, ToggleModelCall, OnModels, catalog, ModelsInv, KindsOn, Parts
<1> QED BY <1>2, <1>3, <1>4, <1>5

\* The answers.
LEMMA ModelsResume ==
    ASSUME ModelsInv, CallsOK, at = "models", NEW c \in calls,
           ShowModels(c) \/ ModelSaved(c) \/ ModelDeleted(c) \/ ModelToggled(c)
    PROVE  ModelsInv' /\ CallsOK'
<1>1. /\ Carried(c) /\ at' = at /\ calls' = calls \ {c} /\ models' = models /\ created' = created
      /\ CallOK(c) /\ ModelCall(c)
  BY DEF ShowModels, ModelSaved, ModelDeleted, ModelToggled, Answered, Resume, catalog, Carried,
         CallsOK, ModelsInv
<1>2. CallsOK'
  BY <1>1, CallsRemoved
<1>3. \A d \in calls' : ModelCall(d)
  BY <1>1 DEF ModelsInv
<1>4. CASE ShowModels(c)
  <2>1. /\ c.kind = "models" /\ ui' = [ui EXCEPT !.list = c.res["models"], !.loading = FALSE]
        /\ doubt' = ~c.fresh
    BY <1>4 DEF ShowModels, Resume
  <2>2. ui'.list = c.res["models"] /\ DOMAIN ui' = DOMAIN ui /\ ui'.editing = ui'.meant
    BY <2>1 DEF ModelsInv
  <2>3. ModelTable(ui'.list) /\ (c.fresh => ui'.list = models)
    BY <1>1, <2>1, <2>2 DEF ModelCall
  <2>4. doubt' \/ ui'.list = models
    BY <2>1, <2>3
  <2>5. ModelsInv'
    BY <1>1, <1>3, <2>2, <2>3, <2>4, ModelsStep
  <2> QED BY <1>2, <2>5
<1>5. CASE ModelSaved(c) \/ ModelDeleted(c)
  <2>1. ui'.due /\ ui'.list = ui.list /\ DOMAIN ui' = DOMAIN ui /\ ui'.editing = ui'.meant
    BY <1>5 DEF ModelSaved, ModelDeleted, Resume, ModelsInv
  <2>2. ModelTable(ui'.list)
    BY <2>1 DEF ModelsInv
  <2>3. ModelsInv'
    BY <1>1, <1>3, <2>1, <2>2, ModelsStep
  <2> QED BY <1>2, <2>3
<1>6. CASE ModelToggled(c)
  <2> DEFINE i == c.arg.id
             on == c.arg.active
  <2>1. /\ c.kind = "toggleModel" /\ ui' = [ui EXCEPT !.list = SetInList(@, i, on)]
        /\ doubt' = (doubt \/ ~c.fresh)
    BY <1>6 DEF ModelToggled, Resume
  <2>2. /\ ui'.list = SetInList(ui.list, i, on) /\ ui'.due = ui.due /\ DOMAIN ui' = DOMAIN ui
        /\ ui'.editing = ui'.meant
    BY <2>1 DEF ModelsInv
  <2>3. /\ ModelTable(ui.list)
        /\ c.fresh /\ i \in DOMAIN models => models[i].active = on
    BY <1>1, <2>1 DEF ModelsInv, ModelCall
  <2> HIDE DEF i, on
  <2> DEFINE new == SetInList(ui.list, i, on)
  <2>4. /\ DOMAIN new = DOMAIN ui.list
        /\ new = [m \in DOMAIN ui.list |-> new[m]]
        /\ \A m \in DOMAIN ui.list : new[m] = IF m = i THEN [ui.list[m] EXCEPT !.active = on]
                                             ELSE ui.list[m]
    BY DEF SetInList
  <2> HIDE DEF new
  <2>5. \A m \in DOMAIN ui.list : IsModel(ui.list[m])
    BY <2>3 DEF ModelTable
  <2>6. \A m \in DOMAIN ui.list :
          /\ IsModel(new[m])
          /\ new[m].names = ui.list[m].names /\ new[m].tags = ui.list[m].tags
          /\ new[m].priority = ui.list[m].priority
          /\ new[m].active = IF m = i THEN on ELSE ui.list[m].active
    BY <2>4, <2>5 DEF IsModel
  <2>7. ModelTable(new)
    BY <2>3, <2>4, <2>6 DEF ModelTable
  <2>8. ui'.list = new
    BY <2>2 DEF new
  <2>9. \A d \in calls' : ModelCall(d)'
    BY <1>1, <1>3 DEF ModelCall, ModelTable
  <2>10. ModelsAgree'
    <3>1. SUFFICES ASSUME ~Unlisted', ~ToReload({"saveModel", "deleteModel"})'
                   PROVE  DOMAIN new = DOMAIN models /\ \A m \in DOMAIN models : RowShown(m)'
      BY <1>1, <2>8 DEF ModelsAgree
    <3>2. ~Unlisted /\ c.fresh
      BY <1>1, <2>1, <2>2, <3>1 DEF Unlisted
    <3>3. ~ToReload({"saveModel", "deleteModel"})
      BY <1>1, <2>1, <3>1 DEF ToReload
    <3>4. DOMAIN ui.list = DOMAIN models /\ \A m \in DOMAIN models : RowShown(m)
      BY <3>2, <3>3 DEF ModelsInv, ModelsAgree
    <3>5. ASSUME NEW m \in DOMAIN models PROVE RowShown(m)'
      <4>1. RowShown(m)
        BY <3>4
      <4>2. /\ new[m].names = models[m].names /\ new[m].tags = models[m].tags
            /\ new[m].priority = models[m].priority
        BY <2>6, <3>4, <4>1 DEF RowShown
      <4>3. CASE m = i
        <5>1. new[m].active = models[m].active
          BY <2>3, <2>6, <3>2, <3>4, <4>3
        <5> QED BY <1>1, <2>8, <4>2, <5>1 DEF RowShown
      <4>4. CASE m # i
        <5>1. new[m].active = ui.list[m].active
          BY <2>6, <3>4, <4>4
        <5>2. (\E d \in calls : d.kind = "toggleModel" /\ Carried(d) /\ d.arg.id = m) =>
              \E d \in calls' : d.kind = "toggleModel" /\ Carried(d) /\ d.arg.id = m
          BY <1>1, <4>4 DEF i
        <5> QED BY <1>1, <2>8, <4>1, <4>2, <5>1, <5>2 DEF RowShown, Carried
      <4> QED BY <4>3, <4>4
    <3> QED BY <2>4, <3>4, <3>5
  <2>11. ModelTable(models)' /\ ModelTable(ui.list)'
    BY <1>1, <2>7, <2>8 DEF ModelsInv, ModelTable
  <2>12. ModelsInv'
    BY <1>1, <2>2, <2>9, <2>10, <2>11 DEF ModelsInv
  <2> QED BY <1>2, <2>12
<1> QED BY <1>4, <1>5, <1>6

\* A listing is read; a call fails, or its answer is lost.
LEMMA ModelsRead ==
    ASSUME ModelsInv, CallsOK, at = "models", NEW c \in calls, c.kind = "models", ReadModels(c)
    PROVE  ModelsInv' /\ CallsOK'
<1> DEFINE d == Did(c, "models", models)
<1>1. /\ "models" \in c.todo /\ calls' = Served(c, "models", models) /\ at' = at /\ ui' = ui
      /\ doubt' = doubt /\ models' = models /\ created' = created
  BY DEF ReadModels, catalog
<1>2. CallOK(c)
  BY DEF CallsOK
<1>12. "models" \in Parts(c.kind)
  BY <1>1 DEF Parts
<1>3. c.here
  BY <1>2 DEF CallOK, Edits
<1>4. CallsOK'
  BY <1>1, <1>3, <1>12, CallsServed
<1>5. CallOK(d) /\ d.res["models"] = models
  BY <1>1, <1>2, <1>3, <1>12, DidLast
<1>6. d.kind = c.kind
  BY <1>1, <1>2, <1>3, <1>12, DidLast
<1>7. d \in calls'
  BY <1>1 DEF Served
<1> HIDE DEF d
<1>8. ModelCall(d)
  BY <1>5, <1>6 DEF ModelCall, ModelsInv
<1>9. \A e \in calls' : ModelCall(e)
  BY <1>1, <1>8 DEF Served, ModelsInv, d
<1>10. ModelTable(ui'.list) /\ DOMAIN ui' = DOMAIN ui /\ ui'.editing = ui'.meant
  BY <1>1 DEF ModelsInv
<1>11. ModelsInv'
  BY <1>1, <1>6, <1>7, <1>9, <1>10, ModelsStep
<1> QED BY <1>4, <1>11

LEMMA ModelsThrow ==
    ASSUME ModelsInv, CallsOK, at = "models", NEW c \in calls, KeepModels(c) \/ ModelAlert(c)
    PROVE  ModelsInv' /\ CallsOK'
<1>1. /\ calls' = (calls \ {c}) \cup Left(c) /\ at' = at /\ models' = models
      /\ created' = created /\ doubt' = (doubt \/ c.kind \notin Edits \/ c.res # <<>>)
  BY DEF KeepModels, ModelAlert, Throw, catalog
<1>2. DOMAIN ui' = DOMAIN ui /\ ui'.list = ui.list /\ ui'.due = ui.due /\ ui'.editing = ui'.meant
  BY DEF KeepModels, ModelAlert, Throw, ModelsInv
<1>3. CallsOK'
  BY <1>1, CallsThrown
<1>4. CallOK(c) /\ ModelCall(c)
  BY DEF CallsOK, ModelsInv
<1>5. ASSUME NEW d \in Left(c)
      PROVE  ModelCall(d)
  <2>1. d.kind = c.kind /\ d.arg = c.arg /\ c.kind \in Edits /\ ~Carried(d)
    BY <1>4, LeftOK
  <2> QED BY <1>4, <2>1 DEF ModelCall, Edits
<1>6. \A d \in calls' : ModelCall(d)
  BY <1>1, <1>5 DEF ModelsInv
<1>7. doubt' \/ (c.kind \in Edits /\ ~Carried(c) /\ (doubt => doubt'))
  <2>1. c.res = <<>> <=> c.todo = Parts(c.kind)
    BY <1>4, NothingDone
  <2> QED BY <1>1, <2>1, SomeParts DEF Carried
<1>8. c.kind \in Edits /\ ~Carried(c) =>
      \A e \in calls : e.kind = "models" \/ Carried(e) =>
         \E d \in calls' : d.kind = e.kind /\ d.arg = e.arg /\ d.todo = e.todo
  BY <1>1 DEF Edits
<1>9. ModelTable(ui'.list)
  BY <1>2 DEF ModelsInv
<1>10. ModelsInv'
  BY <1>1, <1>2, <1>6, <1>7, <1>8, <1>9, ModelsStep
<1> QED BY <1>3, <1>10

\* An edit of row i makes stale what was read before, and what a switch of that row answers.
LEMMA StaleModelCall ==
    ASSUME ModelsInv, created'.models \in Nat, created.models <= created'.models,
           NEW i,
           \A j \in 1..created.models : j # i /\ j \in DOMAIN models' =>
              j \in DOMAIN models /\ models'[j].active = models[j].active,
           NEW d, NEW e, ModelCall(e), SameCall(d, e),
           d.fresh => e.fresh /\ (e.todo = Parts(e.kind) \/ (e.kind \in Edits /\ e.arg.id # i))
    PROVE  ModelCall(d)'
<1>1. Carried(d) <=> Carried(e)
  BY DEF SameCall, Carried
<1>2. d.kind = e.kind /\ d.arg = e.arg /\ d.res = e.res /\ d.todo = e.todo
  BY DEF SameCall
<1>3. \A t : ModelTable(t) => ModelTable(t)'
  BY DEF ModelTable, ModelsInv
<1>4. d.kind = "models" /\ Carried(d) => ~d.fresh
  BY <1>1, <1>2, SomeParts DEF Carried, Edits
<1>5. d.kind = "models" /\ Carried(d) => ModelTable(d.res["models"])'
  BY <1>1, <1>2, <1>3 DEF ModelCall
<1>6. d.kind = "saveModel" => d.arg.id = d.arg.meant
  BY <1>2 DEF ModelCall
<1>7. ASSUME d.kind = "toggleModel"
      PROVE  /\ d.arg.id \in 1..created'.models
             /\ Carried(d) /\ d.fresh /\ d.arg.id \in DOMAIN models' =>
                  models'[d.arg.id].active = d.arg.active
  <2> DEFINE j == d.arg.id
  <2>1. /\ j \in 1..created.models
        /\ Carried(e) /\ e.fresh /\ j \in DOMAIN models => models[j].active = d.arg.active
    BY <1>2, <1>7 DEF ModelCall
  <2>2. Carried(d) /\ d.fresh => Carried(e) /\ e.fresh /\ j # i
    BY <1>1, <1>2, SomeParts DEF Carried
  <2> HIDE DEF j
  <2>3. j \in 1..created'.models
    BY <2>1 DEF ModelsInv
  <2>4. Carried(d) /\ d.fresh /\ j \in DOMAIN models' => models'[j].active = d.arg.active
    BY <2>1, <2>2
  <2> QED BY <2>3, <2>4 DEF j
<1> QED BY <1>4, <1>5, <1>6, <1>7 DEF ModelCall, Carried

\* What a statement about row i leaves as it was.
Written(i) ==
    /\ created'.models \in Nat /\ created.models <= created'.models
    /\ DOMAIN created' = DOMAIN created
    /\ ModelTable(models)'
    /\ \A j \in 1..created.models : j # i /\ j \in DOMAIN models' =>
         j \in DOMAIN models /\ models'[j] = models[j]

\* What the statements do to the table.
LEMMA ModelsWritten ==
    ASSUME ModelsInv, NEW i,
           \/ \E body : i \notin 1..created.models /\ CreateModel(body)
           \/ \E body : UpdateModel(i, body)
           \/ \E on : ToggleModel(i, on)
           \/ DeleteModel(i)
           \/ Gone(i, models)
    PROVE  Written(i)
<1> DEFINE n == created.models
<1>1. n \in Nat /\ DOMAIN created = {"models", "chains"}
  BY DEF ModelsInv
<1>2. /\ models = [m \in DOMAIN models |-> models[m]]
      /\ DOMAIN models \subseteq 1..n
      /\ \A m \in DOMAIN models : IsModel(models[m])
  BY DEF ModelsInv, ModelTable
<1>3. ASSUME NEW body, CreateModel(body)
      PROVE  Written(i)
  <2> DEFINE row == [names |-> body.names, tags |-> body.tags, priority |-> body.priority,
                     active |-> TRUE]
  <2>1. models' = Update(models, n + 1, row) /\ created' = [created EXCEPT !.models = n + 1]
    BY <1>3 DEF CreateModel
  <2>2. IsModel(row)
    BY DEF IsModel
  <2> HIDE DEF row, n
  <2>3. created'.models = n + 1 /\ DOMAIN created' = DOMAIN created
    BY <1>1, <2>1
  <2>4. models' = [m \in DOMAIN models \cup {n + 1} |-> IF m = n + 1 THEN row ELSE models[m]]
    BY <2>1 DEF Update
  <2>5. /\ DOMAIN models' = DOMAIN models \cup {n + 1}
        /\ \A m \in DOMAIN models' : models'[m] = IF m = n + 1 THEN row ELSE models[m]
    BY <2>4
  <2>6. models' = [m \in DOMAIN models' |-> models'[m]]
    BY <2>4
  <2>7. DOMAIN models' \subseteq 1..n + 1
    <3>1. \A m \in 1..n : m \in 1..n + 1
      BY <1>1
    <3>2. n + 1 \in 1..n + 1
      BY <1>1
    <3> QED BY <1>2, <2>5, <3>1, <3>2
  <2>8. \A m \in DOMAIN models' : IsModel(models'[m])
    BY <1>2, <2>2, <2>5
  <2>9. ModelTable(models)'
    BY <2>3, <2>6, <2>7, <2>8 DEF ModelTable, IsModel
  <2>10. \A j \in 1..n : j # n + 1
    BY <1>1
  <2>11. n + 1 \in Nat /\ n <= n + 1
    BY <1>1
  <2> QED BY <2>3, <2>5, <2>9, <2>10, <2>11 DEF Written, n
<1>4. ASSUME created' = created, models' = [m \in DOMAIN models' |-> models'[m]],
             DOMAIN models' \subseteq DOMAIN models,
             \A j \in DOMAIN models' : IF j = i THEN IsModel(models'[j]) ELSE models'[j] = models[j]
      PROVE  Written(i)
  <2>1. \A m \in DOMAIN models' : IsModel(models'[m])
    BY <1>2, <1>4
  <2>2. ModelTable(models)'
    BY <1>2, <1>4, <2>1 DEF ModelTable, IsModel
  <2> QED BY <1>1, <1>4, <2>2 DEF Written
<1>5. ASSUME NEW body, UpdateModel(i, body)
      PROVE  Written(i)
  <2>1. /\ i \in DOMAIN models /\ created' = created
        /\ models' = [models EXCEPT ![i] = [names |-> body.names, tags |-> body.tags,
                                            priority |-> body.priority, active |-> @.active]]
    BY <1>5 DEF UpdateModel
  <2>2. DOMAIN models' = DOMAIN models /\ \A j \in DOMAIN models : j # i => models'[j] = models[j]
    BY <2>1
  <2>3. models'[i] = [names |-> body.names, tags |-> body.tags,
                      priority |-> body.priority, active |-> models[i].active]
    BY <2>1
  <2>4. IsModel(models'[i])
    BY <2>3 DEF IsModel
  <2>5. models' = [m \in DOMAIN models' |-> models'[m]]
    BY <2>1
  <2> QED BY <1>4, <2>1, <2>2, <2>4, <2>5
<1>6. ASSUME NEW on, ToggleModel(i, on)
      PROVE  Written(i)
  <2>1. i \in DOMAIN models /\ created' = created /\ models' = [models EXCEPT ![i].active = on]
    BY <1>6 DEF ToggleModel
  <2>2. DOMAIN models' = DOMAIN models /\ \A j \in DOMAIN models : j # i => models'[j] = models[j]
    BY <2>1
  <2>3. models'[i] = [models[i] EXCEPT !.active = on] /\ IsModel(models[i])
    BY <1>2, <2>1
  <2>4. IsModel(models'[i])
    BY <2>3 DEF IsModel
  <2>5. models' = [m \in DOMAIN models' |-> models'[m]]
    BY <2>1
  <2> QED BY <1>4, <2>1, <2>2, <2>4, <2>5
<1>7. CASE DeleteModel(i)
  <2>1. created' = created /\ models' = [x \in DOMAIN models \ {i} |-> models[x]]
    BY <1>7 DEF DeleteModel, Without
  <2> QED BY <1>4, <2>1
<1>8. CASE Gone(i, models)
  <2>1. created' = created /\ models' = models
    BY <1>8 DEF Gone, catalog
  <2> QED BY <1>2, <1>4, <2>1
<1> QED BY <1>3, <1>5, <1>6, <1>7, <1>8

LEMMA ModelsEdit ==
    ASSUME ModelsInv, CallsOK, at = "models", NEW c \in calls, EditModel(c)
    PROVE  ModelsInv' /\ CallsOK'
<1> DEFINE i == c.arg.id
           on == c.arg.active
<1>1. CallOK(c) /\ ModelCall(c)
  BY DEF CallsOK, ModelsInv
<1>2. c.kind \in {"saveModel", "deleteModel", "toggleModel"}
  BY <1>1 DEF EditModel, CallOK, KindsOn
<1>3. c.todo = {"edit"} /\ Parts(c.kind) = {"edit"} /\ ~Carried(c)
  BY <1>1, <1>2 DEF EditModel, CallOK, Parts, Carried
<1>4. Edit(c, "edit", None) /\ at' = at /\ ui' = ui
  BY DEF EditModel
<1>5. /\ CallsOK'
      /\ \A d \in calls' :
           \/ CallOK(d) /\ \E e \in calls \ {c} :
                /\ SameCall(d, e)
                /\ d.fresh => /\ e.fresh
                              /\ \/ e.todo = Parts(e.kind)
                                 \/ e.kind \in Edits /\ e.arg.id # i
           \/ CallOK(d) /\ d.kind = c.kind /\ d.arg = c.arg /\ Carried(d) /\ d.res["edit"] = None
              /\ d.id = c.id
      /\ \A e \in calls \ {c} : \E d \in calls' : SameCall(d, e)
      /\ ~doubt' => /\ ~doubt
                    /\ \E d \in calls' : d.kind = c.kind /\ d.arg = c.arg /\ Carried(d) /\ d.here
  <2>1. "edit" \in Parts(c.kind) /\ \A q \in c.todo : q = "edit"
    BY <1>3
  <2> QED BY <1>4, <2>1, CallsEdited
<1>7. Written(i)
  <2>1. CASE c.kind = "saveModel" /\ c.arg.id = None
    <3>1. CreateModel(c.arg.body)
      BY <2>1 DEF EditModel
    <3>2. i \notin 1..created.models
      <4>1. 1..created.models \subseteq Nat
        BY DEF ModelsInv
      <4> QED BY <2>1, <4>1, ConsoleAssumption
    <3> QED BY <3>1, <3>2, ModelsWritten
  <2>2. CASE c.kind = "saveModel" /\ c.arg.id # None
    <3>1. UpdateModel(i, c.arg.body)
      BY <2>2 DEF EditModel
    <3> QED BY <3>1, ModelsWritten
  <2>3. CASE c.kind = "deleteModel"
    <3>1. DeleteModel(i) \/ Gone(i, models)
      BY <2>3 DEF EditModel
    <3> QED BY <3>1, ModelsWritten
  <2>4. CASE c.kind = "toggleModel"
    <3>1. ToggleModel(i, on) \/ Gone(i, models)
      BY <2>4 DEF EditModel
    <3> QED BY <3>1, ModelsWritten
  <2> QED BY <1>2, <2>1, <2>2, <2>3, <2>4
<1>8. /\ created'.models \in Nat /\ created.models <= created'.models
      /\ DOMAIN created' = DOMAIN created
      /\ ModelTable(models)'
      /\ \A j \in 1..created.models : j # i /\ j \in DOMAIN models' =>
           j \in DOMAIN models /\ models'[j] = models[j]
  BY <1>7 DEF Written
<1>9. ASSUME c.kind = "toggleModel"
      PROVE  /\ DOMAIN models' = DOMAIN models
             /\ \A m \in DOMAIN models :
                  /\ m # i => models'[m] = models[m]
                  /\ m = i => /\ models'[m].names = models[m].names
                              /\ models'[m].tags = models[m].tags
                              /\ models'[m].priority = models[m].priority
                              /\ models'[m].active = on
  <2>1. CASE ToggleModel(i, on)
    <3>1. i \in DOMAIN models /\ models' = [models EXCEPT ![i].active = on]
      BY <2>1 DEF ToggleModel
    <3>2. models'[i] = [models[i] EXCEPT !.active = on] /\ IsModel(models[i])
      BY <3>1 DEF ModelsInv, ModelTable
    <3>3. /\ models'[i].names = models[i].names /\ models'[i].tags = models[i].tags
          /\ models'[i].priority = models[i].priority /\ models'[i].active = on
      BY <3>2 DEF IsModel
    <3> QED BY <3>1, <3>3
  <2>2. CASE Gone(i, models)
    BY <2>2 DEF Gone, catalog
  <2> QED BY <1>9, <2>1, <2>2 DEF EditModel
<1> HIDE DEF i, on
<1>10. ASSUME NEW d \in calls' PROVE ModelCall(d)'
  <2>1. CASE \E e \in calls \ {c} :
               /\ SameCall(d, e)
               /\ d.fresh => e.fresh /\ (e.todo = Parts(e.kind) \/ (e.kind \in Edits /\ e.arg.id # i))
    <3>1. PICK e \in calls : /\ SameCall(d, e)
                             /\ d.fresh => /\ e.fresh
                                           /\ \/ e.todo = Parts(e.kind)
                                              \/ e.kind \in Edits /\ e.arg.id # i
      BY <2>1
    <3>2. ModelCall(e)
      BY DEF ModelsInv
    <3> QED BY <1>8, <3>1, <3>2, StaleModelCall
  <2>2. CASE d.kind = c.kind /\ d.arg = c.arg
    <3>1. d.kind = "saveModel" => d.arg.id = d.arg.meant
      BY <1>1, <2>2 DEF ModelCall
    <3>2. ASSUME d.kind = "toggleModel"
          PROVE  d.arg.id \in 1..created'.models /\ (i \in DOMAIN models' => models'[i].active = on)
      <4>1. i \in 1..created.models
        BY <1>1, <2>2, <3>2 DEF ModelCall, i
      <4>2. i \in 1..created'.models
        BY <1>8, <4>1 DEF ModelsInv
      <4>3. i \in DOMAIN models' => models'[i].active = on
        BY <1>9, <2>2, <3>2
      <4> QED BY <2>2, <4>2, <4>3 DEF i
    <3> QED BY <1>2, <2>2, <3>1, <3>2 DEF ModelCall, i, on
  <2> QED BY <1>5, <2>1, <2>2
<1>11. ModelTable(ui.list)'
  BY <1>4, <1>8 DEF ModelTable, ModelsInv
<1>12. ModelsAgree'
  <2>1. SUFFICES ASSUME ~Unlisted', ~ToReload({"saveModel", "deleteModel"})'
                 PROVE  DOMAIN ui.list = DOMAIN models' /\ \A m \in DOMAIN models' : RowShown(m)'
    BY <1>4 DEF ModelsAgree
  <2>2. PICK d \in calls' : d.kind = c.kind /\ d.arg = c.arg /\ Carried(d)
    BY <1>5, <2>1 DEF Unlisted
  <2>3. c.kind = "toggleModel"
    BY <1>2, <2>1, <2>2 DEF ToReload, Carried
  <2>4. ~Unlisted
    BY <1>4, <1>5, <2>1, <2>3 DEF Unlisted, SameCall
  <2>5. ~ToReload({"saveModel", "deleteModel"})
    BY <1>5, <2>1, <2>3 DEF ToReload, SameCall, Carried
  <2>6. DOMAIN ui.list = DOMAIN models /\ \A m \in DOMAIN models : RowShown(m)
    BY <2>4, <2>5 DEF ModelsInv, ModelsAgree
  <2>7. ASSUME NEW m \in DOMAIN models' PROVE RowShown(m)'
    <3>1. m \in DOMAIN models /\ RowShown(m)
      BY <1>9, <2>3, <2>6
    <3>2. /\ models'[m].names = models[m].names /\ models'[m].tags = models[m].tags
          /\ models'[m].priority = models[m].priority
      BY <1>9, <2>3, <3>1
    <3>3. CASE m = i
      <4>1. \E e \in calls' : e.kind = "toggleModel" /\ Carried(e) /\ e.arg.id = m
        BY <2>2, <2>3, <3>3 DEF i
      <4> QED BY <1>4, <3>1, <3>2, <4>1 DEF RowShown, Carried
    <3>4. CASE m # i
      <4>1. models'[m] = models[m]
        BY <1>9, <2>3, <3>1, <3>4
      <4>2. (\E e \in calls : e.kind = "toggleModel" /\ Carried(e) /\ e.arg.id = m) =>
            \E e \in calls' : e.kind = "toggleModel" /\ Carried(e) /\ e.arg.id = m
        <5>1. ASSUME NEW e \in calls, e.kind = "toggleModel", Carried(e), e.arg.id = m
              PROVE  \E f \in calls' : f.kind = "toggleModel" /\ Carried(f) /\ f.arg.id = m
          <6>1. e \in calls \ {c}
            BY <1>3, <5>1
          <6>2. PICK f \in calls' : SameCall(f, e)
            BY <1>5, <6>1
          <6> QED BY <5>1, <6>2 DEF SameCall, Carried
        <5> QED BY <5>1
      <4> QED BY <1>4, <3>1, <4>1, <4>2 DEF RowShown, Carried
    <3> QED BY <3>3, <3>4
  <2> QED BY <1>9, <2>3, <2>6, <2>7
<1>13. /\ DOMAIN ui' = DOMAIN ui /\ ui'.editing = ui'.meant /\ created'.models \in Nat
       /\ DOMAIN created' = DOMAIN created /\ ModelTable(models)' /\ at' = at
  BY <1>4, <1>8 DEF ModelsInv
<1> QED BY <1>5, <1>10, <1>11, <1>12, <1>13 DEF ModelsInv

\* Somebody else's edit.
LEMMA ModelsElsewhere ==
    ASSUME ModelsInv, CallsOK, at = "models", at' = at, ui' = ui, NEW m, OthersModel(m)
    PROVE  ModelsInv' /\ CallsOK'
<1>1. calls' = Outdated(calls, m) /\ doubt' = TRUE
  BY DEF OthersModel, Elsewhere
<1>2. CallsOK'
  BY <1>1, CallsOutdated
<1>3. DeleteModel(m) \/ \E on : ToggleModel(m, on)
  BY DEF OthersModel
<1>4. /\ created'.models \in Nat /\ created.models <= created'.models
      /\ DOMAIN created' = DOMAIN created
      /\ ModelTable(models)'
      /\ \A j \in 1..created.models : j # m /\ j \in DOMAIN models' =>
           j \in DOMAIN models /\ models'[j] = models[j]
  BY <1>3, ModelsWritten DEF Written
<1>5. \A c \in calls : CallOK(c)
  BY DEF CallsOK
<1>6. ASSUME NEW d \in calls' PROVE ModelCall(d)'
  <2>1. PICK e \in calls : /\ SameCall(d, e)
                           /\ d.fresh => /\ e.fresh
                                         /\ \/ e.todo = Parts(e.kind)
                                            \/ e.kind \in Edits /\ e.arg.id # m
    BY <1>1, <1>5, OutdatedOK
  <2>2. ModelCall(e)
    BY DEF ModelsInv
  <2> QED BY <1>4, <2>1, <2>2, StaleModelCall
<1>7. ModelTable(ui.list)'
  BY <1>4 DEF ModelTable, ModelsInv
<1>8. ModelsAgree'
  BY <1>1 DEF ModelsAgree, Unlisted
<1> QED BY <1>2, <1>4, <1>6, <1>7, <1>8 DEF ModelsInv

\* A page that is mounted again.
LEMMA ModelsReturn ==
    ASSUME ModelsInv, CallsOK, at = "models", Return
    PROVE  ModelsInv' /\ CallsOK'
<1>1. /\ at' = at /\ ui' = ModelsMounted /\ calls' = UNION {Left(c) : c \in calls}
      /\ models' = models /\ created' = created
  BY DEF Return, Visit, Mounted, catalog
<1>2. CallsOK'
  BY <1>1, CallsLeft
<1>3. /\ DOMAIN ui' = DOMAIN ui /\ ui'.list = <<>> /\ ui'.due /\ ui'.editing = ui'.meant
  BY <1>1 DEF ModelsMounted, ModelsInv
<1>4. ModelTable(ui'.list)
  <2>1. DOMAIN <<>> = {} /\ <<>> = [m \in {} |-> <<>>[m]]
    OBVIOUS
  <2> QED BY <1>3, <2>1 DEF ModelTable
<1>5. ASSUME NEW d \in calls' PROVE ModelCall(d)
  <2>1. PICK c \in calls : d \in Left(c)
    BY <1>1
  <2>2. CallOK(c) /\ ModelCall(c)
    BY DEF CallsOK, ModelsInv
  <2>3. d.kind = c.kind /\ d.arg = c.arg /\ c.kind \in Edits /\ ~Carried(d)
    BY <2>1, <2>2, LeftOK
  <2> QED BY <2>2, <2>3 DEF ModelCall, Edits
<1>6. ModelsInv'
  BY <1>1, <1>3, <1>4, <1>5, ModelsStep
<1> QED BY <1>2, <1>6

LEMMA ModelsStop ==
    ASSUME ModelsInv, CallsOK, at = "models", UNCHANGED catalog, Stop
    PROVE  ModelsInv' /\ CallsOK'
<1>1. PICK c \in calls : Forget(c)
  BY DEF Stop
<1>2. /\ ~c.here /\ calls' = calls \ {c} /\ at' = at /\ ui' = ui /\ doubt' = doubt
      /\ models' = models /\ created' = created
  BY <1>1 DEF Forget, catalog
<1>3. CallsOK'
  BY <1>2, CallsRemoved
<1>4. c.kind \in Edits /\ ~Carried(c)
  BY <1>2 DEF CallsOK, CallOK
<1>5. \A d \in calls' : ModelCall(d)
  BY <1>2 DEF ModelsInv
<1>6. \A e \in calls : e.kind = "models" \/ Carried(e) =>
         \E d \in calls' : d.kind = e.kind /\ d.arg = e.arg /\ d.todo = e.todo
  BY <1>2, <1>4 DEF Edits
<1>7. DOMAIN ui' = DOMAIN ui /\ ui'.editing = ui'.meant /\ ModelTable(ui'.list)
  BY <1>2 DEF ModelsInv
<1>8. ModelsInv'
  BY <1>2, <1>5, <1>6, <1>7, ModelsStep
<1> QED BY <1>3, <1>8

\* Of all steps these are of the page of the models.
LEMMA ModelsPageKept ==
    ASSUME ModelsInv, CallsOK, at = "models", [Next]_vars
    PROVE  ModelsInv' /\ CallsOK' /\ at' = at /\ UNCHANGED secrets
<1>1. \A c \in calls : CallOK(c)
  BY DEF CallsOK
<1>2. \A c \in calls : /\ c.kind \in {"models", "saveModel", "deleteModel", "toggleModel"}
                       /\ c.todo \subseteq Parts(c.kind)
  BY <1>1 DEF CallOK, KindsOn
<1>3. \A c \in calls : "models" \in c.todo => c.kind = "models"
  BY <1>2 DEF Parts
<1>4. \A c \in calls : "chains" \notin c.todo
  BY <1>2 DEF Parts
<1> DEFINE kept == ModelsInv' /\ CallsOK' /\ at' = at
<1>5. ASSUME ModelsNext PROVE kept
  <2>1. CASE OpenCreateModel \/ CancelModel \/ (\E body \in ModelBodies : FillModel(body))
             \/ \E m \in DOMAIN ui.list : OpenEditModel(m)
    <3>1. at' = at
      BY <2>1 DEF OpenCreateModel, CancelModel, FillModel, OpenEditModel, OnModels, catalog
    <3> QED BY <2>1, <3>1, ModelsClick
  <2>2. CASE HandleSaveModel \/ LoadModels
             \/ \E m \in DOMAIN ui.list : HandleDeleteModel(m) \/ HandleToggleModel(m)
    <3>1. at' = at
      BY <2>2 DEF HandleSaveModel, LoadModels, HandleDeleteModel, HandleToggleModel, OnModels, catalog
    <3> QED BY <2>2, <3>1, ModelsAsk
  <2>3. ASSUME NEW c \in calls, EditModel(c) PROVE kept
    <3>1. at' = at
      BY <2>3 DEF EditModel
    <3> QED BY <2>3, <3>1, ModelsEdit
  <2>4. ASSUME NEW c \in calls, c.kind = "models", ReadModels(c) PROVE kept
    <3>1. at' = at
      BY <2>4 DEF ReadModels
    <3> QED BY <2>4, <3>1, ModelsRead
  <2>5. ASSUME NEW c \in calls,
               ShowModels(c) \/ ModelSaved(c) \/ ModelDeleted(c) \/ ModelToggled(c)
        PROVE  kept
    <3>1. at' = at
      BY <2>5 DEF ShowModels, ModelSaved, ModelDeleted, ModelToggled, Resume
    <3> QED BY <2>5, <3>1, ModelsResume
  <2>6. ASSUME NEW c \in calls, KeepModels(c) \/ ModelAlert(c) PROVE kept
    <3>1. at' = at
      BY <2>6 DEF KeepModels, ModelAlert, Throw
    <3> QED BY <2>6, <3>1, ModelsThrow
  <2> QED BY <1>5, <2>1, <2>2, <2>3, <2>4, <2>5, <2>6 DEF ModelsNext
<1>6. ASSUME ChainsNext PROVE FALSE
  <2>1. PICK c \in calls : c.kind \in {"chains", "saveChain", "deleteChain"} \/ "chains" \in c.todo
    BY <1>6 DEF ChainsNext, LoadChains, ReadChains, Begin, Clear, Write, Refuse, InProgress,
         EditChain, ShowChains, KeepChains, ChainSaved, ChainDeleted, ChainAlert
  <2> QED BY <1>2, <1>4, <2>1
<1>7. ASSUME KeysNext PROVE FALSE
  <2>1. PICK c \in calls : c.kind \in {"keys", "createKey", "deleteKey", "toggleKey"}
    BY <1>7 DEF KeysNext, KeysStep, LoadKeys, ReadKeys, EditKeys, ShowKeys, KeepKeys,
         KeyCreated, KeyDeleted, KeyToggled, KeyAlert
  <2> QED BY <1>2, <2>1
<1>8. ASSUME Others PROVE kept
  <2>1. PICK m \in DOMAIN models : OthersModel(m)
    BY <1>8 DEF Others
  <2>2. at' = at /\ ui' = ui
    BY <1>8 DEF Others
  <2> QED BY <2>1, <2>2, ModelsElsewhere
<1>9. ASSUME Stop, UNCHANGED catalog PROVE kept
  <2>1. at' = at
    BY <1>9 DEF Stop, Forget
  <2> QED BY <1>9, <2>1, ModelsStop
<1>10. ASSUME Return PROVE kept
  <2>1. at' = at
    BY <1>10 DEF Return, Visit
  <2> QED BY <1>10, <2>1, ModelsReturn
<1>11. ASSUME UNCHANGED vars PROVE kept
  <2>1. /\ at' = at /\ ui' = ui /\ calls' = calls /\ doubt' = doubt /\ models' = models
        /\ created' = created
    BY <1>11 DEF vars, browser, catalog
  <2>2. CallsOK'
    BY <2>1 DEF CallsOK, CallOK
  <2>3. (\A d \in calls' : ModelCall(d)) /\ ModelTable(ui'.list) /\ ui'.editing = ui'.meant
    BY <2>1 DEF ModelsInv
  <2>4. ModelsInv'
    BY <2>1, <2>3, ModelsStep
  <2> QED BY <2>1, <2>2, <2>4
<1>12. UNCHANGED secrets
  BY <1>7 DEF Next, Return, vars
<1>13. kept
  <2> HIDE DEF kept
  <2> QED BY <1>5, <1>6, <1>7, <1>8, <1>9, <1>10, <1>11 DEF Next
<1> QED BY <1>12, <1>13

-----------------------------------------------------------------------------
(* The page of the keys.                                                    *)

LEMMA KeysStepKeeps ==
    ASSUME KeysPageInv, CallsOK, at = "keys", at' = at, UNCHANGED <<keys, made>>,
           DOMAIN ui' = DOMAIN ui, KeyTable(ui'.list),
           \A d \in calls' : KeyCall(d),
           \/ ui.open \/ ui.left => ui'.open \/ ui'.left
           \/ \A d \in calls' : ~d.here,
           \/ doubt' \/ ui'.due \/ \E d \in calls' : d.kind = "keys"
           \/ ui'.list = keys
           \/ /\ ui'.list = ui.list
              /\ doubt => doubt'
              /\ ui.due => ui'.due
              /\ \A c \in calls : c.kind = "keys" \/ Carried(c) =>
                   \E d \in calls' : d.kind = c.kind /\ d.arg = c.arg /\ d.todo = c.todo
    PROVE  KeysPageInv'
<1>1. at' = at /\ keys' = keys /\ made' = made
  OBVIOUS
<1>2. KeyTable(keys)' /\ KeyTable(ui.list)'
  BY <1>1 DEF KeysPageInv, KeyTable
<1>3. ASSUME NEW d \in calls' PROVE KeyCall(d)'
  <2>1. KeyCall(d)
    OBVIOUS
  <2>2. d.kind = "createKey" /\ d.here => ui'.open \/ ui'.left
    BY <2>1 DEF KeyCall
  <2> QED BY <1>1, <2>1, <2>2 DEF KeyCall, KeyTable, Carried
<1>4. KeysAgree'
  <2>1. SUFFICES ASSUME ~Unlisted', ~ToReload({"createKey", "deleteKey"})'
                 PROVE  DOMAIN ui'.list = DOMAIN keys /\ \A k \in DOMAIN keys : KeyShown(k)'
    BY <1>1 DEF KeysAgree
  <2>2. ~doubt' /\ ~ui'.due /\ \A d \in calls' : d.kind # "keys"
    BY <1>1, <2>1 DEF Unlisted
  <2>3. CASE ui'.list = keys
    BY <1>1, <2>3 DEF KeyShown
  <2>4. CASE /\ ui'.list = ui.list
             /\ doubt => doubt'
             /\ ui.due => ui'.due
             /\ \A c \in calls : c.kind = "keys" \/ Carried(c) =>
                   \E d \in calls' : d.kind = c.kind /\ d.arg = c.arg /\ d.todo = c.todo
    <3>1. ~Unlisted
      BY <2>2, <2>4 DEF Unlisted
    <3>2. ~ToReload({"createKey", "deleteKey"})
      BY <2>1, <2>4 DEF ToReload, Carried
    <3>3. DOMAIN ui.list = DOMAIN keys /\ \A k \in DOMAIN keys : KeyShown(k)
      BY <3>1, <3>2 DEF KeysPageInv, KeysAgree
    <3>4. ASSUME NEW k \in DOMAIN keys PROVE KeyShown(k)'
      <4>1. KeyShown(k)
        BY <3>3
      <4>2. (\E c \in calls : c.kind = "toggleKey" /\ Carried(c) /\ c.arg.id = k) =>
            \E d \in calls' : d.kind = "toggleKey" /\ Carried(d) /\ d.arg.id = k
        BY <2>4 DEF Carried
      <4> QED BY <1>1, <2>4, <4>1, <4>2 DEF KeyShown, Carried
    <3> QED BY <2>4, <3>3, <3>4
  <2> QED BY <2>2, <2>3, <2>4
<1> QED BY <1>1, <1>2, <1>3, <1>4 DEF KeysPageInv

\* The dialog that asked for a key is open, or the user left it.
LEMMA KeysClick ==
    ASSUME KeysPageInv, CallsOK, at = "keys", OpenKeyDialog \/ NameKey \/ HandleCloseDialog
    PROVE  KeysPageInv' /\ CallsOK'
<1>1. /\ at' = at /\ keys' = keys /\ made' = made /\ calls' = calls /\ doubt' = doubt
      /\ DOMAIN ui' = DOMAIN ui /\ ui'.list = ui.list /\ ui'.due = ui.due
      /\ ui.open \/ ui.left => ui'.open \/ ui'.left
  BY DEF OpenKeyDialog, NameKey, HandleCloseDialog, Closed, OnKeys, keyTable, KeysPageInv
<1>2. \A d \in calls' : KeyCall(d)
  BY <1>1 DEF KeysPageInv
<1>3. KeyTable(ui'.list)
  BY <1>1 DEF KeysPageInv
<1>4. KeysPageInv'
  BY <1>1, <1>2, <1>3, KeysStepKeeps
<1>5. CallsOK'
  BY <1>1 DEF CallsOK, CallOK
<1> QED BY <1>4, <1>5

LEMMA KeysAsk ==
    ASSUME KeysPageInv, CallsOK, at = "keys",
           \/ HandleCreateKey \/ LoadKeys
           \/ \E k \in DOMAIN ui.list : HandleDeleteKey(k) \/ HandleToggleKey(k)
    PROVE  KeysPageInv' /\ CallsOK'
<1>1. ASSUME NEW kind \in KindsOn(at), NEW arg, Ask(Call(kind, arg, Parts(kind))),
             at' = at, UNCHANGED <<keys, made, doubt>>,
             DOMAIN ui' = DOMAIN ui, ui'.list = ui.list,
             ui.open \/ ui.left => ui'.open \/ ui'.left,
             ui'.due = ui.due \/ kind = "keys",
             kind = "createKey" => ui.open,
             kind = "toggleKey" => arg.id \in 1..made
      PROVE  KeysPageInv' /\ CallsOK'
  <2>1. CallsOK'
    BY <1>1, CallsAsked
  <2> DEFINE d == Call(kind, arg, Parts(kind))
  <2>2. Room /\ calls' = calls \cup {d}
    BY <1>1 DEF Ask
  <2>3. d.kind = kind /\ d.arg = arg /\ d.todo = Parts(kind)
    BY <1>1, <2>2, NewOK
  <2> HIDE DEF d
  <2>4. ~Carried(d)
    BY <2>3, SomeParts DEF Carried
  <2>5. KeyCall(d)
    BY <1>1, <2>3, <2>4 DEF KeyCall
  <2>6. \A e \in calls' : KeyCall(e)
    BY <2>2, <2>5 DEF KeysPageInv
  <2>7. KeyTable(ui'.list)
    BY <1>1 DEF KeysPageInv
  <2>8. \/ \E e \in calls' : e.kind = "keys"
        \/ ui'.due = ui.due
    BY <1>1, <2>2, <2>3
  <2>9. KeysPageInv'
    BY <1>1, <2>2, <2>6, <2>7, <2>8, KeysStepKeeps
  <2> QED BY <2>1, <2>9
<1>2. CASE HandleCreateKey
  BY <1>1, <1>2 DEF HandleCreateKey, CreateAPIKeyCall, OnKeys, keyTable, KeysPageInv, KindsOn, Parts
<1>3. CASE LoadKeys
  BY <1>1, <1>3 DEF LoadKeys, ListAPIKeys, keyTable, KeysPageInv, KindsOn, Parts
<1>4. CASE \E k \in DOMAIN ui.list : HandleDeleteKey(k)
  BY <1>1, <1>4 DEF HandleDeleteKey, DeleteAPIKeyCall, OnKeys, keyTable, KeysPageInv, KindsOn, Parts
<1>5. CASE \E k \in DOMAIN ui.list : HandleToggleKey(k)
  <2>1. PICK k \in DOMAIN ui.list : HandleToggleKey(k)
    BY <1>5
  <2>2. k \in 1..made
    BY DEF KeysPageInv, KeyTable
  <2> QED BY <1>1, <2>1, <2>2
         DEF HandleToggleKey, ToggleAPIKeyCall, OnKeys, keyTable, KeysPageInv, KindsOn, Parts
<1> QED BY <1>2, <1>3, <1>4, <1>5

\* The answers.
LEMMA KeysResume ==
    ASSUME KeysPageInv, CallsOK, at = "keys", NEW c \in calls,
           ShowKeys(c) \/ KeyCreated(c) \/ KeyDeleted(c) \/ KeyToggled(c)
    PROVE  KeysPageInv' /\ CallsOK'
<1>1. /\ Carried(c) /\ at' = at /\ calls' = calls \ {c} /\ keys' = keys /\ made' = made
      /\ CallOK(c) /\ KeyCall(c)
  BY DEF ShowKeys, KeyCreated, KeyDeleted, KeyToggled, Answered, Resume, keyTable, Carried,
         CallsOK, KeysPageInv
<1>2. CallsOK'
  BY <1>1, CallsRemoved
<1>3. \A d \in calls' : KeyCall(d)
  BY <1>1 DEF KeysPageInv
<1>4. CASE ShowKeys(c)
  <2>1. /\ c.kind = "keys" /\ ui' = [ui EXCEPT !.list = c.res["keys"], !.loading = FALSE]
        /\ doubt' = ~c.fresh
    BY <1>4 DEF ShowKeys, Resume
  <2>2. ui'.list = c.res["keys"] /\ DOMAIN ui' = DOMAIN ui /\ ui'.open = ui.open /\ ui'.left = ui.left
    BY <2>1 DEF KeysPageInv
  <2>3. KeyTable(ui'.list) /\ (c.fresh => ui'.list = keys)
    BY <1>1, <2>1, <2>2 DEF KeyCall
  <2>4. doubt' \/ ui'.list = keys
    BY <2>1, <2>3
  <2>5. KeysPageInv'
    BY <1>1, <1>3, <2>2, <2>3, <2>4, KeysStepKeeps
  <2> QED BY <1>2, <2>5
<1>5. CASE KeyCreated(c) \/ KeyDeleted(c)
  <2>1. /\ ui'.due /\ ui'.list = ui.list /\ DOMAIN ui' = DOMAIN ui /\ ui'.open = ui.open
        /\ ui'.left = ui.left
    BY <1>5 DEF KeyCreated, KeyDeleted, Resume, KeysPageInv
  <2>2. KeyTable(ui'.list)
    BY <2>1 DEF KeysPageInv
  <2>3. KeysPageInv'
    BY <1>1, <1>3, <2>1, <2>2, KeysStepKeeps
  <2> QED BY <1>2, <2>3
<1>6. CASE KeyToggled(c)
  <2> DEFINE i == c.arg.id
             on == c.arg.active
             new == [k \in DOMAIN ui.list |-> IF k = i THEN on ELSE ui.list[k]]
  <2>1. c.kind = "toggleKey" /\ ui' = [ui EXCEPT !.list = new] /\ doubt' = (doubt \/ ~c.fresh)
    BY <1>6 DEF KeyToggled, Resume
  <2>2. /\ ui'.list = new /\ ui'.due = ui.due /\ DOMAIN ui' = DOMAIN ui /\ ui'.open = ui.open
        /\ ui'.left = ui.left
    BY <2>1 DEF KeysPageInv
  <2>3. /\ KeyTable(ui.list)
        /\ c.fresh /\ i \in DOMAIN keys => keys[i] = on
    BY <1>1, <2>1 DEF KeysPageInv, KeyCall
  <2>4. KeyTable(new)
    BY <2>3 DEF KeyTable
  <2> HIDE DEF i, on
  <2>5. ASSUME NEW d \in calls' PROVE KeyCall(d)'
    <3>1. KeyCall(d)
      BY <1>3
    <3> QED BY <1>1, <2>2, <3>1 DEF KeyCall, KeyTable, Carried
  <2>6. KeysAgree'
    <3>1. SUFFICES ASSUME ~Unlisted', ~ToReload({"createKey", "deleteKey"})'
                   PROVE  DOMAIN new = DOMAIN keys /\ \A k \in DOMAIN keys : KeyShown(k)'
      BY <1>1, <2>2 DEF KeysAgree
    <3>2. ~Unlisted /\ c.fresh
      BY <1>1, <2>1, <2>2, <3>1 DEF Unlisted
    <3>3. ~ToReload({"createKey", "deleteKey"})
      BY <1>1, <2>1, <3>1 DEF ToReload
    <3>4. DOMAIN ui.list = DOMAIN keys /\ \A k \in DOMAIN keys : KeyShown(k)
      BY <3>2, <3>3 DEF KeysPageInv, KeysAgree
    <3>5. ASSUME NEW k \in DOMAIN keys PROVE KeyShown(k)'
      <4>1. KeyShown(k)
        BY <3>4
      <4>2. CASE k = i
        <5>1. new[k] = keys[k]
          BY <2>3, <3>2, <3>4, <4>2
        <5> QED BY <1>1, <2>2, <5>1 DEF KeyShown
      <4>3. CASE k # i
        <5>1. new[k] = ui.list[k]
          BY <3>4, <4>3
        <5>2. (\E d \in calls : d.kind = "toggleKey" /\ Carried(d) /\ d.arg.id = k) =>
              \E d \in calls' : d.kind = "toggleKey" /\ Carried(d) /\ d.arg.id = k
          BY <1>1, <4>3 DEF i
        <5> QED BY <1>1, <2>2, <4>1, <5>1, <5>2 DEF KeyShown, Carried
      <4> QED BY <4>2, <4>3
    <3> QED BY <3>4, <3>5
  <2>7. KeyTable(keys)' /\ KeyTable(ui.list)'
    BY <1>1, <2>2, <2>4 DEF KeysPageInv, KeyTable
  <2>8. KeysPageInv'
    BY <1>1, <2>2, <2>5, <2>6, <2>7 DEF KeysPageInv
  <2> QED BY <1>2, <2>8
<1> QED BY <1>4, <1>5, <1>6

\* A listing is read; a call fails, or its answer is lost.
LEMMA KeysRead ==
    ASSUME KeysPageInv, CallsOK, at = "keys", NEW c \in calls, ReadKeys(c)
    PROVE  KeysPageInv' /\ CallsOK'
<1> DEFINE d == Did(c, "keys", keys)
<1>1. /\ c.kind = "keys" /\ "keys" \in c.todo /\ calls' = Served(c, "keys", keys) /\ at' = at
      /\ ui' = ui /\ doubt' = doubt /\ keys' = keys /\ made' = made
  BY DEF ReadKeys, keyTable
<1>2. CallOK(c)
  BY DEF CallsOK
<1>12. "keys" \in Parts(c.kind)
  BY <1>1 DEF Parts
<1>3. c.here
  BY <1>1, <1>2 DEF CallOK, Edits
<1>4. CallsOK'
  BY <1>1, <1>3, <1>12, CallsServed
<1>5. CallOK(d) /\ d.res["keys"] = keys
  BY <1>1, <1>2, <1>3, <1>12, DidLast
<1>6. d.kind = c.kind
  BY <1>1, <1>2, <1>3, <1>12, DidLast
<1>7. d \in calls'
  BY <1>1 DEF Served
<1> HIDE DEF d
<1>8. KeyCall(d)
  BY <1>1, <1>5, <1>6 DEF KeyCall, KeysPageInv
<1>9. \A e \in calls' : KeyCall(e)
  BY <1>1, <1>8 DEF Served, KeysPageInv, d
<1>10. KeyTable(ui'.list) /\ DOMAIN ui' = DOMAIN ui
  BY <1>1 DEF KeysPageInv
<1>11. KeysPageInv'
  BY <1>1, <1>6, <1>7, <1>9, <1>10, KeysStepKeeps
<1> QED BY <1>4, <1>11

LEMMA KeysThrow ==
    ASSUME KeysPageInv, CallsOK, at = "keys", NEW c \in calls, KeepKeys(c) \/ KeyAlert(c)
    PROVE  KeysPageInv' /\ CallsOK'
<1>1. /\ calls' = (calls \ {c}) \cup Left(c) /\ at' = at /\ keys' = keys
      /\ made' = made /\ doubt' = (doubt \/ c.kind \notin Edits \/ c.res # <<>>)
  BY DEF KeepKeys, KeyAlert, Throw, keyTable
<1>2. /\ DOMAIN ui' = DOMAIN ui /\ ui'.list = ui.list /\ ui'.due = ui.due /\ ui'.open = ui.open
      /\ ui'.left = ui.left
  BY DEF KeepKeys, KeyAlert, Throw, KeysPageInv
<1>3. CallsOK'
  BY <1>1, CallsThrown
<1>4. CallOK(c) /\ KeyCall(c)
  BY DEF CallsOK, KeysPageInv
<1>5. ASSUME NEW d \in Left(c)
      PROVE  KeyCall(d)
  <2>1. d.kind = c.kind /\ d.arg = c.arg /\ c.kind \in Edits /\ ~Carried(d) /\ ~d.here
    BY <1>4, LeftOK
  <2> QED BY <1>4, <2>1 DEF KeyCall, Edits
<1>6. \A d \in calls' : KeyCall(d)
  BY <1>1, <1>5 DEF KeysPageInv
<1>7. doubt' \/ (c.kind \in Edits /\ ~Carried(c) /\ (doubt => doubt'))
  <2>1. c.res = <<>> <=> c.todo = Parts(c.kind)
    BY <1>4, NothingDone
  <2> QED BY <1>1, <2>1, SomeParts DEF Carried
<1>8. c.kind \in Edits /\ ~Carried(c) =>
      \A e \in calls : e.kind = "keys" \/ Carried(e) =>
         \E d \in calls' : d.kind = e.kind /\ d.arg = e.arg /\ d.todo = e.todo
  BY <1>1 DEF Edits
<1>9. KeyTable(ui'.list)
  BY <1>2 DEF KeysPageInv
<1>10. KeysPageInv'
  BY <1>1, <1>2, <1>6, <1>7, <1>8, <1>9, KeysStepKeeps
<1> QED BY <1>3, <1>10

\* What the statements do to the table.
LEMMA KeysWritten ==
    ASSUME KeysPageInv, CallsOK, NEW c \in calls, KeyCall(c), EditKeys(c)
    PROVE  /\ made' \in Nat /\ made <= made'
           /\ KeyTable(keys)'
           /\ \A j \in 1..made : j # c.arg.id /\ j \in DOMAIN keys' =>
                j \in DOMAIN keys /\ keys'[j] = keys[j]
           /\ c.kind = "toggleKey" =>
                /\ DOMAIN keys' = DOMAIN keys
                /\ \A j \in DOMAIN keys : keys'[j] = IF j = c.arg.id THEN c.arg.active ELSE keys[j]
<1> DEFINE i == c.arg.id
           on == c.arg.active
<1>1. made \in Nat /\ keys = [k \in DOMAIN keys |-> keys[k]] /\ DOMAIN keys \subseteq 1..made
  BY DEF KeysPageInv, KeyTable
<1>2. c.kind \in {"createKey", "deleteKey", "toggleKey"}
  BY DEF EditKeys
<1>3. CASE c.kind = "createKey"
  <2>1. /\ made' = made + 1
        /\ keys' = [k \in DOMAIN keys \cup {made'} |-> IF k = made' THEN TRUE ELSE keys[k]]
    BY <1>3 DEF EditKeys
  <2>2. made' \in Nat /\ made <= made' /\ \A j \in 1..made : j \in 1..made' /\ j # made'
    BY <1>1, <2>1
  <2>3. made' \in 1..made'
    BY <1>1, <2>1
  <2> QED BY <1>1, <1>3, <2>1, <2>2, <2>3 DEF KeyTable
<1>4. CASE c.kind = "deleteKey"
  <2>1. made' = made /\ keys' = [k \in DOMAIN keys \ {i} |-> keys[k]]
    BY <1>4 DEF EditKeys
  <2> QED BY <1>1, <1>4, <2>1 DEF KeyTable
<1>5. CASE c.kind = "toggleKey"
  <2>1. made' = made /\ keys' = [k \in DOMAIN keys |-> IF k = i THEN on ELSE keys[k]]
    BY <1>5 DEF EditKeys
  <2> QED BY <1>1, <2>1 DEF KeyTable
<1> QED BY <1>2, <1>3, <1>4, <1>5

LEMMA StaleKeyCall ==
    ASSUME KeysPageInv, made' \in Nat, made <= made', ui' = ui, NEW i,
           \A j \in 1..made : j # i /\ j \in DOMAIN keys' => j \in DOMAIN keys /\ keys'[j] = keys[j],
           NEW d, NEW e, KeyCall(e), SameCall(d, e),
           d.fresh => e.fresh /\ (e.todo = Parts(e.kind) \/ (e.kind \in Edits /\ e.arg.id # i))
    PROVE  KeyCall(d)'
<1>1. Carried(d) <=> Carried(e)
  BY DEF SameCall, Carried
<1>2. d.kind = e.kind /\ d.arg = e.arg /\ d.res = e.res /\ d.todo = e.todo
  BY DEF SameCall
<1>3. \A t : KeyTable(t) => KeyTable(t)'
  BY DEF KeyTable, KeysPageInv
<1>4. d.kind = "keys" /\ Carried(d) => ~d.fresh
  BY <1>1, <1>2, SomeParts DEF Carried, Edits
<1>5. d.kind = "keys" /\ Carried(d) => KeyTable(d.res["keys"])'
  BY <1>1, <1>2, <1>3 DEF KeyCall
<1>6. d.kind = "createKey" => /\ Carried(d) => d.res["edit"] \in Nat
                              /\ d.here => ui'.open \/ ui'.left
  BY <1>1, <1>2 DEF KeyCall, SameCall
<1>7. ASSUME d.kind = "toggleKey"
      PROVE  /\ d.arg.id \in 1..made'
             /\ Carried(d) /\ d.fresh /\ d.arg.id \in DOMAIN keys' => keys'[d.arg.id] = d.arg.active
  <2> DEFINE j == d.arg.id
  <2>1. /\ j \in 1..made
        /\ Carried(e) /\ e.fresh /\ j \in DOMAIN keys => keys[j] = d.arg.active
    BY <1>2, <1>7 DEF KeyCall
  <2>2. Carried(d) /\ d.fresh => Carried(e) /\ e.fresh /\ j # i
    BY <1>1, <1>2, SomeParts DEF Carried
  <2> HIDE DEF j
  <2>3. j \in 1..made'
    BY <2>1 DEF KeysPageInv
  <2>4. Carried(d) /\ d.fresh /\ j \in DOMAIN keys' => keys'[j] = d.arg.active
    BY <2>1, <2>2
  <2> QED BY <2>3, <2>4 DEF j
<1> QED BY <1>4, <1>5, <1>6, <1>7 DEF KeyCall, Carried

LEMMA KeysEdit ==
    ASSUME KeysPageInv, CallsOK, at = "keys", NEW c \in calls, EditKeys(c)
    PROVE  KeysPageInv' /\ CallsOK'
<1> DEFINE i == c.arg.id
           on == c.arg.active
<1>1. CallOK(c) /\ KeyCall(c)
  BY DEF CallsOK, KeysPageInv
<1>2. c.kind \in {"createKey", "deleteKey", "toggleKey"}
  BY DEF EditKeys
<1>3. c.todo = {"edit"} /\ Parts(c.kind) = {"edit"} /\ ~Carried(c)
  BY <1>1, <1>2 DEF EditKeys, CallOK, Parts, Carried
<1>4. Edit(c, "edit", made') /\ at' = at /\ ui' = ui
  BY DEF EditKeys
<1>5. /\ CallsOK'
      /\ \A d \in calls' :
           \/ CallOK(d) /\ \E e \in calls \ {c} :
                /\ SameCall(d, e)
                /\ d.fresh => /\ e.fresh
                              /\ \/ e.todo = Parts(e.kind)
                                 \/ e.kind \in Edits /\ e.arg.id # i
           \/ CallOK(d) /\ d.kind = c.kind /\ d.arg = c.arg /\ Carried(d) /\ d.res["edit"] = made'
              /\ d.id = c.id
      /\ \A e \in calls \ {c} : \E d \in calls' : SameCall(d, e)
      /\ ~doubt' => /\ ~doubt
                    /\ \E d \in calls' : d.kind = c.kind /\ d.arg = c.arg /\ Carried(d) /\ d.here
  <2>1. "edit" \in Parts(c.kind) /\ \A q \in c.todo : q = "edit"
    BY <1>3
  <2> QED BY <1>4, <2>1, CallsEdited
<1>6. \A d \in calls' : d.here => (d.kind = "createKey" => ui.open \/ ui.left)
  <2>1. \A d \in calls' : d.here => \E e \in calls : e.kind = d.kind /\ e.here
    <3> DEFINE cs == calls \ {c}
    <3>1. calls' = Outdated(cs, i) \cup (IF c.here THEN {Did(c, "edit", made')} ELSE {})
      BY <1>4 DEF Edit
    <3>2. \A e \in cs : CallOK(e)
      BY DEF CallsOK
    <3>3. ASSUME NEW d \in Outdated(cs, i), d.here PROVE \E e \in calls : e.kind = d.kind /\ e.here
      <4>1. PICK e \in cs : SameCall(d, e)
        BY <3>2, OutdatedOK
      <4> QED BY <3>3, <4>1 DEF SameCall
    <3>4. c.here => Did(c, "edit", made').kind = c.kind
      BY <1>1, <1>3, DidOK
    <3>5. c.here => \A d \in {Did(c, "edit", made')} : \E e \in calls : e.kind = d.kind /\ e.here
      BY <3>4
    <3> QED BY <3>1, <3>3, <3>5
  <2> QED BY <2>1 DEF KeysPageInv, KeyCall
<1>8. /\ made' \in Nat /\ made <= made'
      /\ KeyTable(keys)'
      /\ \A j \in 1..made : j # i /\ j \in DOMAIN keys' => j \in DOMAIN keys /\ keys'[j] = keys[j]
  BY <1>1, KeysWritten
<1>9. c.kind = "toggleKey" =>
        /\ DOMAIN keys' = DOMAIN keys
        /\ \A j \in DOMAIN keys : keys'[j] = IF j = i THEN on ELSE keys[j]
  BY <1>1, KeysWritten
<1> HIDE DEF i, on
<1>10. ASSUME NEW d \in calls' PROVE KeyCall(d)'
  <2>1. CASE \E e \in calls \ {c} :
               /\ SameCall(d, e)
               /\ d.fresh => e.fresh /\ (e.todo = Parts(e.kind) \/ (e.kind \in Edits /\ e.arg.id # i))
    <3>1. PICK e \in calls : /\ SameCall(d, e)
                             /\ d.fresh => /\ e.fresh
                                           /\ \/ e.todo = Parts(e.kind)
                                              \/ e.kind \in Edits /\ e.arg.id # i
      BY <2>1
    <3>2. KeyCall(e)
      BY DEF KeysPageInv
    <3> QED BY <1>4, <1>8, <3>1, <3>2, StaleKeyCall
  <2>2. CASE d.kind = c.kind /\ d.arg = c.arg /\ d.res["edit"] = made'
    <3>1. d.kind = "createKey" => /\ d.res["edit"] \in Nat
                                  /\ d.here => ui'.open \/ ui'.left
      BY <1>4, <1>6, <1>8, <2>2
    <3>2. ASSUME d.kind = "toggleKey"
          PROVE  d.arg.id \in 1..made' /\ (i \in DOMAIN keys' => keys'[i] = on)
      <4>1. i \in 1..made
        BY <1>1, <2>2, <3>2 DEF KeyCall, i
      <4>2. i \in 1..made'
        BY <1>8, <4>1 DEF KeysPageInv
      <4>3. i \in DOMAIN keys' => keys'[i] = on
        BY <1>9, <2>2, <3>2
      <4> QED BY <2>2, <4>2, <4>3 DEF i
    <3> QED BY <1>2, <2>2, <3>1, <3>2 DEF KeyCall, i, on
  <2> QED BY <1>5, <2>1, <2>2
<1>11. KeyTable(ui.list)'
  BY <1>4, <1>8 DEF KeyTable, KeysPageInv
<1>12. KeysAgree'
  <2>1. SUFFICES ASSUME ~Unlisted', ~ToReload({"createKey", "deleteKey"})'
                 PROVE  DOMAIN ui.list = DOMAIN keys' /\ \A k \in DOMAIN keys' : KeyShown(k)'
    BY <1>4 DEF KeysAgree
  <2>2. PICK d \in calls' : d.kind = c.kind /\ d.arg = c.arg /\ Carried(d)
    BY <1>5, <2>1 DEF Unlisted
  <2>3. c.kind = "toggleKey"
    BY <1>2, <2>1, <2>2 DEF ToReload, Carried
  <2>4. ~Unlisted
    BY <1>4, <1>5, <2>1, <2>3 DEF Unlisted, SameCall
  <2>5. ~ToReload({"createKey", "deleteKey"})
    BY <1>5, <2>1, <2>3 DEF ToReload, SameCall, Carried
  <2>6. DOMAIN ui.list = DOMAIN keys /\ \A k \in DOMAIN keys : KeyShown(k)
    BY <2>4, <2>5 DEF KeysPageInv, KeysAgree
  <2>7. ASSUME NEW k \in DOMAIN keys' PROVE KeyShown(k)'
    <3>1. k \in DOMAIN keys /\ KeyShown(k)
      BY <1>9, <2>3, <2>6
    <3>2. CASE k = i
      <4>1. \E e \in calls' : e.kind = "toggleKey" /\ Carried(e) /\ e.arg.id = k
        BY <2>2, <2>3, <3>2 DEF i
      <4> QED BY <4>1 DEF KeyShown, Carried
    <3>3. CASE k # i
      <4>1. keys'[k] = keys[k]
        BY <1>9, <2>3, <3>1, <3>3
      <4>2. (\E e \in calls : e.kind = "toggleKey" /\ Carried(e) /\ e.arg.id = k) =>
            \E e \in calls' : e.kind = "toggleKey" /\ Carried(e) /\ e.arg.id = k
        <5>1. ASSUME NEW e \in calls, e.kind = "toggleKey", Carried(e), e.arg.id = k
              PROVE  \E f \in calls' : f.kind = "toggleKey" /\ Carried(f) /\ f.arg.id = k
          <6>1. e \in calls \ {c}
            BY <1>3, <5>1
          <6>2. PICK f \in calls' : SameCall(f, e)
            BY <1>5, <6>1
          <6> QED BY <5>1, <6>2 DEF SameCall, Carried
        <5> QED BY <5>1
      <4> QED BY <1>4, <3>1, <4>1, <4>2 DEF KeyShown, Carried
    <3> QED BY <3>2, <3>3
  <2> QED BY <1>9, <2>3, <2>6, <2>7
<1>13. DOMAIN ui' = DOMAIN ui
  BY <1>4
<1> QED BY <1>5, <1>8, <1>10, <1>11, <1>12, <1>13 DEF KeysPageInv

\* A page that is mounted again.
LEMMA KeysReturn ==
    ASSUME KeysPageInv, CallsOK, at = "keys", Return
    PROVE  KeysPageInv' /\ CallsOK'
<1>1. /\ at' = at /\ ui' = KeysMounted /\ calls' = UNION {Left(c) : c \in calls}
      /\ keys' = keys /\ made' = made
  BY DEF Return, Visit, Mounted, keyTable
<1>2. CallsOK'
  BY <1>1, CallsLeft
<1>3. DOMAIN ui' = DOMAIN ui /\ ui'.list = <<>> /\ ui'.due
  BY <1>1 DEF KeysMounted, KeysPageInv
<1>4. KeyTable(ui'.list)
  <2>1. DOMAIN <<>> = {} /\ <<>> = [m \in {} |-> <<>>[m]]
    OBVIOUS
  <2> QED BY <1>3, <2>1 DEF KeyTable
<1>5. ASSUME NEW d \in calls' PROVE KeyCall(d) /\ ~d.here
  <2>1. PICK c \in calls : d \in Left(c)
    BY <1>1
  <2>2. CallOK(c) /\ KeyCall(c)
    BY DEF CallsOK, KeysPageInv
  <2>3. d.kind = c.kind /\ d.arg = c.arg /\ c.kind \in Edits /\ ~Carried(d) /\ ~d.here
    BY <2>1, <2>2, LeftOK
  <2> QED BY <2>2, <2>3 DEF KeyCall, Edits
<1>6. KeysPageInv'
  BY <1>1, <1>3, <1>4, <1>5, KeysStepKeeps
<1> QED BY <1>2, <1>6

LEMMA KeysStop ==
    ASSUME KeysPageInv, CallsOK, at = "keys", UNCHANGED keyTable, Stop
    PROVE  KeysPageInv' /\ CallsOK'
<1>1. PICK c \in calls : Forget(c)
  BY DEF Stop
<1>2. /\ ~c.here /\ calls' = calls \ {c} /\ at' = at /\ ui' = ui /\ doubt' = doubt
      /\ keys' = keys /\ made' = made
  BY <1>1 DEF Forget, keyTable
<1>3. CallsOK'
  BY <1>2, CallsRemoved
<1>4. c.kind \in Edits /\ ~Carried(c)
  BY <1>2 DEF CallsOK, CallOK
<1>5. \A d \in calls' : KeyCall(d)
  BY <1>2 DEF KeysPageInv
<1>6. \A e \in calls : e.kind = "keys" \/ Carried(e) =>
         \E d \in calls' : d.kind = e.kind /\ d.arg = e.arg /\ d.todo = e.todo
  BY <1>2, <1>4 DEF Edits
<1>7. DOMAIN ui' = DOMAIN ui /\ KeyTable(ui'.list)
  BY <1>2 DEF KeysPageInv
<1>8. KeysPageInv'
  BY <1>2, <1>5, <1>6, <1>7, KeysStepKeeps
<1> QED BY <1>3, <1>8

\* A key is told only to a dialog that shows it.
LEMMA ToldIsSeen ==
    ASSUME KeysPageInv, CallsOK, told \subseteq seen, at = "keys", at' = at, KeysNext
    PROVE  (told \subseteq seen)'
<1>1. seen' = seen \cup OnScreen(ui') /\ KeysStep
  BY DEF KeysNext
<1>2. CASE \E c \in calls : KeyCreated(c)
  <2>1. PICK c \in calls : KeyCreated(c)
    BY <1>2
  <2>2. KeyCall(c) /\ c.kind = "createKey" /\ c.here /\ Carried(c)
    BY <2>1 DEF KeysPageInv, KeyCreated, Answered, Carried
  <2>3. c.res["edit"] \in Nat /\ (ui.open \/ ui.left)
    BY <2>2 DEF KeyCall
  <2>4. /\ told' = told \cup (IF ui.left THEN {} ELSE {c.res["edit"]})
        /\ ui'.open = ui.open /\ ui'.newKey = c.res["edit"]
    BY <2>1 DEF KeyCreated, Resume, KeysPageInv
  <2>5. None \notin Nat
    BY ConsoleAssumption
  <2>6. ~ui.left => OnScreen(ui') = {c.res["edit"]}
    BY <2>3, <2>4, <2>5 DEF OnScreen
  <2> QED BY <1>1, <2>4, <2>6
<1>3. CASE told' = told
  BY <1>1, <1>3
<1>4. (\E c \in calls : KeyCreated(c)) \/ told' = told
  BY <1>1 DEF KeysStep, OpenKeyDialog, NameKey, HandleCloseDialog, HandleCreateKey,
              HandleDeleteKey, HandleToggleKey, OnKeys, LoadKeys, ReadKeys, EditKeys, ShowKeys,
              KeepKeys, KeyDeleted, KeyToggled, KeyAlert
<1> QED BY <1>2, <1>3, <1>4

\* Of all steps these are of the page of the keys.
LEMMA KeysPageKept ==
    ASSUME KeysPageInv, CallsOK, told \subseteq seen, at = "keys", [Next]_vars
    PROVE  KeysPageInv' /\ CallsOK' /\ at' = at /\ (told \subseteq seen)'
<1>1. \A c \in calls : CallOK(c)
  BY DEF CallsOK
<1>2. \A c \in calls : /\ c.kind \in {"keys", "createKey", "deleteKey", "toggleKey"}
                       /\ c.todo \subseteq Parts(c.kind)
  BY <1>1 DEF CallOK, KindsOn
<1>3. \A c \in calls : "models" \notin c.todo /\ "chains" \notin c.todo
  BY <1>2 DEF Parts
<1> DEFINE kept == KeysPageInv' /\ CallsOK' /\ at' = at /\ (told \subseteq seen)'
<1>4. ASSUME ModelsNext PROVE FALSE
  <2>1. PICK c \in calls : \/ c.kind \in {"models", "saveModel", "deleteModel", "toggleModel"}
                           \/ "models" \in c.todo
    BY <1>4 DEF ModelsNext, LoadModels, ReadModels, EditModel, ShowModels, KeepModels, ModelSaved,
         ModelDeleted, ModelToggled, ModelAlert
  <2> QED BY <1>2, <1>3, <2>1
<1>5. ASSUME ChainsNext PROVE FALSE
  <2>1. PICK c \in calls : c.kind \in {"chains", "saveChain", "deleteChain"} \/ "chains" \in c.todo
    BY <1>5 DEF ChainsNext, LoadChains, ReadChains, Begin, Clear, Write, Refuse, InProgress,
         EditChain, ShowChains, KeepChains, ChainSaved, ChainDeleted, ChainAlert
  <2> QED BY <1>2, <1>3, <2>1
<1>6. ASSUME KeysNext PROVE kept
  <2> DEFINE good == KeysPageInv' /\ CallsOK' /\ at' = at
  <2>1. CASE OpenKeyDialog \/ NameKey \/ HandleCloseDialog
    <3>1. at' = at
      BY <2>1 DEF OpenKeyDialog, NameKey, HandleCloseDialog, OnKeys, keyTable
    <3>2. KeysPageInv' /\ CallsOK'
      BY <2>1, KeysClick
    <3>3. (told \subseteq seen)'
      BY <1>6, <3>1, ToldIsSeen
    <3> QED BY <3>1, <3>2, <3>3
  <2>2. CASE HandleCreateKey \/ LoadKeys
             \/ \E k \in DOMAIN ui.list : HandleDeleteKey(k) \/ HandleToggleKey(k)
    <3>1. at' = at
      BY <2>2 DEF HandleCreateKey, LoadKeys, HandleDeleteKey, HandleToggleKey, OnKeys, keyTable
    <3>2. KeysPageInv' /\ CallsOK'
      BY <2>2, KeysAsk
    <3>3. (told \subseteq seen)'
      BY <1>6, <3>1, ToldIsSeen
    <3> QED BY <3>1, <3>2, <3>3
  <2>3. ASSUME NEW c \in calls,
               \/ ReadKeys(c) \/ EditKeys(c) \/ ShowKeys(c) \/ KeepKeys(c)
               \/ KeyCreated(c) \/ KeyDeleted(c) \/ KeyToggled(c) \/ KeyAlert(c)
        PROVE  kept
    <3>1. at' = at
      BY <2>3 DEF ReadKeys, EditKeys, ShowKeys, KeepKeys, KeyCreated, KeyDeleted, KeyToggled,
                  KeyAlert, Resume, Throw
    <3>2. KeysPageInv' /\ CallsOK'
      BY <2>3, KeysRead, KeysEdit, KeysResume, KeysThrow
    <3>3. (told \subseteq seen)'
      BY <1>6, <3>1, ToldIsSeen
    <3> QED BY <3>1, <3>2, <3>3
  <2> HIDE DEF kept
  <2> QED BY <1>6, <2>1, <2>2, <2>3 DEF KeysNext, KeysStep
<1>7. ASSUME Others PROVE FALSE
  BY <1>7 DEF Others
<1>8. ASSUME Stop, UNCHANGED <<keyTable, secrets>> PROVE kept
  <2>1. at' = at
    BY <1>8 DEF Stop, Forget
  <2> QED BY <1>8, <2>1, KeysStop DEF secrets
<1>9. ASSUME Return PROVE kept
  <2>1. at' = at /\ UNCHANGED secrets
    BY <1>9 DEF Return, Visit
  <2> QED BY <1>9, <2>1, KeysReturn DEF secrets
<1>10. ASSUME UNCHANGED vars PROVE kept
  <2>1. /\ at' = at /\ ui' = ui /\ calls' = calls /\ doubt' = doubt /\ keys' = keys
        /\ made' = made /\ told' = told /\ seen' = seen
    BY <1>10 DEF vars, browser, keyTable, secrets
  <2>2. CallsOK'
    BY <2>1 DEF CallsOK, CallOK
  <2>3. (\A d \in calls' : KeyCall(d)) /\ KeyTable(ui'.list)
    BY <2>1 DEF KeysPageInv
  <2>4. KeysPageInv'
    BY <2>1, <2>3, KeysStepKeeps
  <2> QED BY <2>1, <2>2, <2>4
<1>11. kept
  <2> HIDE DEF kept
  <2> QED BY <1>4, <1>5, <1>6, <1>7, <1>8, <1>9, <1>10 DEF Next
<1> QED BY <1>11

-----------------------------------------------------------------------------
(* The page of the chains.                                                  *)

LEMMA SwappedChain ==
    ASSUME NEW s \in Seq(Nat), IsInjective(s), NEW i \in DOMAIN s, NEW j \in DOMAIN s
    PROVE  Swapped(s, i, j) \in Seq(Nat) /\ IsInjective(Swapped(s, i, j))
<1> DEFINE t == Swapped(s, i, j)
<1>1. /\ DOMAIN t = DOMAIN s
      /\ \A k \in DOMAIN s : t[k] = IF k = j THEN s[i] ELSE IF k = i THEN s[j] ELSE s[k]
  BY DEF Swapped
<1>2. t \in Seq(Nat)
  BY DEF Swapped
<1>3. \A k, l \in DOMAIN s : s[k] = s[l] => k = l
  BY DEF IsInjective
<1> HIDE DEF t
<1>4. IsInjective(t)
  BY <1>1, <1>3 DEF IsInjective
<1> QED BY <1>2, <1>4 DEF t

LEMMA ToggledChain ==
    ASSUME NEW s \in Seq(Nat), IsInjective(s), NEW m \in Nat
    PROVE  Toggled(s, m) \in Seq(Nat) /\ IsInjective(Toggled(s, m))
<1>1. CASE Has(s, m)
  <2>1. Toggled(s, m) = Kept(s, ToSet(s) \ {m})
    BY <1>1 DEF Toggled
  <2>2. Kept(s, ToSet(s) \ {m}) \in Seq(Nat)
    BY KeptType
  <2>3. IsInjective(Kept(s, ToSet(s) \ {m}))
    BY KeptInjective
  <2> QED BY <2>1, <2>2, <2>3
<1>2. CASE ~Has(s, m)
  <2>1. Toggled(s, m) = Append(s, m)
    BY <1>2 DEF Toggled
  <2>2. m \notin ToSet(s)
    BY <1>2 DEF Has, ToSet
  <2>3. IsInjective(Append(s, m))
    BY <2>2, InjectiveAppend
  <2>4. Append(s, m) \in Seq(Nat)
    BY AppendProperties
  <2> QED BY <2>1, <2>3, <2>4
<1> QED BY <1>1, <1>2

\* The dialog holds a list of models without repetitions.
LEMMA EmptyChainOK == ChainOK(EmptyChain)
<1>1. DOMAIN <<>> = {} /\ <<>> \in Seq(Nat)
  OBVIOUS
<1>2. IsInjective(<<>>)
  BY <1>1 DEF IsInjective
<1> QED BY <1>1, <1>2 DEF ChainOK, EmptyChain

\* A step keeps the invariant of the page when it keeps its parts, and the tables are shown,
\* or a listing or an answer is to come.
LEMMA ChainsStep ==
    ASSUME ChainsInv, CallsOK, at = "chains", at' = at,
           DOMAIN ui' = DOMAIN ui, DOMAIN ui'.models \subseteq Nat, DOMAIN models' \subseteq Nat,
           OpsOK', ChainTable(chains'), ChainTable(ui'.list), ChainOK(ui'.form),
           ui'.open => ui'.editing = ui'.meant,
           \A d \in calls' : ChainCall(d)',
           \/ doubt' \/ ui'.due \/ \E d \in calls' : d.kind = "chains" \/ Pending(d)
           \/ ui'.list = chains' /\ ui'.models = models'
           \/ /\ ui'.list = ui.list /\ ui'.models = ui.models
              /\ chains' = chains /\ models' = models
              /\ doubt => doubt'
              /\ ui.due => ui'.due
              /\ \A c \in calls : c.kind = "chains" \/ Pending(c) =>
                   \E d \in calls' : d.kind = c.kind /\ (Pending(c) => Pending(d))
    PROVE  ChainsInv'
<1>1. ChainsAgree'
  <2>1. SUFFICES ASSUME ~Unlisted', \A d \in calls' : ~Pending(d)
                 PROVE  ui'.list = chains' /\ ui'.models = models'
    BY DEF ChainsAgree, Pending, Carried
  <2>2. ~doubt' /\ ~ui'.due /\ \A d \in calls' : d.kind # "chains"
    BY <2>1 DEF Unlisted
  <2>3. CASE /\ ui'.list = ui.list /\ ui'.models = ui.models
             /\ chains' = chains /\ models' = models
             /\ doubt => doubt'
             /\ ui.due => ui'.due
             /\ \A c \in calls : c.kind = "chains" \/ Pending(c) =>
                   \E d \in calls' : d.kind = c.kind /\ (Pending(c) => Pending(d))
    <3>1. ~Unlisted
      BY <2>2, <2>3 DEF Unlisted
    <3>2. \A c \in calls : ~Pending(c)
      BY <2>1, <2>3
    <3> QED BY <2>3, <3>1, <3>2 DEF ChainsInv, ChainsAgree
  <2> QED BY <2>1, <2>2, <2>3
<1>2. ChainTable(chains)' /\ ChainTable(ui.list)' /\ ChainOK(ui.form)'
  BY DEF ChainTable, ChainOK
<1> QED BY <1>1, <1>2 DEF ChainsInv

\* While the tables stay, so does what is known of a call.
LEMMA ChainCallKept ==
    ASSUME chains' = chains, models' = models, NEW d, ChainCall(d)
    PROVE  ChainCall(d)'
BY DEF ChainCall, ChainTable, ChainOK

\* A step that leaves the tables and the requests alone.
LEMMA ChainsStepAside ==
    ASSUME ChainsInv, CallsOK, at = "chains", at' = at, UNCHANGED <<models, chains, op>>,
           DOMAIN ui' = DOMAIN ui, DOMAIN ui'.models \subseteq Nat,
           ChainTable(ui'.list), ChainOK(ui'.form),
           ui'.open => ui'.editing = ui'.meant,
           \A d \in calls' : ChainCall(d),
           \/ doubt' \/ ui'.due \/ \E d \in calls' : d.kind = "chains" \/ Pending(d)
           \/ ui'.list = chains' /\ ui'.models = models'
           \/ /\ ui'.list = ui.list /\ ui'.models = ui.models
              /\ doubt => doubt'
              /\ ui.due => ui'.due
              /\ \A c \in calls : c.kind = "chains" \/ Pending(c) =>
                   \E d \in calls' : d.kind = c.kind /\ (Pending(c) => Pending(d))
    PROVE  ChainsInv'
<1>1. models' = models /\ chains' = chains /\ op' = op
  OBVIOUS
<1>2. DOMAIN models' \subseteq Nat /\ ChainTable(chains')
  BY <1>1 DEF ChainsInv
<1>3. OpsOK'
  BY <1>1 DEF ChainsInv, OpsOK, ChainOK
<1>4. \A d \in calls' : ChainCall(d)'
  BY <1>1, ChainCallKept
<1> QED BY <1>1, <1>2, <1>3, <1>4, ChainsStep

\* The user.
LEMMA ChainsClick ==
    ASSUME ChainsInv, CallsOK, at = "chains",
           \/ OpenCreate \/ CloseChain \/ SwitchDefault
           \/ \E b \in ChainBodies : TypeChain(b.name, b.tag)
           \/ \E m \in Offered : ToggleSelected(m)
           \/ \E i \in DOMAIN ui.form.ids, d \in {"up", "down"} : MoveModel(i, d)
           \/ \E i \in DOMAIN ui.list : OpenEdit(i)
    PROVE  ChainsInv' /\ CallsOK' /\ at' = at
<1>1. ASSUME at' = at, calls' = calls, doubt' = doubt, models' = models, chains' = chains,
             op' = op, DOMAIN ui' = DOMAIN ui, ui'.list = ui.list, ui'.models = ui.models,
             ui'.due = ui.due, ChainOK(ui'.form), ui'.open => ui'.editing = ui'.meant
      PROVE  ChainsInv' /\ CallsOK' /\ at' = at
  <2>1. DOMAIN ui'.models \subseteq Nat /\ ChainTable(ui'.list)
    BY <1>1 DEF ChainsInv
  <2>2. \A d \in calls' : ChainCall(d)
    BY <1>1 DEF ChainsInv
  <2>3. ChainsInv'
    BY <1>1, <2>1, <2>2, ChainsStepAside
  <2>4. CallsOK'
    BY <1>1 DEF CallsOK, CallOK
  <2> QED BY <1>1, <2>3, <2>4
<1>2. CASE OpenCreate \/ CloseChain
  <2>1. /\ at' = at /\ calls' = calls /\ doubt' = doubt /\ models' = models /\ chains' = chains
        /\ op' = op
    BY <1>2 DEF OpenCreate, CloseChain, OnChains, Here, catalog
  <2>2. /\ DOMAIN ui' = DOMAIN ui /\ ui'.list = ui.list /\ ui'.models = ui.models
        /\ ui'.due = ui.due /\ ui'.form = EmptyChain /\ (ui'.open => ui'.editing = ui'.meant)
    BY <1>2 DEF OpenCreate, CloseChain, OnChains, ResetForm, ChainsInv
  <2> QED BY <1>1, <2>1, <2>2, EmptyChainOK
<1>3. ASSUME NEW i \in DOMAIN ui.list, OpenEdit(i)
      PROVE  ChainsInv' /\ CallsOK' /\ at' = at
  <2>1. /\ at' = at /\ calls' = calls /\ doubt' = doubt /\ models' = models /\ chains' = chains
        /\ op' = op
    BY <1>3 DEF OpenEdit, OnChains, Here, catalog
  <2>2. /\ DOMAIN ui' = DOMAIN ui /\ ui'.list = ui.list /\ ui'.models = ui.models
        /\ ui'.due = ui.due /\ ui'.form = ui.list[i] /\ (ui'.open => ui'.editing = ui'.meant)
    BY <1>3 DEF OpenEdit, OnChains, ChainsInv
  <2>3. ChainOK(ui'.form)
    BY <2>2 DEF ChainsInv, ChainTable
  <2> QED BY <1>1, <2>1, <2>2, <2>3
<1>4. ASSUME NEW form, InDialog(form), ChainOK(form)
      PROVE  ChainsInv' /\ CallsOK' /\ at' = at
  <2>1. /\ at' = at /\ calls' = calls /\ doubt' = doubt /\ models' = models /\ chains' = chains
        /\ op' = op
    BY <1>4 DEF InDialog, OnChains, Here, catalog
  <2>2. /\ DOMAIN ui' = DOMAIN ui /\ ui'.list = ui.list /\ ui'.models = ui.models
        /\ ui'.due = ui.due /\ ui'.form = form /\ (ui'.open => ui'.editing = ui'.meant)
    BY <1>4 DEF InDialog, OnChains, ChainsInv
  <2> QED BY <1>1, <1>4, <2>1, <2>2
<1>5. ChainOK(ui.form)
  BY DEF ChainsInv
<1>6. CASE SwitchDefault
  <2> DEFINE form == [ui.form EXCEPT !.default = ~@]
  <2>1. ChainOK(form)
    BY <1>5 DEF ChainOK
  <2> QED BY <1>4, <1>6, <2>1 DEF SwitchDefault
<1>7. ASSUME NEW b, TypeChain(b.name, b.tag)
      PROVE  ChainsInv' /\ CallsOK' /\ at' = at
  <2> DEFINE form == [ui.form EXCEPT !.name = b.name, !.tag = b.tag]
  <2>1. ChainOK(form)
    BY <1>5 DEF ChainOK
  <2> QED BY <1>4, <1>7, <2>1 DEF TypeChain
<1>8. ASSUME NEW ids \in Seq(Nat), IsInjective(ids), InDialog([ui.form EXCEPT !.ids = ids])
      PROVE  ChainsInv' /\ CallsOK' /\ at' = at
  <2> DEFINE form == [ui.form EXCEPT !.ids = ids]
  <2>1. ChainOK(form)
    BY <1>5, <1>8 DEF ChainOK
  <2> QED BY <1>4, <1>8, <2>1
<1>9. ASSUME NEW m \in Offered, ToggleSelected(m)
      PROVE  ChainsInv' /\ CallsOK' /\ at' = at
  <2>1. m \in Nat
    BY DEF Offered, ChainsInv
  <2>2. Toggled(ui.form.ids, m) \in Seq(Nat) /\ IsInjective(Toggled(ui.form.ids, m))
    BY <1>5, <2>1, ToggledChain DEF ChainOK
  <2>3. InDialog([ui.form EXCEPT !.ids = Toggled(ui.form.ids, m)])
    BY <1>9 DEF ToggleSelected
  <2> QED BY <1>8, <2>2, <2>3
<1>10. ASSUME NEW i \in DOMAIN ui.form.ids, NEW d, MoveModel(i, d)
       PROVE  ChainsInv' /\ CallsOK' /\ at' = at
  <2> DEFINE j == IF d = "up" THEN i - 1 ELSE i + 1
             ids == ui.form.ids
  <2>1. j \in DOMAIN ids /\ InDialog([ui.form EXCEPT !.ids = Swapped(ids, i, j)])
    BY <1>10 DEF MoveModel
  <2> HIDE DEF j
  <2>2. Swapped(ids, i, j) \in Seq(Nat) /\ IsInjective(Swapped(ids, i, j))
    BY <1>5, <2>1, SwappedChain DEF ChainOK
  <2> QED BY <1>8, <2>1, <2>2
<1> QED BY <1>2, <1>3, <1>6, <1>7, <1>9, <1>10

LEMMA ChainsAsk ==
    ASSUME ChainsInv, CallsOK, at = "chains",
           HandleSaveChain \/ LoadChains \/ \E i \in DOMAIN ui.list : HandleDeleteChain(i)
    PROVE  ChainsInv' /\ CallsOK' /\ at' = at
<1>1. ASSUME NEW kind \in KindsOn(at), NEW arg, Ask(Call(kind, arg, Parts(kind))),
             at' = at, UNCHANGED <<models, chains, op, doubt>>,
             DOMAIN ui' = DOMAIN ui, ui'.list = ui.list, ui'.models = ui.models,
             ui'.form = ui.form, ui'.open = ui.open, ui'.editing = ui.editing,
             ui'.meant = ui.meant, ui'.due = ui.due \/ kind = "chains",
             kind = "saveChain" => arg.id = arg.meant /\ ChainOK(arg.body)
      PROVE  ChainsInv' /\ CallsOK' /\ at' = at
  <2>1. CallsOK'
    BY <1>1, CallsAsked
  <2> DEFINE d == Call(kind, arg, Parts(kind))
  <2>2. Room /\ calls' = calls \cup {d}
    BY <1>1 DEF Ask
  <2>3. d.kind = kind /\ d.arg = arg /\ d.todo = Parts(kind) /\ d.id \in 1..MaxCalls
    BY <1>1, <2>2, NewOK
  <2> HIDE DEF d
  <2>4. d.id \in Admins
    BY <2>3, ConsoleAssumption
  <2>5. ChainCall(d)
    BY <1>1, <2>3, <2>4 DEF ChainCall, Parts
  <2>6. \A e \in calls' : ChainCall(e)
    BY <2>2, <2>5 DEF ChainsInv
  <2>7. /\ DOMAIN ui'.models \subseteq Nat /\ ChainTable(ui'.list) /\ ChainOK(ui'.form)
        /\ ui'.open => ui'.editing = ui'.meant
    BY <1>1 DEF ChainsInv
  <2>8. \/ \E e \in calls' : e.kind = "chains"
        \/ ui'.due = ui.due
    BY <1>1, <2>2, <2>3
  <2>9. ChainsInv'
    BY <1>1, <2>2, <2>6, <2>7, <2>8, ChainsStepAside
  <2> QED BY <1>1, <2>1, <2>9
<1>2. CASE HandleSaveChain
  <2>1. Ask(Call("saveChain", [id |-> ui.editing, body |-> ui.form, meant |-> ui.meant],
                 Parts("saveChain")))
    BY <1>2 DEF HandleSaveChain, SaveChain, Parts
  <2>2. ui.open /\ ui' = [ui EXCEPT !.saving = TRUE] /\ at' = at /\ UNCHANGED <<doubt, models, chains, op>>
    BY <1>2 DEF HandleSaveChain, OnChains, catalog
  <2>3. ui.editing = ui.meant /\ ChainOK(ui.form)
    BY <2>2 DEF ChainsInv
  <2>4. /\ DOMAIN ui' = DOMAIN ui /\ ui'.list = ui.list /\ ui'.models = ui.models
        /\ ui'.form = ui.form /\ ui'.open = ui.open /\ ui'.editing = ui.editing
        /\ ui'.meant = ui.meant /\ ui'.due = ui.due
    BY <2>2 DEF ChainsInv
  <2> QED BY <1>1, <2>1, <2>2, <2>3, <2>4 DEF KindsOn
<1>3. CASE LoadChains
  <2>1. Ask(Call("chains", None, Parts("chains")))
    BY <1>3 DEF LoadChains, LoadBoth, Parts
  <2>2. ui' = [ui EXCEPT !.due = FALSE] /\ at' = at /\ UNCHANGED <<doubt, models, chains, op>>
    BY <1>3 DEF LoadChains, catalog
  <2>4. /\ DOMAIN ui' = DOMAIN ui /\ ui'.list = ui.list /\ ui'.models = ui.models
        /\ ui'.form = ui.form /\ ui'.open = ui.open /\ ui'.editing = ui.editing
        /\ ui'.meant = ui.meant
    BY <2>2 DEF ChainsInv
  <2> QED BY <1>1, <2>1, <2>2, <2>4 DEF KindsOn
<1>4. ASSUME NEW i, HandleDeleteChain(i)
      PROVE  ChainsInv' /\ CallsOK' /\ at' = at
  <2>1. Ask(Call("deleteChain", [id |-> i], Parts("deleteChain")))
    BY <1>4 DEF HandleDeleteChain, DeleteChainCall, Parts
  <2>2. ui' = ui /\ at' = at /\ UNCHANGED <<doubt, models, chains, op>>
    BY <1>4 DEF HandleDeleteChain, OnChains, catalog
  <2> QED BY <1>1, <2>1, <2>2 DEF KindsOn
<1> QED BY <1>2, <1>3, <1>4

\* The answers.
LEMMA ChainsResume ==
    ASSUME ChainsInv, CallsOK, at = "chains", NEW c \in calls,
           ShowChains(c) \/ ChainSaved(c) \/ ChainDeleted(c)
    PROVE  ChainsInv' /\ CallsOK' /\ at' = at
<1>1. /\ Carried(c) /\ at' = at /\ calls' = calls \ {c} /\ models' = models /\ chains' = chains
      /\ op' = op /\ CallOK(c) /\ ChainCall(c)
  BY DEF ShowChains, ChainSaved, ChainDeleted, Answered, Resume, catalog, Carried, CallsOK, ChainsInv
<1>2. CallsOK'
  BY <1>1, CallsRemoved
<1>3. \A d \in calls' : ChainCall(d)
  BY <1>1 DEF ChainsInv
<1>4. CASE ShowChains(c)
  <2>1. /\ c.kind = "chains" /\ doubt' = ~c.fresh
        /\ ui' = [ui EXCEPT !.list = c.res["chains"], !.models = c.res["models"], !.loading = FALSE]
    BY <1>4 DEF ShowChains, Resume
  <2>2. /\ ui'.list = c.res["chains"] /\ ui'.models = c.res["models"] /\ DOMAIN ui' = DOMAIN ui
        /\ ui'.form = ui.form /\ (ui'.open => ui'.editing = ui'.meant)
    BY <2>1 DEF ChainsInv
  <2>3. "chains" \notin c.todo /\ "models" \notin c.todo
    BY <1>1 DEF Carried
  <2>4. /\ ChainTable(ui'.list) /\ (c.fresh => ui'.list = chains)
        /\ DOMAIN ui'.models \subseteq Nat /\ (c.fresh => ui'.models = models)
    BY <1>1, <2>1, <2>2, <2>3 DEF ChainCall
  <2>5. doubt' \/ (ui'.list = chains' /\ ui'.models = models')
    BY <1>1, <2>1, <2>4
  <2>6. ChainOK(ui'.form)
    BY <2>2 DEF ChainsInv
  <2>7. ChainsInv'
    BY <1>1, <1>3, <2>2, <2>4, <2>5, <2>6, ChainsStepAside
  <2> QED BY <1>1, <1>2, <2>7
<1>5. CASE ChainSaved(c) \/ ChainDeleted(c)
  <2>1. /\ ui'.due /\ ui'.list = ui.list /\ ui'.models = ui.models /\ DOMAIN ui' = DOMAIN ui
        /\ ui'.form \in {ui.form, EmptyChain} /\ (ui'.open => ui'.editing = ui'.meant)
    BY <1>5 DEF ChainSaved, ChainDeleted, Resume, ResetForm, ChainsInv
  <2>2. ChainTable(ui'.list) /\ DOMAIN ui'.models \subseteq Nat /\ ChainOK(ui'.form)
    BY <2>1, EmptyChainOK DEF ChainsInv
  <2>3. ChainsInv'
    BY <1>1, <1>3, <2>1, <2>2, ChainsStepAside
  <2> QED BY <1>1, <1>2, <2>3
<1> QED BY <1>4, <1>5

\* One of the two listings is read.
LEMMA ChainsRead ==
    ASSUME ChainsInv, CallsOK, at = "chains", NEW c \in calls,
           ReadChains(c) \/ (c.kind = "chains" /\ ReadModels(c))
    PROVE  ChainsInv' /\ CallsOK' /\ at' = at
<1>1. /\ at' = at /\ ui' = ui /\ doubt' = doubt /\ models' = models /\ chains' = chains
      /\ op' = op
  BY DEF ReadChains, ReadModels, Serving, catalog
<1>2. CallOK(c) /\ ChainCall(c)
  BY DEF CallsOK, ChainsInv
<1>3. c.kind = "chains"
  <2>1. "chains" \in c.todo => c.kind = "chains"
    BY <1>2 DEF CallOK, Parts
  <2> QED BY <2>1 DEF ReadChains
<1>4. c.here /\ Parts(c.kind) = {"chains", "models"}
  BY <1>2, <1>3 DEF CallOK, Edits, Parts
<1>5. ASSUME NEW p \in c.todo, NEW r, calls' = Served(c, p, r),
             (p = "chains" /\ r = chains) \/ (p = "models" /\ r = models)
      PROVE  ChainsInv' /\ CallsOK'
  <2> DEFINE d == Did(c, p, r)
  <2>1. p \in Parts(c.kind)
    BY <1>2, <1>5 DEF CallOK
  <2>2. CallsOK'
    BY <1>1, <1>4, <1>5, <2>1, CallsServed
  <2>3. CallOK(d)
    BY <1>2, <1>4, <2>1, DidOK
  <2>4. d.id = c.id /\ d.kind = c.kind /\ d.fresh = c.fresh /\ d.todo = c.todo \ {p}
    BY <1>2, <1>4, <2>1, DidOK
  <2>17. d.res = [q \in DOMAIN c.res \cup {p} |-> IF q = p THEN r ELSE c.res[q]]
    BY <1>2 DEF Did, CallOK, CallFields
  <2>5. d.res[p] = r
    BY <2>17
  <2>6. \A q \in DOMAIN c.res : q # p => d.res[q] = c.res[q]
    BY <2>17
  <2>7. d \in calls' /\ \A e \in calls' : e = d \/ e \in calls
    BY <1>5 DEF Served
  <2>8. \A e \in calls : e = c \/ e \in calls'
    BY <1>5 DEF Served
  <2> HIDE DEF d
  <2>9. DOMAIN c.res = {"chains", "models"} \ c.todo
    BY <1>2, <1>4 DEF CallOK
  <2> DEFINE both ==
        /\ "chains" \notin d.todo =>
             ChainTable(d.res["chains"]) /\ (d.fresh => d.res["chains"] = chains)
        /\ "models" \notin d.todo =>
             DOMAIN d.res["models"] \subseteq Nat /\ (d.fresh => d.res["models"] = models)
  <2>10. ASSUME p = "chains" PROVE both
    <3>1. d.res["chains"] = chains
      BY <1>5, <2>5, <2>10
    <3>2. "models" \notin d.todo => "models" \notin c.todo
      BY <2>4, <2>10
    <3>3. "models" \notin d.todo => d.res["models"] = c.res["models"]
      BY <2>6, <2>9, <2>10, <3>2
    <3>4. ChainTable(chains)
      BY DEF ChainsInv
    <3>5. "models" \notin d.todo =>
            DOMAIN d.res["models"] \subseteq Nat /\ (d.fresh => d.res["models"] = models)
      BY <1>2, <1>3, <2>4, <3>2, <3>3 DEF ChainCall
    <3> QED BY <3>1, <3>4, <3>5
  <2>11. ASSUME p = "models" PROVE both
    <3>1. d.res["models"] = models
      BY <1>5, <2>5, <2>11
    <3>2. "chains" \notin d.todo => "chains" \notin c.todo
      BY <2>4, <2>11
    <3>3. "chains" \notin d.todo => d.res["chains"] = c.res["chains"]
      BY <2>6, <2>9, <2>11, <3>2
    <3>4. DOMAIN models \subseteq Nat
      BY DEF ChainsInv
    <3>5. "chains" \notin d.todo =>
            ChainTable(d.res["chains"]) /\ (d.fresh => d.res["chains"] = chains)
      BY <1>2, <1>3, <2>4, <3>2, <3>3 DEF ChainCall
    <3> QED BY <3>1, <3>4, <3>5
  <2>18. both
    BY <1>5, <2>10, <2>11
  <2>12. ChainCall(d)
    BY <1>2, <1>3, <2>4, <2>18 DEF ChainCall
  <2>13. \A e \in calls' : ChainCall(e)
    BY <2>7, <2>12 DEF ChainsInv
  <2>14. /\ DOMAIN ui'.models \subseteq Nat /\ ChainTable(ui'.list) /\ ChainOK(ui'.form)
         /\ DOMAIN ui' = DOMAIN ui /\ (ui'.open => ui'.editing = ui'.meant)
    BY <1>1 DEF ChainsInv
  <2>15. \E e \in calls' : e.kind = "chains"
    BY <1>3, <2>4, <2>7
  <2>16. ChainsInv'
    BY <1>1, <2>13, <2>14, <2>15, ChainsStepAside
  <2> QED BY <2>2, <2>16
<1>6. CASE ReadChains(c)
  <2>1. "chains" \in c.todo /\ calls' = Served(c, "chains", chains)
    BY <1>6 DEF ReadChains
  <2>2. ChainsInv' /\ CallsOK'
    BY <1>5, <2>1
  <2> QED BY <1>1, <2>2
<1>7. CASE ReadModels(c)
  <2>1. "models" \in c.todo /\ calls' = Served(c, "models", models)
    BY <1>7 DEF ReadModels
  <2> QED BY <1>1, <1>5, <2>1
<1> QED BY <1>6, <1>7

\* A call fails, or its answer is lost.
LEMMA LeftChainCall ==
    ASSUME NEW c, CallOK(c), ChainCall(c), NEW d \in Left(c)
    PROVE  ChainCall(d) /\ ~d.here
<1>1. /\ d.id = c.id /\ d.kind = c.kind /\ d.arg = c.arg /\ d.todo = c.todo
      /\ c.kind \in Edits /\ ~d.here
  BY LeftOK
<1> QED BY <1>1 DEF ChainCall, Edits

LEMMA ChainsThrow ==
    ASSUME ChainsInv, CallsOK, at = "chains", NEW c \in calls, KeepChains(c) \/ ChainAlert(c)
    PROVE  ChainsInv' /\ CallsOK' /\ at' = at
<1>1. /\ calls' = (calls \ {c}) \cup Left(c) /\ at' = at /\ models' = models /\ chains' = chains
      /\ op' = op /\ doubt' = (doubt \/ c.kind \notin Edits \/ c.res # <<>>)
  BY DEF KeepChains, ChainAlert, Throw, catalog
<1>2. /\ DOMAIN ui' = DOMAIN ui /\ ui'.list = ui.list /\ ui'.models = ui.models
      /\ ui'.due = ui.due /\ ui'.form = ui.form /\ (ui'.open => ui'.editing = ui'.meant)
  BY DEF KeepChains, ChainAlert, Throw, ChainsInv
<1>3. CallsOK'
  BY <1>1, CallsThrown
<1>4. CallOK(c) /\ ChainCall(c)
  BY DEF CallsOK, ChainsInv
<1>5. \A d \in Left(c) : ChainCall(d)
  BY <1>4, LeftChainCall
<1>6. \A d \in calls' : ChainCall(d)
  BY <1>1, <1>5 DEF ChainsInv
<1>7. doubt' \/ (c.kind \in Edits /\ c.todo = Parts(c.kind) /\ (doubt => doubt'))
  <2>1. c.res = <<>> <=> c.todo = Parts(c.kind)
    BY <1>4, NothingDone
  <2> QED BY <1>1, <2>1
<1>8. c.kind \in Edits /\ c.todo = Parts(c.kind) => ~Pending(c) /\ c.kind # "chains"
  BY SomeParts DEF Edits, Pending, Parts, Carried
<1>9. ~Pending(c) /\ c.kind # "chains" =>
      \A e \in calls : e.kind = "chains" \/ Pending(e) =>
         \E d \in calls' : d.kind = e.kind /\ (Pending(e) => Pending(d))
  BY <1>1
<1>10. ChainTable(ui'.list) /\ DOMAIN ui'.models \subseteq Nat /\ ChainOK(ui'.form)
  BY <1>2 DEF ChainsInv
<1>11. ChainsInv'
  BY <1>1, <1>2, <1>6, <1>7, <1>8, <1>9, <1>10, ChainsStepAside
<1> QED BY <1>1, <1>3, <1>11

LEMMA ChainsReturn ==
    ASSUME ChainsInv, CallsOK, at = "chains", Return
    PROVE  ChainsInv' /\ CallsOK' /\ at' = at
<1>1. /\ at' = at /\ ui' = ChainsMounted /\ calls' = UNION {Left(c) : c \in calls}
      /\ models' = models /\ chains' = chains /\ op' = op
  BY DEF Return, Visit, Mounted, catalog
<1>2. CallsOK'
  BY <1>1, CallsLeft
<1>3. /\ DOMAIN ui' = DOMAIN ui /\ ui'.list = <<>> /\ ui'.models = <<>> /\ ui'.due
      /\ ~ui'.open /\ ui'.form = EmptyChain
  BY <1>1 DEF ChainsMounted, ChainsInv
<1>4. ChainTable(ui'.list) /\ DOMAIN ui'.models \subseteq Nat /\ ChainOK(ui'.form)
  <2>1. DOMAIN <<>> = {}
    OBVIOUS
  <2> QED BY <1>3, <2>1, EmptyChainOK DEF ChainTable
<1>5. ASSUME NEW d \in calls' PROVE ChainCall(d)
  <2>1. PICK c \in calls : d \in Left(c)
    BY <1>1
  <2>2. CallOK(c) /\ ChainCall(c)
    BY DEF CallsOK, ChainsInv
  <2> QED BY <2>1, <2>2, LeftChainCall
<1>6. ChainsInv'
  BY <1>1, <1>3, <1>4, <1>5, ChainsStepAside
<1> QED BY <1>1, <1>2, <1>6

LEMMA ChainsStop ==
    ASSUME ChainsInv, CallsOK, at = "chains", UNCHANGED catalog, Stop
    PROVE  ChainsInv' /\ CallsOK' /\ at' = at
<1>1. PICK c \in calls : Forget(c)
  BY DEF Stop
<1>2. /\ ~c.here /\ calls' = calls \ {c} /\ at' = at /\ ui' = ui /\ doubt' = doubt
      /\ models' = models /\ chains' = chains /\ op' = op
  BY <1>1 DEF Forget, catalog
<1>3. CallsOK'
  BY <1>2, CallsRemoved
<1>4. c.kind \in Edits
  BY <1>2 DEF CallsOK, CallOK
<1>5. \A d \in calls' : ChainCall(d)
  BY <1>2 DEF ChainsInv
<1>6. \A e \in calls : e.kind = "chains" \/ Pending(e) =>
         \E d \in calls' : d.kind = e.kind /\ (Pending(e) => Pending(d))
  BY <1>2, <1>4 DEF Edits, Pending
<1>7. /\ DOMAIN ui' = DOMAIN ui /\ (ui'.open => ui'.editing = ui'.meant) /\ ChainTable(ui'.list)
      /\ DOMAIN ui'.models \subseteq Nat /\ ChainOK(ui'.form)
  BY <1>2 DEF ChainsInv
<1>8. ChainsInv'
  BY <1>2, <1>5, <1>6, <1>7, ChainsStepAside
<1> QED BY <1>2, <1>3, <1>8

\* What the statements do to the table and to the requests.
LEMMA ChainsWritten ==
    ASSUME ChainsInv, NEW a \in Admins,
           \/ \E i, body : ChainOK(body) /\ BeginChain(a, i, body)
           \/ ClearDefault(a) \/ ClearFails(a)
           \/ InsertChain(a) \/ UpdateChain(a) \/ WriteFails(a)
           \/ \E i : DeleteChain(i)
    PROVE  OpsOK' /\ ChainTable(chains') /\ models' = models
<1>1. /\ DOMAIN op = Admins
      /\ \A b \in Admins : DOMAIN op[b] = {"at", "id", "body"}
      /\ \A b \in Admins : op[b].at # "idle" => ChainOK(op[b].body)
      /\ \A i \in DOMAIN chains : ChainOK(chains[i])
  BY DEF ChainsInv, OpsOK, ChainTable
<1>2. ASSUME NEW o, op' = [op EXCEPT ![a] = o], DOMAIN o = {"at", "id", "body"},
             o.at # "idle" => ChainOK(o.body)
      PROVE  OpsOK'
  <2>1. DOMAIN op' = Admins /\ \A b \in Admins : op'[b] = IF b = a THEN o ELSE op[b]
    BY <1>1, <1>2
  <2> QED BY <1>1, <1>2, <2>1 DEF OpsOK, ChainOK
<1>3. DOMAIN Idle = {"at", "id", "body"} /\ Idle.at = "idle"
  BY DEF Idle
<1>4. ASSUME op[a].at # "idle", op' = [op EXCEPT ![a].at = "write"]
      PROVE  OpsOK'
  <2> DEFINE o == [op[a] EXCEPT !.at = "write"]
  <2>1. op' = [op EXCEPT ![a] = o] /\ DOMAIN o = {"at", "id", "body"} /\ o.body = op[a].body
    BY <1>1, <1>4
  <2>2. ChainOK(o.body)
    BY <1>1, <1>4, <2>1
  <2> HIDE DEF o
  <2> QED BY <1>2, <2>1, <2>2
<1>5. CASE \E i, body : ChainOK(body) /\ BeginChain(a, i, body)
  <2>1. PICK i, body : ChainOK(body) /\ BeginChain(a, i, body)
    BY <1>5
  <2> DEFINE o == [at |-> IF body.default THEN "clear" ELSE "write", id |-> i, body |-> body]
  <2>2. op' = [op EXCEPT ![a] = o] /\ chains' = chains /\ models' = models
    BY <2>1 DEF BeginChain
  <2>3. DOMAIN o = {"at", "id", "body"} /\ ChainOK(o.body)
    BY <2>1
  <2> HIDE DEF o
  <2> QED BY <1>1, <1>2, <2>2, <2>3 DEF ChainTable
<1>6. CASE ClearDefault(a) \/ ClearFails(a)
  <2>1. OpsOK'
    BY <1>4, <1>6 DEF ClearDefault, ClearFails
  <2>2. CASE ClearDefault(a)
    <3>1. chains' = [i \in DOMAIN chains |->
                      IF i # op[a].id THEN [chains[i] EXCEPT !.default = FALSE] ELSE chains[i]]
      BY <2>2 DEF ClearDefault
    <3>2. \A i \in DOMAIN chains : ChainOK([chains[i] EXCEPT !.default = FALSE])
      BY <1>1 DEF ChainOK
    <3>3. DOMAIN chains' = DOMAIN chains /\ \A i \in DOMAIN chains : ChainOK(chains'[i])
      BY <1>1, <3>1, <3>2
    <3> QED BY <2>1, <2>2, <3>3 DEF ChainTable, ClearDefault
  <2>3. CASE ClearFails(a)
    BY <1>1, <2>1, <2>3 DEF ClearFails, ChainTable
  <2> QED BY <1>6, <2>2, <2>3
<1>7. CASE InsertChain(a)
  <2> DEFINE n == created.chains + 1
             row == op[a].body
  <2>1. /\ op[a].at = "write" /\ chains' = Update(chains, n, row) /\ op' = [op EXCEPT ![a] = Idle]
        /\ models' = models
    BY <1>7 DEF InsertChain
  <2>2. ChainOK(row)
    BY <1>1, <2>1
  <2> HIDE DEF n, row
  <2>3. ChainTable(chains')
    BY <1>1, <2>1, <2>2 DEF ChainTable, Update
  <2>4. OpsOK'
    BY <1>2, <1>3, <2>1
  <2> QED BY <2>1, <2>3, <2>4
<1>8. CASE UpdateChain(a)
  <2> DEFINE n == op[a].id
             row == op[a].body
  <2>1. /\ op[a].at = "write" /\ chains' = [chains EXCEPT ![n] = row] /\ op' = [op EXCEPT ![a] = Idle]
        /\ models' = models
    BY <1>8 DEF UpdateChain
  <2>2. ChainOK(row)
    BY <1>1, <2>1
  <2> HIDE DEF n, row
  <2>3. ChainTable(chains')
    BY <1>1, <2>1, <2>2 DEF ChainTable
  <2>4. OpsOK'
    BY <1>2, <1>3, <2>1
  <2> QED BY <2>1, <2>3, <2>4
<1>9. CASE WriteFails(a)
  <2>1. op' = [op EXCEPT ![a] = Idle] /\ chains' = chains /\ models' = models
    BY <1>9 DEF WriteFails
  <2> QED BY <1>1, <1>2, <1>3, <2>1 DEF ChainTable
<1>10. CASE \E i : DeleteChain(i)
  <2>1. PICK i : DeleteChain(i)
    BY <1>10
  <2>2. chains' = [j \in DOMAIN chains \ {i} |-> chains[j]] /\ op' = op /\ models' = models
    BY <2>1 DEF DeleteChain, Without
  <2> QED BY <1>1, <2>2 DEF ChainTable, OpsOK, ChainOK
<1> QED BY <1>5, <1>6, <1>7, <1>8, <1>9, <1>10

\* A listing read before an edit is not fresh after it.
LEMMA StaleChainCall ==
    ASSUME NEW d, NEW e, ChainCall(e), SameCall(d, e), NEW i,
           d.fresh => e.fresh /\ (e.todo = Parts(e.kind) \/ (e.kind \in Edits /\ e.arg.id # i))
    PROVE  ChainCall(d)'
<1>1. d.id = e.id /\ d.kind = e.kind /\ d.arg = e.arg /\ d.res = e.res /\ d.todo = e.todo
  BY DEF SameCall
<1>2. d.kind = "chains" /\ ("chains" \notin d.todo \/ "models" \notin d.todo) => ~d.fresh
  BY <1>1 DEF Parts, Edits
<1>3. d.kind = "chains" /\ "chains" \notin d.todo => ChainTable(d.res["chains"])
  BY <1>1 DEF ChainCall
<1>4. d.kind = "chains" /\ "models" \notin d.todo => DOMAIN d.res["models"] \subseteq Nat
  BY <1>1 DEF ChainCall
<1>5. d.id \in Admins
  BY <1>1 DEF ChainCall
<1>6. d.kind = "saveChain" => /\ d.arg.id = d.arg.meant /\ ChainOK(d.arg.body)
                              /\ "begin" \in d.todo => "write" \in d.todo
  BY <1>1 DEF ChainCall
<1> QED BY <1>2, <1>3, <1>4, <1>5, <1>6 DEF ChainCall, ChainTable, ChainOK

\* The parts of the state the page and the call leave alone.
LEMMA UIKept ==
    ASSUME ChainsInv, ui' = ui
    PROVE  /\ DOMAIN ui' = DOMAIN ui /\ DOMAIN ui'.models \subseteq Nat
           /\ ChainTable(ui'.list) /\ ChainOK(ui'.form) /\ (ui'.open => ui'.editing = ui'.meant)
BY DEF ChainsInv

LEMMA ChainsBegin ==
    ASSUME ChainsInv, CallsOK, at = "chains", NEW c \in calls, Begin(c)
    PROVE  ChainsInv' /\ CallsOK' /\ at' = at
<1> DEFINE d == Did(c, "begin", None)
<1>1. /\ c.kind = "saveChain" /\ "begin" \in c.todo /\ calls' = Served(c, "begin", None)
      /\ BeginChain(c.id, c.arg.id, c.arg.body)
      /\ at' = at /\ ui' = ui /\ doubt' = doubt
  BY DEF Begin, Serving
<1>2. CallOK(c) /\ ChainCall(c)
  BY DEF CallsOK, ChainsInv
<1>3. "begin" \in Parts(c.kind) /\ (c.here \/ \E q \in c.todo : q # "begin")
  BY <1>1, <1>2 DEF Parts, ChainCall
<1>4. CallsOK'
  BY <1>1, <1>3, CallsServed
<1>5. d.id = c.id /\ d.kind = c.kind /\ d.arg = c.arg /\ d.todo = c.todo \ {"begin"}
  BY <1>2 DEF Did, CallOK, CallFields
<1>6. d \in calls' /\ (\A e \in calls' : e = d \/ e \in calls)
      /\ \A e \in calls : e = c \/ e \in calls'
  BY <1>1 DEF Served
<1> HIDE DEF d
<1>7. ChainCall(d)
  BY <1>1, <1>2, <1>5 DEF ChainCall
<1>8. chains' = chains /\ models' = models
  BY <1>1 DEF BeginChain
<1>9. OpsOK' /\ ChainTable(chains') /\ DOMAIN models' \subseteq Nat
  <2>1. c.id \in Admins /\ ChainOK(c.arg.body)
    BY <1>1, <1>2 DEF ChainCall
  <2>2. OpsOK' /\ ChainTable(chains')
    BY <1>1, <2>1, ChainsWritten
  <2> QED BY <1>8, <2>2 DEF ChainsInv
<1>10. \A e \in calls' : ChainCall(e)'
  BY <1>6, <1>7, <1>8, ChainCallKept DEF ChainsInv
<1>11. \A e \in calls : e.kind = "chains" \/ Pending(e) =>
         \E f \in calls' : f.kind = e.kind /\ (Pending(e) => Pending(f))
  <2>1. Pending(c) => FALSE
    BY <1>1 DEF Pending
  <2> QED BY <1>1, <1>6, <2>1
<1>12. ChainsInv'
  BY <1>1, <1>8, <1>9, <1>10, <1>11, UIKept, ChainsStep
<1> QED BY <1>1, <1>4, <1>12

\* The flag of the other chains is cleared.
LEMMA ChainsClear ==
    ASSUME ChainsInv, CallsOK, at = "chains", NEW c \in calls, Clear(c)
    PROVE  ChainsInv' /\ CallsOK' /\ at' = at
<1>1. /\ c.kind = "saveChain" /\ "begin" \notin c.todo /\ at' = at /\ ui' = ui
  BY DEF Clear, InProgress, Serving
<1>2. (\A e \in calls : CallOK(e)) /\ ChainCall(c) /\ c.id \in Admins
  BY DEF CallsOK, ChainsInv, ChainCall
<1>3. OpsOK' /\ ChainTable(chains') /\ DOMAIN models' \subseteq Nat
  <2>1. OpsOK' /\ ChainTable(chains') /\ models' = models
    BY <1>2, ChainsWritten DEF Clear
  <2> QED BY <2>1 DEF ChainsInv
<1>4. CASE ClearFails(c.id) /\ UNCHANGED <<calls, doubt>>
  <2>1. calls' = calls /\ doubt' = doubt /\ chains' = chains /\ models' = models
    BY <1>4 DEF ClearFails
  <2>2. \A e \in calls' : ChainCall(e)'
    BY <2>1, ChainCallKept DEF ChainsInv
  <2>3. CallsOK'
    BY <1>1, <2>1 DEF CallsOK, CallOK
  <2>4. ChainsInv'
    BY <1>1, <1>3, <2>1, <2>2, UIKept, ChainsStep
  <2> QED BY <1>1, <2>3, <2>4
<1>5. CASE calls' = Outdated(calls, c.arg.id) /\ doubt' = (doubt \/ ~c.here)
  <2> DEFINE i == c.arg.id
  <2>1. CallsOK'
    BY <1>1, <1>5, CallsOutdated
  <2>2. ASSUME NEW d \in calls' PROVE ChainCall(d)'
    <3>1. PICK e \in calls : /\ SameCall(d, e)
                             /\ d.fresh => /\ e.fresh
                                           /\ \/ e.todo = Parts(e.kind)
                                              \/ e.kind \in Edits /\ e.arg.id # i
      BY <1>2, <1>5, OutdatedOK
    <3>2. ChainCall(e)
      BY DEF ChainsInv
    <3> QED BY <3>1, <3>2, StaleChainCall
  <2>3. doubt' \/ \E d \in calls' : Pending(d)
    <3>1. PICK d \in calls' : SameCall(d, c)
      BY <1>2, <1>5, OutdatedAll
    <3> QED BY <1>1, <1>5, <3>1 DEF SameCall, Pending
  <2>4. ChainsInv'
    BY <1>1, <1>3, <2>2, <2>3, UIKept, ChainsStep
  <2> QED BY <1>1, <2>1, <2>4
<1> QED BY <1>4, <1>5 DEF Clear

\* A table was changed: the page that asked will know, or doubts.
LEMMA ChainsChanged ==
    ASSUME ChainsInv, CallsOK, at = "chains", at' = at, ui' = ui, NEW c \in calls,
           NEW p \in Parts(c.kind), \A q \in c.todo : q = p, NEW r, Edit(c, p, r),
           (c.kind = "saveChain" /\ p = "write") \/ c.kind = "deleteChain",
           OpsOK', ChainTable(chains'), models' = models
    PROVE  ChainsInv' /\ CallsOK'
<1> DEFINE i == c.arg.id
<1>1. /\ CallsOK'
      /\ \A d \in calls' :
           \/ CallOK(d) /\ \E e \in calls \ {c} :
                /\ SameCall(d, e)
                /\ d.fresh => /\ e.fresh
                              /\ \/ e.todo = Parts(e.kind)
                                 \/ e.kind \in Edits /\ e.arg.id # i
           \/ CallOK(d) /\ d.kind = c.kind /\ d.arg = c.arg /\ Carried(d) /\ d.res[p] = r
              /\ d.id = c.id
      /\ ~doubt' => /\ ~doubt
                    /\ \E d \in calls' : d.kind = c.kind /\ d.arg = c.arg /\ Carried(d) /\ d.here
  BY CallsEdited
<1>2. ChainCall(c) /\ DOMAIN models' \subseteq Nat
  BY DEF ChainsInv
<1>3. ASSUME NEW d \in calls' PROVE ChainCall(d)'
  <2>1. CASE \E e \in calls \ {c} :
               /\ SameCall(d, e)
               /\ d.fresh => e.fresh /\ (e.todo = Parts(e.kind) \/ (e.kind \in Edits /\ e.arg.id # i))
    <3>1. PICK e \in calls : /\ SameCall(d, e)
                             /\ d.fresh => /\ e.fresh
                                           /\ \/ e.todo = Parts(e.kind)
                                              \/ e.kind \in Edits /\ e.arg.id # i
      BY <2>1
    <3>2. ChainCall(e)
      BY DEF ChainsInv
    <3> QED BY <3>1, <3>2, StaleChainCall
  <2>2. CASE d.kind = c.kind /\ d.arg = c.arg /\ Carried(d) /\ d.id = c.id
    <3>1. d.kind # "chains" /\ d.id \in Admins
      BY <1>2, <2>2 DEF ChainCall
    <3>2. d.kind = "saveChain" => /\ d.arg.id = d.arg.meant /\ ChainOK(d.arg.body)
                                  /\ "begin" \notin d.todo
      BY <1>2, <2>2 DEF ChainCall, Carried
    <3> QED BY <3>1, <3>2 DEF ChainCall, ChainOK
  <2> QED BY <1>1, <2>1, <2>2
<1>4. doubt' \/ \E d \in calls' : Pending(d)
  BY <1>1 DEF Pending, Carried
<1>5. ChainsInv'
  BY <1>2, <1>3, <1>4, UIKept, ChainsStep
<1> QED BY <1>1, <1>5

LEMMA ChainsWrite ==
    ASSUME ChainsInv, CallsOK, at = "chains", NEW c \in calls, Write(c)
    PROVE  ChainsInv' /\ CallsOK' /\ at' = at
<1>1. /\ c.kind = "saveChain" /\ "begin" \notin c.todo /\ at' = at /\ ui' = ui
      /\ Edit(c, "write", "done")
  BY DEF Write, InProgress, Serving
<1>2. CallOK(c) /\ c.id \in Admins
  BY DEF CallsOK, ChainsInv, ChainCall
<1>3. "write" \in Parts(c.kind) /\ \A q \in c.todo : q = "write"
  BY <1>1, <1>2 DEF CallOK, Parts
<1>4. OpsOK' /\ ChainTable(chains') /\ models' = models
  BY <1>2, ChainsWritten DEF Write
<1> QED BY <1>1, <1>3, <1>4, ChainsChanged

LEMMA ChainsDelete ==
    ASSUME ChainsInv, CallsOK, at = "chains", NEW c \in calls, EditChain(c)
    PROVE  ChainsInv' /\ CallsOK' /\ at' = at
<1>1. /\ c.kind = "deleteChain" /\ at' = at /\ ui' = ui
      /\ Edit(c, "edit", None)
      /\ DeleteChain(c.arg.id) \/ Gone(c.arg.id, chains)
  BY DEF EditChain, Serving
<1>2. CallOK(c) /\ c.id \in Admins
  BY DEF CallsOK, ChainsInv, ChainCall
<1>3. "edit" \in Parts(c.kind) /\ \A q \in c.todo : q = "edit"
  BY <1>1, <1>2 DEF CallOK, Parts
<1>4. OpsOK' /\ ChainTable(chains') /\ models' = models
  <2>1. CASE DeleteChain(c.arg.id)
    BY <1>2, <2>1, ChainsWritten
  <2>2. CASE Gone(c.arg.id, chains)
    <3>1. op' = op /\ chains' = chains /\ models' = models
      BY <2>2 DEF Gone, catalog
    <3> QED BY <3>1 DEF ChainsInv, OpsOK, ChainOK
  <2> QED BY <1>1, <2>1, <2>2
<1> QED BY <1>1, <1>3, <1>4, ChainsChanged

\* The answer is an error, to a page that waits.
LEMMA ChainsRefuse ==
    ASSUME ChainsInv, CallsOK, at = "chains", NEW c \in calls, Refuse(c)
    PROVE  ChainsInv' /\ CallsOK' /\ at' = at
<1> DEFINE d == Did(c, "write", "failed")
<1>1. /\ c.kind = "saveChain" /\ "begin" \notin c.todo /\ at' = at /\ ui' = ui /\ doubt' = doubt
      /\ calls' = (calls \ {c}) \cup (IF c.here THEN {d} ELSE {})
      /\ WriteFails(c.id)
  BY DEF Refuse, InProgress, Serving
<1>2. CallOK(c) /\ ChainCall(c) /\ c.id \in Admins
  BY DEF CallsOK, ChainsInv, ChainCall
<1>3. "write" \in Parts(c.kind)
  BY <1>1 DEF Parts
<1>4. CallsOK'
  <2>1. CASE c.here
    <3>1. calls' = Served(c, "write", "failed")
      BY <1>1, <2>1 DEF Served
    <3> QED BY <1>1, <1>3, <2>1, <3>1, CallsServed
  <2>2. CASE ~c.here
    <3>1. calls' = calls \ {c}
      BY <1>1, <2>2
    <3> QED BY <1>1, <3>1, CallsRemoved
  <2> QED BY <2>1, <2>2
<1>5. d.id = c.id /\ d.kind = c.kind /\ d.arg = c.arg /\ d.todo = c.todo \ {"write"}
  BY <1>2 DEF Did, CallOK, CallFields
<1>6. c.here => d.here
  BY <1>2 DEF Did, CallOK, CallFields
<1> HIDE DEF d
<1>7. ChainCall(d)
  BY <1>1, <1>2, <1>5 DEF ChainCall
<1>8. OpsOK' /\ ChainTable(chains') /\ models' = models
  BY <1>1, <1>2, ChainsWritten
<1>9. chains' = chains /\ DOMAIN models' \subseteq Nat
  BY <1>1, <1>8 DEF WriteFails, ChainsInv
<1>10. \A e \in calls' : ChainCall(e)'
  BY <1>1, <1>7, <1>8, <1>9, ChainCallKept DEF ChainsInv
<1>11. \A e \in calls : e.kind = "chains" \/ Pending(e) =>
         \E f \in calls' : f.kind = e.kind /\ (Pending(e) => Pending(f))
  <2>1. Pending(c) => d \in calls' /\ Pending(d)
    BY <1>1, <1>5, <1>6 DEF Pending
  <2> QED BY <1>1, <1>5, <2>1
<1>12. ChainsInv'
  BY <1>1, <1>8, <1>9, <1>10, <1>11, UIKept, ChainsStep
<1> QED BY <1>1, <1>4, <1>12

\* Somebody else edits a model or a chain, or is about to.
LEMMA ChainsElsewhere ==
    ASSUME ChainsInv, CallsOK, at = "chains", Others
    PROVE  ChainsInv' /\ CallsOK' /\ at' = at
<1>1. at' = at /\ ui' = ui /\ ((\E m \in DOMAIN models : OthersModel(m)) \/ OthersChain)
  BY DEF Others
<1>2. Other \in Admins
  BY ConsoleAssumption
<1>3. \A c \in calls : CallOK(c)
  BY DEF CallsOK
<1>4. ASSUME NEW i, Elsewhere(i), OpsOK', ChainTable(chains'), DOMAIN models' \subseteq Nat
      PROVE  ChainsInv' /\ CallsOK'
  <2>1. calls' = Outdated(calls, i) /\ doubt' = TRUE
    BY <1>4 DEF Elsewhere
  <2>2. CallsOK'
    BY <1>1, <2>1, CallsOutdated
  <2>3. ASSUME NEW d \in calls' PROVE ChainCall(d)'
    <3>1. PICK e \in calls : /\ SameCall(d, e)
                             /\ d.fresh => /\ e.fresh
                                           /\ \/ e.todo = Parts(e.kind)
                                              \/ e.kind \in Edits /\ e.arg.id # i
      BY <1>3, <2>1, OutdatedOK
    <3>2. ChainCall(e)
      BY DEF ChainsInv
    <3> QED BY <3>1, <3>2, StaleChainCall
  <2>4. ChainsInv'
    BY <1>1, <1>4, <2>1, <2>3, UIKept, ChainsStep
  <2> QED BY <2>2, <2>4
<1>5. ASSUME NEW m \in DOMAIN models, OthersModel(m)
      PROVE  ChainsInv' /\ CallsOK'
  <2>1. Elsewhere(m) /\ op' = op /\ chains' = chains /\ DOMAIN models' \subseteq DOMAIN models
    BY <1>5 DEF OthersModel, DeleteModel, ToggleModel, Without
  <2>2. OpsOK' /\ ChainTable(chains') /\ DOMAIN models' \subseteq Nat
    BY <2>1 DEF ChainsInv, OpsOK, ChainOK
  <2> QED BY <1>4, <2>1, <2>2
<1>6. CASE OthersChain
  <2>1. ASSUME Unseen, chains' = chains, models' = models, OpsOK'
        PROVE  ChainsInv' /\ CallsOK'
    <3>1. calls' = calls /\ doubt' = doubt
      BY <2>1 DEF Unseen
    <3>2. \A e \in calls' : ChainCall(e)'
      BY <2>1, <3>1, ChainCallKept DEF ChainsInv
    <3>3. CallsOK'
      BY <1>1, <3>1 DEF CallsOK, CallOK
    <3>4. ChainTable(chains') /\ DOMAIN models' \subseteq Nat
      BY <2>1 DEF ChainsInv
    <3>5. ChainsInv'
      BY <1>1, <2>1, <3>1, <3>2, <3>4, UIKept, ChainsStep
    <3> QED BY <3>3, <3>5
  <2>2. ASSUME NEW i, NEW body \in ChainBodies, BeginChain(Other, i, body), Unseen
        PROVE  ChainsInv' /\ CallsOK'
    <3>1. ChainOK(body)
      BY BodyAssumption, ConsoleAssumption DEF ChainOK
    <3>2. OpsOK'
      BY <1>2, <2>2, <3>1, ChainsWritten
    <3>3. chains' = chains /\ models' = models
      BY <2>2 DEF BeginChain
    <3> QED BY <2>1, <2>2, <3>2, <3>3
  <2>3. ASSUME ClearFails(Other) \/ WriteFails(Other), Unseen
        PROVE  ChainsInv' /\ CallsOK'
    <3>1. OpsOK'
      BY <1>2, <2>3, ChainsWritten
    <3>2. chains' = chains /\ models' = models
      BY <2>3 DEF ClearFails, WriteFails
    <3> QED BY <2>1, <2>3, <3>1, <3>2
  <2>4. ASSUME ClearDefault(Other) \/ InsertChain(Other) \/ UpdateChain(Other),
               Elsewhere(op[Other].id)
        PROVE  ChainsInv' /\ CallsOK'
    <3>1. OpsOK' /\ ChainTable(chains') /\ models' = models
      BY <1>2, <2>4, ChainsWritten
    <3>2. DOMAIN models' \subseteq Nat
      BY <3>1 DEF ChainsInv
    <3> QED BY <1>4, <2>4, <3>1, <3>2
  <2>5. ASSUME NEW i, DeleteChain(i), Elsewhere(i)
        PROVE  ChainsInv' /\ CallsOK'
    <3>1. OpsOK' /\ ChainTable(chains') /\ models' = models
      BY <1>2, <2>5, ChainsWritten
    <3>2. DOMAIN models' \subseteq Nat
      BY <3>1 DEF ChainsInv
    <3> QED BY <1>4, <2>5, <3>1, <3>2
  <2> QED BY <1>1, <1>6, <2>2, <2>3, <2>4, <2>5 DEF OthersChain
<1> QED BY <1>1, <1>5, <1>6

\* Of all steps these are of the page of the chains.
LEMMA ChainsPageKept ==
    ASSUME ChainsInv, CallsOK, at = "chains", [Next]_vars
    PROVE  ChainsInv' /\ CallsOK' /\ at' = at /\ UNCHANGED secrets
<1>1. \A c \in calls : CallOK(c)
  BY DEF CallsOK
<1>2. \A c \in calls : c.kind \in {"chains", "saveChain", "deleteChain"}
  BY <1>1 DEF CallOK, KindsOn
<1> DEFINE kept == ChainsInv' /\ CallsOK' /\ at' = at
<1>3. ASSUME ModelsNext PROVE FALSE
  <2>1. PICK c \in calls : c.kind \in {"models", "saveModel", "deleteModel", "toggleModel"}
    BY <1>3 DEF ModelsNext, LoadModels, EditModel, ShowModels, KeepModels, ModelSaved,
         ModelDeleted, ModelToggled, ModelAlert
  <2> QED BY <1>2, <2>1
<1>4. ASSUME KeysNext PROVE FALSE
  <2>1. PICK c \in calls : c.kind \in {"keys", "createKey", "deleteKey", "toggleKey"}
    BY <1>4 DEF KeysNext, KeysStep, LoadKeys, ReadKeys, EditKeys, ShowKeys, KeepKeys,
         KeyCreated, KeyDeleted, KeyToggled, KeyAlert
  <2> QED BY <1>2, <2>1
<1>5. ASSUME ChainsNext PROVE kept
  <2> HIDE DEF kept
  <2>1. CASE \/ OpenCreate \/ CloseChain \/ SwitchDefault
             \/ \E b \in ChainBodies : TypeChain(b.name, b.tag)
             \/ \E m \in Offered : ToggleSelected(m)
             \/ \E i \in DOMAIN ui.form.ids, d \in {"up", "down"} : MoveModel(i, d)
             \/ \E i \in DOMAIN ui.list : OpenEdit(i)
    BY <2>1, ChainsClick DEF kept
  <2>2. CASE HandleSaveChain \/ LoadChains \/ \E i \in DOMAIN ui.list : HandleDeleteChain(i)
    BY <2>2, ChainsAsk DEF kept
  <2>3. ASSUME NEW c \in calls, ReadChains(c) \/ (c.kind = "chains" /\ ReadModels(c)) PROVE kept
    BY <2>3, ChainsRead DEF kept
  <2>4. ASSUME NEW c \in calls, Begin(c) PROVE kept
    BY <2>4, ChainsBegin DEF kept
  <2>5. ASSUME NEW c \in calls, Clear(c) PROVE kept
    BY <2>5, ChainsClear DEF kept
  <2>6. ASSUME NEW c \in calls, Write(c) PROVE kept
    BY <2>6, ChainsWrite DEF kept
  <2>7. ASSUME NEW c \in calls, Refuse(c) PROVE kept
    BY <2>7, ChainsRefuse DEF kept
  <2>8. ASSUME NEW c \in calls, EditChain(c) PROVE kept
    BY <2>8, ChainsDelete DEF kept
  <2>9. ASSUME NEW c \in calls, ShowChains(c) \/ ChainSaved(c) \/ ChainDeleted(c) PROVE kept
    BY <2>9, ChainsResume DEF kept
  <2>10. ASSUME NEW c \in calls, KeepChains(c) \/ ChainAlert(c) PROVE kept
    BY <2>10, ChainsThrow DEF kept
  <2> QED BY <1>5, <2>1, <2>2, <2>3, <2>4, <2>5, <2>6, <2>7, <2>8, <2>9, <2>10 DEF ChainsNext
<1>6. ASSUME Others PROVE kept
  BY <1>6, ChainsElsewhere
<1>7. ASSUME Stop, UNCHANGED catalog PROVE kept
  BY <1>7, ChainsStop
<1>8. ASSUME Return PROVE kept
  BY <1>8, ChainsReturn
<1>9. ASSUME UNCHANGED vars PROVE kept
  <2>1. /\ at' = at /\ ui' = ui /\ calls' = calls /\ doubt' = doubt /\ models' = models
        /\ chains' = chains /\ op' = op
    BY <1>9 DEF vars, browser, catalog
  <2>2. CallsOK'
    BY <2>1 DEF CallsOK, CallOK
  <2>3. \A d \in calls' : ChainCall(d)
    BY <2>1 DEF ChainsInv
  <2>4. ChainsInv'
    BY <2>1, <2>3, UIKept, ChainsStepAside
  <2> QED BY <2>1, <2>2, <2>4
<1>10. UNCHANGED secrets
  BY <1>4 DEF Next, Return, vars
<1>11. kept
  <2> HIDE DEF kept
  <2> QED BY <1>3, <1>4, <1>5, <1>6, <1>7, <1>8, <1>9 DEF Next
<1> QED BY <1>10, <1>11

-----------------------------------------------------------------------------
(* The theorems.                                                            *)

LEMMA NoCallsOK == calls = {} => CallsOK
BY FS_EmptySet DEF CallsOK

\* A page that was never used.
LEMMA ConsoleInitially == Init => ConsoleInv
<1> SUFFICES ASSUME Init PROVE ConsoleInv
  OBVIOUS
<1>1. /\ at \in {"models", "chains", "keys"} /\ ui = Mounted[at] /\ models = FirstModels[at]
      /\ chains = FirstChains[at] /\ op = [a \in Admins |-> Idle] /\ calls = {}
      /\ created = [models |-> Cardinality(DOMAIN models), chains |-> Cardinality(DOMAIN chains)]
      /\ keys = <<>> /\ made = 0 /\ told = {} /\ seen = {} /\ at \in Pages
  BY DEF Init, Pages, Mounted, KeysInit
<1>2. DOMAIN <<>> = {} /\ <<>> = [m \in {} |-> <<>>[m]]
  OBVIOUS
<1>3. CallsOK
  BY <1>1, NoCallsOK
<1>4. PICK n \in 0..MaxModels : models = [m \in 1..n |-> models[m]]
  BY <1>1, ConsoleAssumption
<1>5. n \in Nat /\ DOMAIN models = 1..n
  BY <1>4, BoundAssumption
<1>6. Cardinality(DOMAIN models) = n
  BY <1>5, FS_Interval
<1>7. ASSUME at = "models" PROVE ModelsInv
  <2>1. ui = ModelsMounted
    BY <1>1, <1>7 DEF Mounted
  <2>2. /\ DOMAIN ui = {"list", "loading", "due", "open", "editing", "form", "saving", "meant"}
        /\ ui.list = <<>> /\ ui.due /\ ui.editing = ui.meant
    BY <2>1 DEF ModelsMounted
  <2>3. DOMAIN created = {"models", "chains"} /\ created.models = n
    BY <1>1, <1>6
  <2>4. \A m \in DOMAIN models : IsModel(models[m])
    BY <1>1, ConsoleAssumption DEF IsModel
  <2>5. ModelTable(models)
    BY <1>4, <1>5, <2>3, <2>4 DEF ModelTable
  <2>6. ModelTable(ui.list)
    BY <1>2, <2>2 DEF ModelTable
  <2> QED BY <1>1, <1>5, <2>2, <2>3, <2>5, <2>6 DEF ModelsInv, ModelsAgree, Unlisted
<1>8. ASSUME at = "chains" PROVE ChainsInv
  <2>1. ui = ChainsMounted
    BY <1>1, <1>8 DEF Mounted
  <2>2. /\ DOMAIN ui = {"list", "models", "loading", "due", "open", "editing", "form", "saving",
                        "meant"}
        /\ ui.list = <<>> /\ ui.models = <<>> /\ ui.due /\ ~ui.open /\ ui.form = EmptyChain
    BY <2>1 DEF ChainsMounted
  <2>3. OpsOK
    BY <1>1 DEF OpsOK, Idle
  <2>4. ChainTable(chains)
    BY <1>1, ConsoleAssumption DEF ChainTable, ChainOK
  <2>5. ChainTable(ui.list) /\ ChainOK(ui.form) /\ DOMAIN ui.models \subseteq Nat
    BY <1>2, <2>2, EmptyChainOK DEF ChainTable
  <2>6. DOMAIN models \subseteq Nat
    BY <1>5
  <2> QED BY <1>1, <2>2, <2>3, <2>4, <2>5, <2>6 DEF ChainsInv, ChainsAgree, Unlisted
<1>9. ASSUME at = "keys" PROVE KeysPageInv
  <2>1. ui = KeysMounted
    BY <1>1, <1>9 DEF Mounted
  <2>2. /\ DOMAIN ui = {"list", "loading", "due", "open", "name", "saving", "newKey", "left"}
        /\ ui.list = <<>> /\ ui.due
    BY <2>1 DEF KeysMounted
  <2>3. KeyTable(keys) /\ KeyTable(ui.list)
    BY <1>1, <1>2, <2>2 DEF KeyTable
  <2> QED BY <1>1, <2>2, <2>3 DEF KeysPageInv, KeysAgree, Unlisted
<1> QED BY <1>1, <1>3, <1>7, <1>8, <1>9 DEF ConsoleInv

LEMMA ConsoleStep == ConsoleInv /\ [Next]_vars => ConsoleInv'
<1> SUFFICES ASSUME ConsoleInv, [Next]_vars PROVE ConsoleInv'
  OBVIOUS
<1>1. CallsOK /\ told \subseteq seen /\ at \in {"models", "chains", "keys"}
  BY DEF ConsoleInv, Pages, Mounted
<1>2. CASE at = "models"
  <2>1. ModelsInv
    BY <1>2 DEF ConsoleInv
  <2>2. ModelsInv' /\ CallsOK' /\ at' = at /\ UNCHANGED secrets
    BY <1>1, <1>2, <2>1, ModelsPageKept
  <2>3. at' \in Pages /\ at' = "models" /\ (told \subseteq seen)'
    BY <1>1, <1>2, <2>2 DEF Pages, Mounted, secrets
  <2> QED BY <2>2, <2>3 DEF ConsoleInv
<1>3. CASE at = "chains"
  <2>1. ChainsInv
    BY <1>3 DEF ConsoleInv
  <2>2. ChainsInv' /\ CallsOK' /\ at' = at /\ UNCHANGED secrets
    BY <1>1, <1>3, <2>1, ChainsPageKept
  <2>3. at' \in Pages /\ at' = "chains" /\ (told \subseteq seen)'
    BY <1>1, <1>3, <2>2 DEF Pages, Mounted, secrets
  <2> QED BY <2>2, <2>3 DEF ConsoleInv
<1>4. CASE at = "keys"
  <2>1. KeysPageInv
    BY <1>4 DEF ConsoleInv
  <2>2. KeysPageInv' /\ CallsOK' /\ at' = at /\ (told \subseteq seen)'
    BY <1>1, <1>4, <2>1, KeysPageKept
  <2>3. at' \in Pages /\ at' = "keys"
    BY <1>1, <1>4, <2>2 DEF Pages, Mounted
  <2> QED BY <2>2, <2>3 DEF ConsoleInv
<1> QED BY <1>1, <1>2, <1>3, <1>4

\* Every call a tab has made is one its page makes, an edit outlives its page only before it
\* is carried out, and for each page: what is shown is the table, a listing or an answer is
\* to come, or the page is in doubt; what a fresh answer brings is what the table holds.
THEOREM ConsoleInvariant == Spec => []ConsoleInv
<1>1. Init => ConsoleInv
  BY ConsoleInitially
<1>2. ConsoleInv /\ [Next]_vars => ConsoleInv'
  BY ConsoleStep
<1> QED BY <1>1, <1>2, PTL DEF Spec

\* When no page waits for a call, none was carried out that is not known.
LEMMA NobodyWaits ==
    ASSUME CallsOK, Waiting = {}
    PROVE  \A c \in calls : c.kind \in Edits /\ ~Carried(c) /\ ~c.here
BY DEF CallsOK, CallOK, Waiting

LEMMA ModelsShown ==
    ASSUME ModelsInv, CallsOK, at = "models", Settled
    PROVE  ui.list = models
<1>1. ~ui.due /\ ~doubt /\ \A c \in calls : c.kind \in Edits /\ ~Carried(c)
  BY NobodyWaits DEF Settled
<1>2. ~Unlisted
  BY <1>1 DEF Unlisted, Edits
<1>3. ~ToReload({"saveModel", "deleteModel"})
  BY <1>1 DEF ToReload
<1>4. DOMAIN ui.list = DOMAIN models /\ \A m \in DOMAIN models : RowShown(m)
  BY <1>2, <1>3 DEF ModelsInv, ModelsAgree
<1>5. /\ ui.list = [m \in DOMAIN ui.list |-> ui.list[m]] /\ models = [m \in DOMAIN models |-> models[m]]
      /\ \A m \in DOMAIN models : IsModel(models[m])
      /\ \A m \in DOMAIN ui.list : IsModel(ui.list[m])
  BY DEF ModelsInv, ModelTable
<1>6. ASSUME NEW m \in DOMAIN models PROVE ui.list[m] = models[m]
  <2> DEFINE row == ui.list[m]
             is == models[m]
  <2>1. /\ row = [names |-> row.names, tags |-> row.tags, priority |-> row.priority,
                  active |-> row.active]
        /\ is = [names |-> is.names, tags |-> is.tags, priority |-> is.priority,
                 active |-> is.active]
    BY <1>4, <1>5 DEF IsModel
  <2>2. row.names = is.names /\ row.tags = is.tags /\ row.priority = is.priority
        /\ row.active = is.active
    BY <1>1, <1>4 DEF RowShown
  <2> HIDE DEF row, is
  <2>3. row = is
    BY <2>1, <2>2
  <2> QED BY <2>3 DEF row, is
<1> QED BY <1>4, <1>5, <1>6

LEMMA ChainsShown ==
    ASSUME ChainsInv, CallsOK, at = "chains", Settled
    PROVE  ui.list = chains /\ ui.models = models
<1>1. ~ui.due /\ ~doubt /\ \A c \in calls : c.kind \in Edits /\ ~c.here
  BY NobodyWaits DEF Settled
<1>2. ~Unlisted
  BY <1>1 DEF Unlisted, Edits
<1>3. \A c \in calls : ~Pending(c)
  BY <1>1 DEF Pending
<1> QED BY <1>2, <1>3 DEF ChainsInv, ChainsAgree

LEMMA KeysShown ==
    ASSUME KeysPageInv, CallsOK, at = "keys", Settled
    PROVE  ui.list = keys
<1>1. ~ui.due /\ ~doubt /\ \A c \in calls : c.kind \in Edits /\ ~Carried(c)
  BY NobodyWaits DEF Settled
<1>2. ~Unlisted
  BY <1>1 DEF Unlisted, Edits
<1>3. ~ToReload({"createKey", "deleteKey"})
  BY <1>1 DEF ToReload
<1>4. DOMAIN ui.list = DOMAIN keys /\ \A k \in DOMAIN keys : KeyShown(k)
  BY <1>2, <1>3 DEF KeysPageInv, KeysAgree
<1>5. \A k \in DOMAIN keys : ui.list[k] = keys[k]
  BY <1>1, <1>4 DEF KeyShown
<1>6. ui.list = [k \in DOMAIN ui.list |-> ui.list[k]] /\ keys = [k \in DOMAIN keys |-> keys[k]]
  BY DEF KeysPageInv, KeyTable
<1> QED BY <1>4, <1>5, <1>6

\* After any edits, in any order of the answers, a page on which nothing is outstanding shows
\* what the table holds (models/page.tsx:89-171, chains/page.tsx:69-140,
\* api-keys/page.tsx:51-112).
THEOREM PagesShowTheTables == Spec => []ShownIsTable
<1>1. ConsoleInv => ShownIsTable
  <2> SUFFICES ASSUME ConsoleInv PROVE ShownIsTable
    OBVIOUS
  <2>1. CallsOK
    BY DEF ConsoleInv
  <2>2. ModelsAreShown
    BY <2>1, ModelsShown DEF ModelsAreShown, ConsoleInv
  <2>3. ChainsAreShown
    BY <2>1, ChainsShown DEF ChainsAreShown, ConsoleInv
  <2>4. KeysAreShown
    BY <2>1, KeysShown DEF KeysAreShown, ConsoleInv, Settled
  <2> QED BY <2>2, <2>3, <2>4 DEF ShownIsTable
<1> QED BY <1>1, ConsoleInvariant, PTL

\* A save goes to the row its dialog was opened for, and a chain lists a model once, whatever
\* was clicked, answered, closed and opened in between (models/page.tsx:102-150,
\* chains/page.tsx:88-158).
THEOREM SavesAreMeant == Spec => []SavesHitTheirTarget
<1>1. ConsoleInv => SavesHitTheirTarget
  <2> SUFFICES ASSUME ConsoleInv, NEW c \in calls, c.kind \in {"saveModel", "saveChain"}
               PROVE  /\ c.arg.id = c.arg.meant
                      /\ c.kind = "saveChain" => IsInjective(c.arg.body.ids)
    BY DEF SavesHitTheirTarget
  <2>1. c.kind \in KindsOn(at) /\ at \in {"models", "chains", "keys"}
    BY DEF ConsoleInv, CallsOK, CallOK, Pages, Mounted
  <2>2. CASE c.kind = "saveModel"
    <3>1. at = "models"
      BY <2>1, <2>2 DEF KindsOn
    <3> QED BY <2>2, <3>1 DEF ConsoleInv, ModelsInv, ModelCall
  <2>3. CASE c.kind = "saveChain"
    <3>1. at = "chains"
      BY <2>1, <2>3 DEF KindsOn
    <3> QED BY <2>3, <3>1 DEF ConsoleInv, ChainsInv, ChainCall, ChainOK
  <2> QED BY <2>2, <2>3
<1> QED BY <1>1, ConsoleInvariant, PTL

\* The key that a dialog asked for was on screen, unless the user had closed the dialog
\* (api-keys/page.tsx:64-91,123).
THEOREM NewKeyIsShown == Spec => []KeyIsSeen
<1>1. ConsoleInv => KeyIsSeen
  BY DEF ConsoleInv, KeyIsSeen
<1> QED BY <1>1, ConsoleInvariant, PTL
=============================================================================
