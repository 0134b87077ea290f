--------------------------- MODULE CatalogProofs ---------------------------
(***************************************************************************)
(* Theorems about Catalog and about Router, which queries it: for every    *)
(* set of administrators and of rows they may write, any number of models   *)
(* and chains, and any request.                                            *)
(***************************************************************************)
EXTENDS Router, SequenceLemmas

\* Chains are rows that have a flag, and what an administrator is about to write is one
\* of the rows that may be written.
RowsAreChains ==
    /\ op \in [Admins -> [at : {"idle", "clear", "write"},
                          id : 1..MaxChains \cup {NoChain},
                          body : ChainBodies \cup {NoChain}]]
    /\ \A a \in Admins : op[a].at # "idle" => op[a].body \in ChainBodies
    /\ created \in [models : 0..MaxModels, chains : 0..MaxChains]
    /\ \A c \in DOMAIN chains : "default" \in DOMAIN chains[c] /\ chains[c].default \in BOOLEAN

\* Chains have ids that were given out, so that a new one takes no other's place.
ChainsAreCreated == DOMAIN chains \subseteq 1..created.chains

\* Only a save of a default chain clears the flags.
ClearsForDefault == \A a \in Admins : op[a].at = "clear" => op[a].body.default

DefaultInv == RowsAreChains /\ ChainsAreCreated /\ ClearsForDefault

LEMMA InitDefaultInv == CatalogInit => DefaultInv
  BY BoundAssumption
  DEF CatalogInit, DefaultInv, RowsAreChains, ChainsAreCreated, ClearsForDefault, Idle

\* A statement of an administrator's save.
ChainStep(a) ==
    \/ \E id \in 1..created.chains \cup {NoChain}, body \in ChainBodies : BeginChain(a, id, body)
    \/ ClearDefault(a) \/ ClearFails(a)
    \/ InsertChain(a) \/ UpdateChain(a) \/ WriteFails(a)

LEMMA ChainStepDefaultInv ==
    ASSUME DefaultInv, NEW a \in Admins, ChainStep(a)
    PROVE  DefaultInv'
  <1> USE BoundAssumption DEF DefaultInv, RowsAreChains, ChainsAreCreated, ClearsForDefault
  <1>i. Idle \in [at : {"idle", "clear", "write"}, id : 1..MaxChains \cup {NoChain},
                  body : ChainBodies \cup {NoChain}] /\ Idle.at = "idle"
    BY DEF Idle
  <1>b. \A b \in ChainBodies : "default" \in DOMAIN b /\ b.default \in BOOLEAN
    BY BodyAssumption
  <1>1. ASSUME NEW id \in 1..created.chains \cup {NoChain}, NEW body \in ChainBodies,
               BeginChain(a, id, body)
        PROVE  DefaultInv'
    <2>1. id \in 1..MaxChains \cup {NoChain}
      OBVIOUS
    <2> QED
      BY <1>1, <2>1 DEF BeginChain
  <1>2. CASE ClearDefault(a)
    BY <1>2 DEF ClearDefault
  <1>3. CASE ClearFails(a)
    BY <1>3 DEF ClearFails
  <1>4. CASE InsertChain(a)
    <2>1. op[a].body \in ChainBodies
      BY <1>4 DEF InsertChain
    <2>2. /\ DOMAIN chains' = DOMAIN chains \cup {created.chains + 1}
          /\ \A d \in DOMAIN chains' :
               chains'[d] = op[a].body \/ (d \in DOMAIN chains /\ chains'[d] = chains[d])
      BY <1>4 DEF InsertChain, Update
    <2>3. created'.chains = created.chains + 1 /\ created.chains + 1 \in 0..MaxChains
      BY <1>4 DEF InsertChain
    <2> QED
      BY <1>4, <1>i, <1>b, <2>1, <2>2, <2>3 DEF InsertChain
  <1>5. CASE UpdateChain(a)
    <2>1. op[a].body \in ChainBodies
      BY <1>5 DEF UpdateChain
    <2> QED
      BY <1>5, <1>i, <1>b, <2>1 DEF UpdateChain
  <1>6. CASE WriteFails(a)
    BY <1>6, <1>i DEF WriteFails
  <1> QED
    BY <1>1, <1>2, <1>3, <1>4, <1>5, <1>6 DEF ChainStep

\* Editing models leaves the chains and their saves alone.
LEMMA ModelStep ==
    ASSUME RowsAreChains, EditModels
    PROVE  /\ UNCHANGED <<chains, op>> /\ created'.chains = created.chains
           /\ created' \in [models : 0..MaxModels, chains : 0..MaxChains]
  <1> USE DEF RowsAreChains
  <1>1. ASSUME NEW body \in ModelBodies, CreateModel(body)
        PROVE  UNCHANGED <<chains, op>> /\ created'.chains = created.chains
               /\ created' \in [models : 0..MaxModels, chains : 0..MaxChains]
    BY <1>1, BoundAssumption DEF CreateModel
  <1>2. ASSUME NEW m \in DOMAIN models,
               \/ \E body \in ModelBodies : UpdateModel(m, body)
               \/ DeleteModel(m)
               \/ \E on \in BOOLEAN : ToggleModel(m, on)
        PROVE  UNCHANGED <<chains, op, created>>
    BY <1>2 DEF UpdateModel, ToggleModel, DeleteModel
  <1> QED
    BY <1>1, <1>2 DEF EditModels

\* Every step of an administrator keeps DefaultInv.
LEMMA EditDefaultInv == DefaultInv /\ [CatalogNext]_catalog => DefaultInv'
  <1> SUFFICES ASSUME DefaultInv, [CatalogNext]_catalog PROVE DefaultInv'
    OBVIOUS
  <1> USE DEF DefaultInv, RowsAreChains, ChainsAreCreated, ClearsForDefault
  <1>1. CASE EditModels
    BY <1>1, ModelStep
  <1>2. CASE EditChains
    <2>1. ASSUME NEW c \in DOMAIN chains, DeleteChain(c) PROVE DefaultInv'
      BY <2>1 DEF DeleteChain, Without
    <2> QED
      BY <1>2, <2>1, ChainStepDefaultInv DEF EditChains, ChainStep
  <1>3. CASE UNCHANGED catalog
    BY <1>3 DEF catalog
  <1> QED
    BY <1>1, <1>2, <1>3 DEF CatalogNext

\* How the catalog may lose its default chain.
Accounted ==
    \/ \E a \in Admins : Ends(a) /\ op[a].body.default
    \/ \E a \in Admins : Ends(a) /\ op[a].id \in Default
    \/ \E c \in Default : c \notin DOMAIN chains'

\* An administrator who begins a save leaves the saves that replace the default alone.
LEMMA StillReplacing ==
    ASSUME DefaultInv, NEW a \in Admins, op[a].at # "write", NEW o, op' = [op EXCEPT ![a] = o]
    PROVE  Replacing => Replacing'
  BY DEF DefaultInv, RowsAreChains, Replacing

\* A save loses the default chain only where DefaultIsKept says so.
LEMMA ChainStepKeepsDefault ==
    ASSUME DefaultInv, NEW a \in Admins, ChainStep(a), HasDefault, ~HasDefault'
    PROVE  Accounted
  <1> USE DEF DefaultInv, RowsAreChains
  <1>1. ASSUME NEW id, NEW body, BeginChain(a, id, body) PROVE FALSE
    <2> DEFINE o == [at |-> IF body.default THEN "clear" ELSE "write", id |-> id, body |-> body]
    <2>1. op[a].at # "write"
      BY <1>1 DEF BeginChain, Idle
    <2>2. op' = [op EXCEPT ![a] = o]
      BY <1>1 DEF BeginChain
    <2> HIDE DEF o
    <2> QED
      BY <1>1, <2>1, <2>2, StillReplacing DEF BeginChain, HasDefault, Default
  <1>2. CASE ClearDefault(a) \/ ClearFails(a)
    <2>1. op[a].at = "clear" /\ op[a].body.default /\ op' = [op EXCEPT ![a].at = "write"]
      BY <1>2 DEF ClearDefault, ClearFails, ClearsForDefault
    <2>2. op'[a].at = "write" /\ op'[a].body.default
      BY <2>1
    <2> QED
      BY <2>2 DEF HasDefault, Replacing
  <1>3. CASE InsertChain(a)
    <2> DEFINE c == created.chains + 1
    <2>1. Ends(a)
      BY <1>3 DEF InsertChain, Ends
    <2>2. CASE op[a].body.default
      BY <2>1, <2>2 DEF Accounted
    <2>3. CASE ~op[a].body.default
      <3>1. c \notin DOMAIN chains
        BY DEF ChainsAreCreated
      <3>2. DOMAIN chains \subseteq DOMAIN chains' /\ \A d \in DOMAIN chains : chains'[d] = chains[d]
        BY <1>3, <3>1 DEF InsertChain, Update
      <3>3. Default \subseteq Default'
        BY <3>2 DEF Default
      <3>4. Replacing => Replacing'
        BY <1>3, <2>3 DEF InsertChain, Replacing
      <3> QED
        BY <3>3, <3>4 DEF HasDefault
    <2> QED
      BY <2>2, <2>3
  <1>4. CASE UpdateChain(a)
    <2> DEFINE c == op[a].id
    <2>1. Ends(a)
      BY <1>4 DEF UpdateChain, Ends
    <2>2. CASE op[a].body.default \/ c \in Default
      BY <2>1, <2>2 DEF Accounted
    <2>3. CASE ~op[a].body.default /\ c \notin Default
      <3>1. Default \subseteq Default'
        BY <1>4, <2>3 DEF UpdateChain, Default
      <3>2. Replacing => Replacing'
        BY <1>4, <2>3 DEF UpdateChain, Replacing
      <3> QED
        BY <3>1, <3>2 DEF HasDefault
    <2> QED
      BY <2>2, <2>3
  <1>5. CASE WriteFails(a)
    <2>1. Ends(a)
      BY <1>5 DEF WriteFails, Ends
    <2>2. CASE op[a].body.default
      BY <2>1, <2>2 DEF Accounted
    <2>3. CASE ~op[a].body.default
      BY <1>5, <2>3 DEF WriteFails, HasDefault, Replacing, Default
    <2> QED
      BY <2>2, <2>3
  <1> QED
    BY <1>1, <1>2, <1>3, <1>4, <1>5 DEF ChainStep

\* Whoever saves, deletes and fails between the two statements of a save, the catalog
\* loses its default chain only to a save of a default that failed, to a save of that
\* very chain without the flag, or to its deletion (queries.go:391-448,
\* fallbackchains.go:25-93).
THEOREM DefaultIsNotLost == CatalogSpec => DefaultIsKept
  <1>1. DefaultInv /\ [CatalogNext]_catalog => [HasDefault /\ ~HasDefault' => Accounted]_catalog
    <2> SUFFICES ASSUME DefaultInv, CatalogNext, HasDefault, ~HasDefault' PROVE Accounted
      OBVIOUS
    <2>1. CASE EditModels
      BY <2>1, ModelStep DEF DefaultInv, HasDefault, Default, Replacing
    <2>2. ASSUME NEW c \in DOMAIN chains, DeleteChain(c) PROVE Accounted
      <3>1. CASE c \in Default
        BY <2>2, <3>1 DEF DeleteChain, Without, Accounted
      <3>2. CASE c \notin Default
        BY <2>2, <3>2 DEF DeleteChain, Without, HasDefault, Default, Replacing
      <3> QED
        BY <3>1, <3>2
    <2>3. CASE EditChains
      BY <2>2, <2>3, ChainStepKeepsDefault DEF EditChains, ChainStep
    <2> QED
      BY <2>1, <2>3 DEF CatalogNext
  <1> QED
    BY InitDefaultInv, EditDefaultInv, <1>1, PTL DEF CatalogSpec, DefaultIsKept, Accounted

-----------------------------------------------------------------------------
(* The rows a resolution reads. *)

Ids == 1..MaxModels

\* Models have ids that were given out, and chains hold lists.
RowsAreListed ==
    /\ DOMAIN models \subseteq 1..created.models
    /\ \A c \in DOMAIN chains : "ids" \in DOMAIN chains[c] /\ chains[c].ids \in Seq(Nat)

CatalogInv == DefaultInv /\ RowsAreListed

\* Every step of an administrator keeps the rows what they are.
LEMMA EditKeepsRows == CatalogInv /\ [CatalogNext]_catalog => CatalogInv'
  <1> SUFFICES ASSUME CatalogInv, [CatalogNext]_catalog PROVE CatalogInv'
    OBVIOUS
  <1>d. DefaultInv'
    BY EditDefaultInv DEF CatalogInv
  <1>c. created \in [models : 0..MaxModels, chains : 0..MaxChains] /\ MaxModels \in Nat
    BY BoundAssumption DEF CatalogInv, DefaultInv, RowsAreChains
  <1>1. DOMAIN models' \subseteq 1..created'.models
    <2>1. ASSUME NEW body \in ModelBodies, CreateModel(body)
          PROVE  DOMAIN models' \subseteq 1..created'.models
      <3>1. DOMAIN models' = DOMAIN models \cup {created.models + 1}
              /\ created'.models = created.models + 1
        BY <1>c, <2>1 DEF CreateModel, Update
      <3> QED
        BY <1>c, <3>1 DEF CatalogInv, RowsAreListed
    <2>2. ASSUME NEW m \in DOMAIN models,
                 \/ \E body \in ModelBodies : UpdateModel(m, body)
                 \/ DeleteModel(m)
                 \/ \E on \in BOOLEAN : ToggleModel(m, on)
          PROVE  DOMAIN models' \subseteq 1..created'.models
      <3>1. DOMAIN models' \subseteq DOMAIN models /\ created' = created
        BY <2>2 DEF UpdateModel, DeleteModel, ToggleModel, Without
      <3> QED
        BY <3>1 DEF CatalogInv, RowsAreListed
    <2>3. CASE EditChains \/ UNCHANGED catalog
      <3>1. models' = models
        BY <2>3 DEF EditChains, BeginChain, ClearDefault, ClearFails, InsertChain, UpdateChain,
                    WriteFails, DeleteChain, catalog
      <3>2. created'.models = created.models
        BY <1>c, <2>3 DEF EditChains, BeginChain, ClearDefault, ClearFails, InsertChain,
                          UpdateChain, WriteFails, DeleteChain, catalog
      <3> QED
        BY <3>1, <3>2 DEF CatalogInv, RowsAreListed
    <2> QED
      BY <2>1, <2>2, <2>3 DEF CatalogNext, EditModels
  <1>2. \A c \in DOMAIN chains' : "ids" \in DOMAIN chains'[c] /\ chains'[c].ids \in Seq(Nat)
    <2> USE DEF CatalogInv, RowsAreListed
    <2>b. \A b \in ChainBodies : "ids" \in DOMAIN b /\ b.ids \in Seq(Nat)
      BY BodyAssumption
    <2>1. CASE EditModels \/ UNCHANGED catalog
      BY <2>1 DEF EditModels, CreateModel, UpdateModel, ToggleModel, DeleteModel, catalog
    <2>3. ASSUME NEW a \in Admins, ClearDefault(a)
          PROVE  \A c \in DOMAIN chains' :
                   "ids" \in DOMAIN chains'[c] /\ chains'[c].ids \in Seq(Nat)
      BY <2>3 DEF ClearDefault
    <2>4. ASSUME NEW a \in Admins, InsertChain(a)
          PROVE  \A c \in DOMAIN chains' :
                   "ids" \in DOMAIN chains'[c] /\ chains'[c].ids \in Seq(Nat)
      <3>1. op[a].body \in ChainBodies
        BY <2>4 DEF InsertChain, DefaultInv, RowsAreChains
      <3> QED
        BY <2>b, <2>4, <3>1 DEF InsertChain, Update
    <2>5. ASSUME NEW a \in Admins, UpdateChain(a)
          PROVE  \A c \in DOMAIN chains' :
                   "ids" \in DOMAIN chains'[c] /\ chains'[c].ids \in Seq(Nat)
      <3>1. op[a].body \in ChainBodies
        BY <2>5 DEF UpdateChain, DefaultInv, RowsAreChains
      <3> QED
        BY <2>b, <2>5, <3>1 DEF UpdateChain
    <2>6. ASSUME NEW c \in DOMAIN chains, DeleteChain(c)
          PROVE  \A d \in DOMAIN chains' :
                   "ids" \in DOMAIN chains'[d] /\ chains'[d].ids \in Seq(Nat)
      BY <2>6 DEF DeleteChain, Without
    <2>7. CASE EditChains
      <3>1. ASSUME NEW a \in Admins,
                   (\E id \in 1..created.chains \cup {NoChain}, body \in ChainBodies :
                      BeginChain(a, id, body)) \/ ClearFails(a) \/ WriteFails(a)
            PROVE  chains' = chains
        BY <3>1 DEF BeginChain, ClearFails, WriteFails
      <3> QED
        BY <2>3, <2>4, <2>5, <2>6, <2>7, <3>1 DEF EditChains
    <2> QED
      BY <2>1, <2>7 DEF CatalogNext
  <1> QED
    BY <1>d, <1>1, <1>2 DEF CatalogInv, RowsAreListed

-----------------------------------------------------------------------------
(* Listings. *)

Distinct(s) == \A i, j \in DOMAIN s : s[i] = s[j] => i = j
Listing(s, S) == s \in Seq(Ids) /\ Distinct(s) /\ \A i \in DOMAIN s : s[i] \in S

\* There are finitely many models.
LEMMA ModelsAreIds ==
    ASSUME CatalogInv PROVE DOMAIN models \subseteq Ids /\ Active \subseteq Ids
  <1>1. created.models \in 0..MaxModels /\ MaxModels \in Nat
    BY BoundAssumption DEF CatalogInv, DefaultInv, RowsAreChains
  <1> QED
    BY <1>1 DEF CatalogInv, RowsAreListed, Ids, Active

\* What a query lists by priority, it lists once.
LEMMA ListedOnce ==
    ASSUME NEW S \in SUBSET Ids, NEW s \in ByPriority(S)
    PROVE  Listing(s, S)
  <1>1. IsFiniteSet(S) /\ Cardinality(S) \in Nat
    <2>1. IsFiniteSet(Ids)
      BY FS_Interval, BoundAssumption DEF Ids
    <2>2. IsFiniteSet(S)
      BY <2>1, FS_Subset
    <2> QED
      BY <2>2, FS_CardinalityType
  <1>2. s \in [1..Cardinality(S) -> S] /\ \A i, j \in DOMAIN s : i < j => s[i] # s[j]
    BY DEF ByPriority
  <1>3. s \in Seq(Ids)
    BY <1>1, <1>2
  <1>4. Distinct(s)
    <2> SUFFICES ASSUME NEW i \in DOMAIN s, NEW j \in DOMAIN s, i # j PROVE s[i] # s[j]
      BY DEF Distinct
    <2>1. i \in Int /\ j \in Int
      BY <1>1, <1>2
    <2>2. i < j \/ j < i
      BY <2>1
    <2> QED
      BY <1>2, <2>2
  <1> QED
    BY <1>2, <1>3, <1>4 DEF Listing

\* So it does when it breaks off.
LEMMA TruncatedOnce ==
    ASSUME NEW S, NEW s, Listing(s, S), NEW t \in Truncations(s)
    PROVE  Listing(t, S)
  <1>1. PICK n \in 0..Len(s) : t = SubSeq(s, 1, n)
    BY DEF Truncations
  <1>2. s \in Seq(Ids) /\ Len(s) \in Nat /\ DOMAIN s = 1..Len(s)
    BY DEF Listing
  <1>3. t \in Seq(Ids) /\ Len(t) = n /\ DOMAIN t = 1..n /\ \A i \in 1..n : t[i] = s[i]
    BY <1>1, <1>2
  <1>4. 1..n \subseteq DOMAIN s
    BY <1>2
  <1> QED
    BY <1>3, <1>4 DEF Listing, Distinct

\* The queries of the fallbacks.
LEMMA QueriesList ==
    ASSUME CatalogInv
    PROVE  /\ \A tags : \A s \in GetActiveModelsByTags(tags) : Listing(s, Active)
           /\ \A s \in ListActive : Listing(s, Active)
           /\ \A s \in Peers \cup Rest : Listing(s, Active \ {primary.id})
  <1>1. \A S : S \subseteq Active => \A s \in ByPriority(S) : Listing(s, S)
    BY ModelsAreIds, ListedOnce
  <1>2. \A S : \A s \in ByPriorityAndAge(S) : s \in ByPriority(S)
    BY DEF ByPriorityAndAge
  <1>3. \A tags : Sharing(tags) \subseteq Active
    BY DEF Sharing
  <1>4. \A s, S, T : Listing(s, S) /\ S \subseteq T => Listing(s, T)
    BY DEF Listing
  <1>5. \A tags : \A s \in GetActiveModelsByTags(tags) : Listing(s, Active)
    BY <1>1, <1>3, <1>4 DEF GetActiveModelsByTags
  <1>6. \A s \in ListActive : Listing(s, Active)
    BY <1>1, <1>2 DEF ListActive
  <1>7. \A s \in Peers : Listing(s, Active \ {primary.id})
    <2>1. Sharing(primary.tags) \ {primary.id} \subseteq Active \ {primary.id}
      BY <1>3
    <2> QED
      BY <1>1, <1>4, <2>1 DEF Peers
  <1>8. \A s \in Rest : Listing(s, Active \ {primary.id})
    <2>1. Active \ {primary.id} \subseteq Active
      OBVIOUS
    <2> QED
      BY <1>1, <1>2, <2>1 DEF Rest
  <1> QED
    BY <1>5, <1>6, <1>7, <1>8

-----------------------------------------------------------------------------
(* Listings with a model left out.                                          *)

\* What a query may list of S, when R says what may come before what.
Ordered(S, R) ==
    {s \in [1..Cardinality(S) -> S] :
        \A i, j \in DOMAIN s : i < j => s[i] # s[j] /\ <<s[i], s[j]>> \in R}

\* A listing without p is a listing with p, from which p was left out.
LEMMA LeftOut ==
    ASSUME NEW S, IsFiniteSet(S), NEW p \in S, NEW R,
           \A x, y \in S : x # y => <<x, y>> \in R \/ <<y, x>> \in R,
           \A x, y, z \in S : <<x, y>> \in R /\ <<y, z>> \in R => <<x, z>> \in R,
           NEW s \in Ordered(S \ {p}, R),
           NEW A, S \ {p} \subseteq A, p \notin A
    PROVE  \E t \in Ordered(S, R) : Kept(t, A) = s
  <1> DEFINE n == Cardinality(S \ {p})
             Before(m) == \A i \in 1..n : i > m => <<s[i], p>> \notin R
             T == {m \in 0..n : Before(m)}
  <1>1. n \in Nat /\ Cardinality(S) = n + 1
    <2>1. IsFiniteSet(S \ {p}) /\ Cardinality(S \ {p}) = Cardinality(S) - 1
      BY FS_RemoveElement
    <2>2. Cardinality(S) \in Nat /\ Cardinality(S \ {p}) \in Nat
      BY <2>1, FS_CardinalityType
    <2> QED
      BY <2>1, <2>2
  <1>2. s \in [1..n -> S \ {p}]
        /\ \A i, j \in 1..n : i < j => s[i] # s[j] /\ <<s[i], s[j]>> \in R
    BY DEF Ordered
  <1> HIDE DEF n
  <1>3. PICK q \in T : \A m \in T : q <= m
    <2>1. n \in T /\ T \in SUBSET Nat
      BY <1>1
    <2> HIDE DEF T
    <2> QED
      BY <2>1, Least
  <1>4. q \in 0..n /\ \A i \in 1..n : i > q => <<s[i], p>> \notin R
    BY <1>3
  <1>5. \A i \in 1..q : <<s[i], p>> \in R
    <2>1. SUFFICES ASSUME NEW i \in 1..q PROVE <<s[i], p>> \in R
      OBVIOUS
    <2>2. q - 1 \in 0..n /\ ~(q <= q - 1) /\ q \in 1..n /\ i \in 1..n
      BY <1>1, <1>4
    <2>3. ~Before(q - 1)
      BY <1>3, <2>2
    <2>4. PICK j \in 1..n : j > q - 1 /\ <<s[j], p>> \in R
      BY <2>3
    <2>5. ~(j > q)
      BY <1>4, <2>4
    <2>6. <<s[q], p>> \in R
      <3>1. j = q
        BY <1>1, <1>4, <2>4, <2>5
      <3> QED
        BY <2>4, <3>1
    <2>7. CASE i = q
      BY <2>6, <2>7
    <2>8. CASE i # q
      <3>1. i < q
        BY <1>1, <1>4, <2>2, <2>8
      <3>2. <<s[i], s[q]>> \in R /\ s[i] \in S /\ s[q] \in S
        BY <1>2, <2>2, <3>1
      <3> QED
        BY <2>6, <3>2
    <2> QED
      BY <2>7, <2>8
  <1>6. \A i \in 1..n : i > q => <<p, s[i]>> \in R
    <2>1. SUFFICES ASSUME NEW i \in 1..n, i > q PROVE <<p, s[i]>> \in R
      OBVIOUS
    <2>2. s[i] \in S /\ s[i] # p /\ <<s[i], p>> \notin R
      BY <1>2, <1>4, <2>1
    <2> QED
      BY <2>2
  <1> HIDE DEF T, Before
  <1> DEFINE t == [i \in 1..(n + 1) |->
                     IF i <= q THEN s[i] ELSE IF i = q + 1 THEN p ELSE s[i - 1]]
  <1>7. /\ \A i \in 1..(n + 1) : i <= q => i \in 1..n /\ t[i] = s[i]
        /\ \A i \in 1..(n + 1) : i = q + 1 => t[i] = p
        /\ \A i \in 1..(n + 1) : i > q + 1 => i - 1 \in 1..n /\ i - 1 > q /\ t[i] = s[i - 1]
        /\ DOMAIN t = 1..(n + 1)
    BY <1>1, <1>4
  <1>8. \A i \in 1..(n + 1) : i <= q \/ i = q + 1 \/ i > q + 1
    BY <1>1, <1>4
  <1>9. t \in [1..(n + 1) -> S]
    <2>1. ASSUME NEW i \in 1..(n + 1) PROVE t[i] \in S
      <3> HIDE DEF t
      <3> QED
        BY <1>2, <1>7, <1>8
    <2>2. t = [i \in 1..(n + 1) |-> t[i]]
      OBVIOUS
    <2> HIDE DEF t
    <2> QED
      BY <2>1, <2>2
  <1> HIDE DEF t
  <1>10. ASSUME NEW i \in 1..(n + 1), NEW j \in 1..(n + 1), i < j
         PROVE  t[i] # t[j] /\ <<t[i], t[j]>> \in R
    <2>1. CASE j <= q
      <3>1. i <= q
        BY <1>1, <1>4, <1>10, <2>1
      <3> QED
        BY <1>2, <1>7, <1>10, <2>1, <3>1
    <2>2. CASE j = q + 1
      <3>1. i <= q
        BY <1>1, <1>4, <1>10, <2>2
      <3>2. t[i] = s[i] /\ t[j] = p /\ i \in 1..n /\ i \in 1..q
        BY <1>7, <2>2, <3>1
      <3> QED
        BY <1>2, <1>5, <3>2
    <2>3. CASE j > q + 1 /\ i = q + 1
      <3>1. t[i] = p /\ t[j] = s[j - 1] /\ j - 1 \in 1..n /\ j - 1 > q
        BY <1>7, <2>3
      <3> QED
        BY <1>2, <1>6, <3>1
    <2>4. CASE j > q + 1 /\ i <= q
      <3>1. t[i] = s[i] /\ i \in 1..n /\ t[j] = s[j - 1] /\ j - 1 \in 1..n /\ j - 1 > q
        BY <1>7, <2>4
      <3>2. i < j - 1
        BY <1>1, <1>4, <2>4, <3>1
      <3> QED
        BY <1>2, <3>1, <3>2
    <2>5. CASE j > q + 1 /\ i > q + 1
      <3>1. t[i] = s[i - 1] /\ i - 1 \in 1..n /\ t[j] = s[j - 1] /\ j - 1 \in 1..n
        BY <1>7, <2>5
      <3>2. i - 1 < j - 1
        BY <1>10
      <3> QED
        BY <1>2, <3>1, <3>2
    <2> QED
      BY <1>8, <2>1, <2>2, <2>3, <2>4, <2>5
  <1>11. t \in Ordered(S, R)
    BY <1>1, <1>7, <1>9, <1>10 DEF Ordered
  <1>12. Kept(t, A) = s
    <2> DEFINE u == SubSeq(s, 1, q)
               v == SubSeq(s, q + 1, n)
               w == u \o <<p>>
    <2>1. s \in Seq(S) /\ Len(s) = n /\ q \in Nat /\ \A i \in 1..n : s[i] \in S /\ s[i] \in A
      BY <1>1, <1>2, <1>4
    <2>2. u \in Seq(S) /\ Len(u) = q /\ \A i \in 1..q : u[i] = s[i]
      <3>1. \A i \in 1..q : s[i] \in S
        BY <1>1, <1>4, <2>1
      <3>2. /\ u \in Seq(S) /\ Len(u) = IF 1 <= q THEN q - 1 + 1 ELSE 0
            /\ \A i \in 1..(q - 1 + 1) : u[i] = s[1 + i - 1]
        BY <2>1, <3>1, SubSeqProperties
      <3> HIDE DEF u
      <3>3. \A i \in 1..q : i \in 1..(q - 1 + 1) /\ 1 + i - 1 = i
        BY <2>1
      <3>4. Len(u) = q
        BY <2>1, <3>2
      <3> QED
        BY <3>2, <3>3, <3>4
    <2>3. v \in Seq(S) /\ Len(v) = n - q /\ \A i \in 1..(n - q) : v[i] = s[q + i]
      <3>1. \A i \in (q + 1)..n : s[i] \in S
        BY <1>1, <1>4, <2>1
      <3>2. /\ v \in Seq(S) /\ Len(v) = IF q + 1 <= n THEN n - (q + 1) + 1 ELSE 0
            /\ \A i \in 1..(n - (q + 1) + 1) : v[i] = s[(q + 1) + i - 1]
        BY <1>1, <2>1, <3>1, SubSeqProperties
      <3> HIDE DEF v
      <3>3. \A i \in 1..(n - q) : i \in 1..(n - (q + 1) + 1) /\ (q + 1) + i - 1 = q + i
        BY <1>1, <2>1
      <3>4. Len(v) = n - q
        BY <1>1, <1>4, <2>1, <3>2
      <3> QED
        BY <3>2, <3>3, <3>4
    <2>4. u \o v = s
      <3>1. 1 \in 1..(n + 1) /\ q \in (1 - 1)..n /\ n \in q..n
        BY <1>1, <1>4
      <3>2. SubSeq(s, 1, q) \o SubSeq(s, q + 1, n) = SubSeq(s, 1, n)
        BY <2>1, <3>1, ConcatAdjacentSubSeq
      <3>3. SubSeq(s, 1, n) = s
        BY <2>1, SubSeqFull
      <3> QED
        BY <3>2, <3>3
    <2> HIDE DEF u, v
    <2>5. w \in Seq(S) /\ Len(w) = q + 1 /\ (\A i \in 1..q : w[i] = s[i]) /\ w[q + 1] = p
      BY <2>1, <2>2
    <2> HIDE DEF w
    <2>6. t = w \o v
      <3>c. /\ w \o v \in Seq(S) /\ Len(w \o v) = Len(w) + Len(v)
            /\ \A i \in 1..(Len(w) + Len(v)) :
                 (w \o v)[i] = IF i <= Len(w) THEN w[i] ELSE v[i - Len(w)]
        <4>1. w \in Seq(S) /\ v \in Seq(S)
          BY <2>3, <2>5
        <4> QED
          BY <4>1, ConcatProperties, Zenon
      <3>l. Len(w) + Len(v) = n + 1
        BY <1>1, <1>4, <2>3, <2>5
      <3>1. w \o v \in Seq(S) /\ Len(w \o v) = n + 1
        BY <3>c, <3>l
      <3>2. t \in Seq(S) /\ Len(t) = n + 1
        BY <1>1, <1>9
      <3>3. ASSUME NEW i \in 1..(n + 1) PROVE (w \o v)[i] = t[i]
        <4>1. (w \o v)[i] = IF i <= q + 1 THEN w[i] ELSE v[i - (q + 1)]
          BY <2>5, <3>c, <3>l
        <4>2. CASE i <= q
          BY <1>7, <2>1, <2>5, <4>1, <4>2
        <4>3. CASE i = q + 1
          BY <1>7, <2>1, <2>5, <4>1, <4>3
        <4>4. CASE i > q + 1
          <5>1. i - (q + 1) \in 1..(n - q) /\ q + (i - (q + 1)) = i - 1 /\ ~(i <= q + 1)
            BY <1>1, <2>1, <4>4
          <5>2. v[i - (q + 1)] = s[i - 1]
            BY <2>3, <5>1
          <5> QED
            BY <1>7, <4>1, <4>4, <5>1, <5>2
        <4> QED
          BY <1>8, <4>2, <4>3, <4>4
      <3> QED
        BY <3>1, <3>2, <3>3, SeqEqual
    <2> DEFINE e == <<p>>
    <2>7. e \in Seq(S)
      OBVIOUS
    <2>w. w = u \o e
      BY DEF w
    <2>8. Kept(t, A) = Kept(w, A) \o Kept(v, A)
      BY <2>3, <2>5, <2>6, KeptOfConcat
    <2>9. Kept(w, A) = Kept(u, A) \o Kept(e, A)
      <3> HIDE DEF e
      <3> QED
        BY <2>2, <2>7, <2>w, KeptOfConcat
    <2>10. Kept(u, A) = u
      <3>1. ToSet(u) \subseteq A
        <4>1. DOMAIN u = 1..q
          BY <2>2, LenProperties
        <4>2. \A i \in 1..q : s[i] \in A
          BY <1>1, <1>4, <2>1
        <4> QED
          BY <2>2, <4>1, <4>2 DEF ToSet
      <3> QED
        BY <2>2, <3>1, KeptWhole
    <2>11. Kept(v, A) = v
      <3>1. ToSet(v) \subseteq A
        <4>1. DOMAIN v = 1..(n - q)
          BY <2>3, LenProperties
        <4>2. \A i \in 1..(n - q) : q + i \in 1..n
          BY <1>1, <1>4
        <4> QED
          BY <2>1, <2>3, <4>1, <4>2 DEF ToSet
      <3> QED
        BY <2>3, <3>1, KeptWhole
    <2>12. Kept(e, A) = <<>>
      <3>1. ToSet(e) \cap A = {}
        <4>1. DOMAIN e = {1} /\ e[1] = p
          OBVIOUS
        <4> QED
          BY <4>1 DEF ToSet
      <3> QED
        BY <2>7, <3>1, KeptNothing
    <2> QED
      BY <2>2, <2>4, <2>8, <2>9, <2>10, <2>11, <2>12, ConcatEmptySeq
  <1> QED
    BY <1>11, <1>12

\* Models have priorities.
Ranked == \A m \in DOMAIN models : "priority" \in DOMAIN models[m] /\ models[m].priority \in Int

LEMMA EditKeepsRanks == Ranked /\ [CatalogNext]_catalog => Ranked'
  <1> SUFFICES ASSUME Ranked, [CatalogNext]_catalog PROVE Ranked'
    OBVIOUS
  <1>b. \A b \in ModelBodies : b.priority \in Int
    BY BodyAssumption
  <1>1. ASSUME NEW body \in ModelBodies, CreateModel(body) PROVE Ranked'
    BY <1>b, <1>1 DEF CreateModel, Update, Ranked
  <1>2. ASSUME NEW body \in ModelBodies, NEW m \in DOMAIN models, UpdateModel(m, body)
        PROVE  Ranked'
    BY <1>b, <1>2 DEF UpdateModel, Ranked
  <1>3. ASSUME NEW m \in DOMAIN models, NEW on \in BOOLEAN, ToggleModel(m, on) PROVE Ranked'
    BY <1>3 DEF ToggleModel, Ranked
  <1>4. ASSUME NEW m \in DOMAIN models, DeleteModel(m) PROVE Ranked'
    BY <1>4 DEF DeleteModel, Without, Ranked
  <1>5. CASE EditChains \/ UNCHANGED catalog
    <2>1. models' = models
      BY <1>5 DEF EditChains, BeginChain, ClearDefault, ClearFails, InsertChain, UpdateChain,
                  WriteFails, DeleteChain, catalog
    <2> QED
      BY <2>1 DEF Ranked
  <1> QED
    BY <1>1, <1>2, <1>3, <1>4, <1>5 DEF CatalogNext, EditModels

\* The two orders of the queries.
Sooner == {r \in Active \X Active : Priority(r[1]) <= Priority(r[2])}
SoonerOrOlder ==
    {r \in Active \X Active :
        /\ Priority(r[1]) <= Priority(r[2])
        /\ Priority(r[1]) = Priority(r[2]) => r[1] < r[2]}

LEMMA ListingsAreOrdered ==
    ASSUME NEW S \in SUBSET Active
    PROVE  /\ ByPriority(S) = Ordered(S, Sooner)
           /\ ByPriorityAndAge(S) = Ordered(S, SoonerOrOlder)
  <1>1. \A x, y \in S : <<x, y>> \in Sooner <=> Priority(x) <= Priority(y)
    BY DEF Sooner
  <1>2. \A x, y \in S : <<x, y>> \in SoonerOrOlder
                        <=> /\ Priority(x) <= Priority(y)
                            /\ Priority(x) = Priority(y) => x < y
    BY DEF SoonerOrOlder
  <1>3. ByPriority(S) = Ordered(S, Sooner)
    BY <1>1 DEF ByPriority, Ordered
  <1>4. ByPriorityAndAge(S) = Ordered(S, SoonerOrOlder)
    BY <1>2 DEF ByPriorityAndAge, ByPriority, Ordered
  <1> QED
    BY <1>3, <1>4

LEMMA OrdersAreTotal ==
    ASSUME CatalogInv, Ranked
    PROVE  /\ \A x, y \in Active : x # y => <<x, y>> \in Sooner \/ <<y, x>> \in Sooner
           /\ \A x, y, z \in Active :
                <<x, y>> \in Sooner /\ <<y, z>> \in Sooner => <<x, z>> \in Sooner
           /\ \A x, y \in Active :
                x # y => <<x, y>> \in SoonerOrOlder \/ <<y, x>> \in SoonerOrOlder
           /\ \A x, y, z \in Active :
                <<x, y>> \in SoonerOrOlder /\ <<y, z>> \in SoonerOrOlder
                  => <<x, z>> \in SoonerOrOlder
  <1>1. \A x \in Active : Priority(x) \in Int /\ x \in Int
    BY ModelsAreIds DEF Ranked, Active, Priority, Ids
  <1>2. \A x, y \in Active : <<x, y>> \in Sooner <=> Priority(x) <= Priority(y)
    BY DEF Sooner
  <1>3. \A x, y \in Active : <<x, y>> \in SoonerOrOlder
                             <=> /\ Priority(x) <= Priority(y)
                                 /\ Priority(x) = Priority(y) => x < y
    BY DEF SoonerOrOlder
  <1>4. \A x, y \in Active : x # y => <<x, y>> \in Sooner \/ <<y, x>> \in Sooner
    BY <1>1, <1>2
  <1>5. \A x, y, z \in Active :
          <<x, y>> \in Sooner /\ <<y, z>> \in Sooner => <<x, z>> \in Sooner
    BY <1>1, <1>2
  <1>6. \A x, y \in Active : x # y => <<x, y>> \in SoonerOrOlder \/ <<y, x>> \in SoonerOrOlder
    <2>1. SUFFICES ASSUME NEW x \in Active, NEW y \in Active, x # y
          PROVE  <<x, y>> \in SoonerOrOlder \/ <<y, x>> \in SoonerOrOlder
      OBVIOUS
    <2> DEFINE a == Priority(x)
               b == Priority(y)
    <2>2. a \in Int /\ b \in Int /\ x \in Int /\ y \in Int
      BY <1>1
    <2> HIDE DEF a, b
    <2>3. \/ a <= b /\ (a = b => x < y)
          \/ b <= a /\ (b = a => y < x)
      BY <2>1, <2>2
    <2> QED
      BY <1>3, <2>3 DEF a, b
  <1>7. \A x, y, z \in Active :
          <<x, y>> \in SoonerOrOlder /\ <<y, z>> \in SoonerOrOlder => <<x, z>> \in SoonerOrOlder
    <2>1. SUFFICES ASSUME NEW x \in Active, NEW y \in Active, NEW z \in Active,
                          <<x, y>> \in SoonerOrOlder, <<y, z>> \in SoonerOrOlder
          PROVE  <<x, z>> \in SoonerOrOlder
      OBVIOUS
    <2> DEFINE a == Priority(x)
               b == Priority(y)
               c == Priority(z)
    <2>2. a \in Int /\ b \in Int /\ c \in Int /\ x \in Int /\ y \in Int /\ z \in Int
      BY <1>1
    <2>3. a <= b /\ (a = b => x < y) /\ b <= c /\ (b = c => y < z)
      BY <1>3, <2>1
    <2> HIDE DEF a, b, c
    <2>4. a <= c /\ (a = c => x < z)
      BY <2>2, <2>3
    <2> QED
      BY <1>3, <2>4 DEF a, c
  <1> QED
    BY <1>4, <1>5, <1>6, <1>7

\* What is behind p in the listings is what the queries list without p.
LEMMA ListedBehind ==
    ASSUME CatalogInv, Ranked, NEW p, NEW S \in SUBSET Active
    PROVE  /\ \A s \in ByPriority(S \ {p}) : s \in AllBehind(<<p>>, ByPriority(S))
           /\ \A s \in ByPriorityAndAge(S \ {p}) : s \in AllBehind(<<p>>, ByPriorityAndAge(S))
  <1> DEFINE A == Active \ {p}
  <1>1. ToSet(<<p>>) = {p}
    <2>1. DOMAIN <<p>> = {1} /\ <<p>>[1] = p
      OBVIOUS
    <2> QED
      BY <2>1 DEF ToSet
  <1>2. \A L : \A t \in L : Kept(t, A) \in AllBehind(<<p>>, L)
    BY <1>1 DEF AllBehind, Behind
  <1>3. IsFiniteSet(S)
    <2>1. IsFiniteSet(Ids)
      BY FS_Interval, BoundAssumption DEF Ids
    <2> QED
      BY <2>1, ModelsAreIds, FS_Subset
  <1>4. S \ {p} \subseteq A /\ p \notin A /\ S \ {p} \in SUBSET Active
    OBVIOUS
  <1> HIDE DEF A
  <1>5. ASSUME p \notin S PROVE \A R : \A s \in Ordered(S \ {p}, R) : s \in Ordered(S, R) /\ Kept(s, A) = s
    <2>1. SUFFICES ASSUME NEW R, NEW s \in Ordered(S \ {p}, R)
          PROVE  s \in Ordered(S, R) /\ Kept(s, A) = s
      OBVIOUS
    <2>2. S \ {p} = S
      BY <1>5
    <2>3. Cardinality(S) \in Nat /\ s \in [1..Cardinality(S) -> S]
      BY <1>3, <2>2, FS_CardinalityType DEF Ordered
    <2>4. s \in Seq(S) /\ ToSet(s) \subseteq A
      BY <1>4, <2>2, <2>3 DEF ToSet
    <2> QED
      BY <2>2, <2>4, KeptWhole
  <1>6. \A s \in Ordered(S \ {p}, Sooner) : \E t \in Ordered(S, Sooner) : Kept(t, A) = s
    <2>1. CASE p \notin S
      BY <1>5, <2>1
    <2>2. CASE p \in S
      <3>1. \A x, y \in S : x # y => <<x, y>> \in Sooner \/ <<y, x>> \in Sooner
        BY OrdersAreTotal
      <3>2. \A x, y, z \in S :
              <<x, y>> \in Sooner /\ <<y, z>> \in Sooner => <<x, z>> \in Sooner
        BY OrdersAreTotal
      <3> QED
        BY <1>3, <1>4, <2>2, <3>1, <3>2, LeftOut
    <2> QED
      BY <2>1, <2>2
  <1>7. \A s \in Ordered(S \ {p}, SoonerOrOlder) :
          \E t \in Ordered(S, SoonerOrOlder) : Kept(t, A) = s
    <2>1. CASE p \notin S
      BY <1>5, <2>1
    <2>2. CASE p \in S
      <3>1. \A x, y \in S : x # y => <<x, y>> \in SoonerOrOlder \/ <<y, x>> \in SoonerOrOlder
        BY OrdersAreTotal
      <3>2. \A x, y, z \in S : <<x, y>> \in SoonerOrOlder /\ <<y, z>> \in SoonerOrOlder
                                 => <<x, z>> \in SoonerOrOlder
        BY OrdersAreTotal
      <3> QED
        BY <1>3, <1>4, <2>2, <3>1, <3>2, LeftOut
    <2> QED
      BY <2>1, <2>2
  <1>8. ASSUME NEW s \in ByPriority(S \ {p}) PROVE s \in AllBehind(<<p>>, ByPriority(S))
    <2>1. s \in Ordered(S \ {p}, Sooner)
      BY <1>4, ListingsAreOrdered
    <2>2. PICK t \in Ordered(S, Sooner) : Kept(t, A) = s
      BY <2>1, <1>6
    <2>3. t \in ByPriority(S)
      BY <2>2, ListingsAreOrdered
    <2> QED
      BY <1>2, <2>2, <2>3
  <1>9. ASSUME NEW s \in ByPriorityAndAge(S \ {p})
        PROVE  s \in AllBehind(<<p>>, ByPriorityAndAge(S))
    <2>1. s \in Ordered(S \ {p}, SoonerOrOlder)
      BY <1>4, ListingsAreOrdered
    <2>2. PICK t \in Ordered(S, SoonerOrOlder) : Kept(t, A) = s
      BY <2>1, <1>7
    <2>3. t \in ByPriorityAndAge(S)
      BY <2>2, ListingsAreOrdered
    <2> QED
      BY <1>2, <2>2, <2>3
  <1> QED
    BY <1>8, <1>9

\* Nothing is behind p only when nothing but p is listed.
LEMMA SomethingBehind ==
    ASSUME CatalogInv, NEW p, NEW S \in SUBSET Active, NEW s \in ByPriority(S \ {p}), s # <<>>
    PROVE  <<>> \notin AllBehind(<<p>>, ByPriority(S))
  <1> DEFINE A == Active \ {p}
             n == Cardinality(S)
  <1>1. ToSet(<<p>>) = {p}
    <2>1. DOMAIN <<p>> = {1} /\ <<p>>[1] = p
      OBVIOUS
    <2> QED
      BY <2>1 DEF ToSet
  <1>2. IsFiniteSet(S) /\ IsFiniteSet(S \ {p}) /\ n \in Nat /\ Cardinality(S \ {p}) \in Nat
    <2>1. IsFiniteSet(Ids)
      BY FS_Interval, BoundAssumption DEF Ids
    <2> QED
      BY <2>1, ModelsAreIds, FS_Subset, FS_CardinalityType
  <1>3. PICK m \in S : m # p
    <2>1. s \in [1..Cardinality(S \ {p}) -> S \ {p}]
      BY DEF ByPriority
    <2> DEFINE c == Cardinality(S \ {p})
    <2>2. s \in Seq(S \ {p})
      <3>1. c \in Nat /\ s \in [1..c -> S \ {p}]
        BY <1>2, <2>1
      <3> HIDE DEF c
      <3> QED
        BY <3>1
    <2>3. s[1] \in S \ {p}
      BY <2>2, EmptySeq, LenProperties
    <2> QED
      BY <2>3
  <1>4. SUFFICES ASSUME NEW t \in ByPriority(S) PROVE Kept(t, A) # <<>>
    BY <1>1 DEF AllBehind, Behind
  <1>5. t \in [1..n -> S] /\ \A i, j \in 1..n : i < j => t[i] # t[j]
    BY DEF ByPriority
  <1>6. \A i, j \in 1..n : t[i] = t[j] => i = j
    <2>1. \A i, j \in 1..n : i < j \/ j < i \/ i = j
      BY <1>2
    <2> QED
      BY <1>5, <2>1
  <1>7. t \in Surjection(1..n, S)
    <2>1. t \in Injection(1..n, S)
      BY <1>5, <1>6 DEF Injection, IsInjective
    <2>2. Cardinality(1..n) = n
      BY <1>2, FS_Interval
    <2> HIDE DEF n
    <2> QED
      BY <1>2, <2>1, <2>2, FS_Injection DEF n
  <1>8. PICK i \in 1..n : t[i] = m
    BY <1>3, <1>7 DEF Surjection
  <1>9. t \in Seq(S) /\ m \in ToSet(t) \cap A
    BY <1>2, <1>3, <1>5, <1>8 DEF ToSet
  <1>10. ToSet(Kept(t, A)) = ToSet(t) \cap A
    BY <1>9, KeptType
  <1>11. ToSet(<<>>) = {}
    <2>1. DOMAIN <<>> = {}
      OBVIOUS
    <2> QED
      BY <2>1 DEF ToSet
  <1> QED
    BY <1>9, <1>10, <1>11

\* All listings of a set are empty, or none is.
LEMMA SomethingListed ==
    ASSUME CatalogInv, NEW S \in SUBSET Active, NEW s \in ByPriority(S), s # <<>>
    PROVE  <<>> \notin ByPriority(S)
  <1> DEFINE n == Cardinality(S)
  <1>1. n \in Nat
    <2>1. IsFiniteSet(Ids)
      BY FS_Interval, BoundAssumption DEF Ids
    <2> QED
      BY <2>1, ModelsAreIds, FS_Subset, FS_CardinalityType
  <1>2. \A t \in ByPriority(S) : t \in [1..n -> S]
    BY DEF ByPriority
  <1> HIDE DEF n
  <1>3. SUFFICES ASSUME <<>> \in ByPriority(S) PROVE FALSE
    OBVIOUS
  <1>4. DOMAIN <<>> = {}
    OBVIOUS
  <1>5. n = 0
    <2>1. 1..n = {}
      BY <1>2, <1>3, <1>4
    <2>2. n # 0 => 1 \in 1..n
      BY <1>1
    <2> QED
      BY <2>1, <2>2
  <1>6. s \in Seq(S) /\ Len(s) = 0
    BY <1>1, <1>2, <1>5
  <1> QED
    BY <1>6, EmptySeq

-----------------------------------------------------------------------------
(* How often a list holds a model. *)

\* The places among the first n of f that hold m.
Upto(f, n, m) == {i \in 1..n : f[i] = m}

LEMMA PlacesAreFew ==
    ASSUME NEW f, NEW n \in Nat, NEW m
    PROVE  IsFiniteSet(Upto(f, n, m)) /\ Cardinality(Upto(f, n, m)) \in Nat
  <1>1. IsFiniteSet(1..n)
    BY FS_Interval
  <1>2. Upto(f, n, m) \subseteq 1..n
    BY DEF Upto
  <1>3. IsFiniteSet(Upto(f, n, m))
    BY <1>1, <1>2, FS_Subset
  <1> QED
    BY <1>3, FS_CardinalityType

\* One place more counts m once more when it holds m.
LEMMA OnePlaceMore ==
    ASSUME NEW f, NEW n \in Nat, NEW m
    PROVE  Cardinality(Upto(f, n + 1, m)) =
             Cardinality(Upto(f, n, m)) + (IF f[n + 1] = m THEN 1 ELSE 0)
  <1>1. IsFiniteSet(Upto(f, n, m)) /\ Cardinality(Upto(f, n, m)) \in Nat
    BY PlacesAreFew
  <1>2. CASE f[n + 1] = m
    <2>1. Upto(f, n + 1, m) = Upto(f, n, m) \cup {n + 1}
      BY <1>2 DEF Upto
    <2>2. n + 1 \notin Upto(f, n, m)
      BY DEF Upto
    <2>3. Cardinality(Upto(f, n, m) \cup {n + 1}) = Cardinality(Upto(f, n, m)) + 1
      BY <1>1, <2>2, FS_AddElement
    <2> QED
      BY <1>2, <2>1, <2>3
  <1>3. CASE f[n + 1] # m
    <2>1. Upto(f, n + 1, m) = Upto(f, n, m)
      BY <1>3 DEF Upto
    <2> QED
      BY <1>1, <1>3, <2>1
  <1> QED
    BY <1>2, <1>3

LEMMA TimesArePlaces ==
    ASSUME NEW S, NEW s \in Seq(S), NEW m
    PROVE  Times(s, m) = Cardinality(Upto(s, Len(s), m)) /\ Times(s, m) \in Nat
  <1>1. {i \in DOMAIN s : s[i] = m} = Upto(s, Len(s), m)
    BY DEF Upto
  <1>2. Times(s, m) = Cardinality(Upto(s, Len(s), m))
    BY <1>1 DEF Times
  <1>3. Len(s) \in Nat
    OBVIOUS
  <1> QED
    BY <1>2, <1>3, PlacesAreFew

\* A model that is appended is there once more, and the others as often as before.
LEMMA AppendedOnce ==
    ASSUME NEW S, NEW s \in Seq(S), NEW x \in S, NEW m
    PROVE  Times(s \o <<x>>, m) = Times(s, m) + (IF x = m THEN 1 ELSE 0)
  <1> DEFINE t == s \o <<x>>
             n == Len(s)
  <1>1. t \in Seq(S) /\ n \in Nat /\ Len(t) = n + 1 /\ t[n + 1] = x
    OBVIOUS
  <1>2. \A i \in 1..n : t[i] = s[i]
    OBVIOUS
  <1>3. Times(s, m) = Cardinality(Upto(s, n, m))
    BY TimesArePlaces
  <1>4. Times(t, m) = Cardinality(Upto(t, Len(t), m))
    BY <1>1, TimesArePlaces
  <1> HIDE DEF t, n
  <1>5. Upto(t, n, m) = Upto(s, n, m)
    BY <1>2 DEF Upto
  <1>6. Cardinality(Upto(t, n + 1, m)) = Cardinality(Upto(t, n, m)) + (IF t[n + 1] = m THEN 1 ELSE 0)
    BY <1>1, OnePlaceMore
  <1>7. Times(t, m) = Times(s, m) + (IF x = m THEN 1 ELSE 0)
    BY <1>1, <1>3, <1>4, <1>5, <1>6
  <1> QED
    BY <1>7 DEF t

\* What is listed once occurs at most once.
LEMMA DistinctOccursOnce ==
    ASSUME NEW S, NEW s \in Seq(S), Distinct(s), NEW m
    PROVE  Times(s, m) <= 1
  <1> DEFINE P == {i \in DOMAIN s : s[i] = m}
  <1>1. CASE P = {}
    <2>1. Times(s, m) = 0
      BY <1>1, FS_EmptySet DEF Times
    <2> QED
      BY <2>1
  <1>2. CASE P # {}
    <2>1. PICK i : i \in P
      BY <1>2
    <2>2. P = {i}
      BY <2>1 DEF Distinct
    <2>3. Times(s, m) = 1
      BY <2>2, FS_Singleton DEF Times
    <2> QED
      BY <2>3
  <1> QED
    BY <1>1, <1>2

\* So it does behind a model that it does not list.
LEMMA HeadedIsDistinct ==
    ASSUME NEW p \in Ids, NEW A \in SUBSET Ids, NEW s, Listing(s, A \ {p})
    PROVE  /\ <<p>> \o s \in Seq(Ids)
           /\ Len(<<p>> \o s) >= 1
           /\ (<<p>> \o s)[1] = p
           /\ \A i \in 2..Len(<<p>> \o s) : (<<p>> \o s)[i] \in A /\ (<<p>> \o s)[i] # p
           /\ Distinct(<<p>> \o s)
  <1> DEFINE t == <<p>> \o s
             n == Len(s)
  <1>1. s \in Seq(Ids) /\ n \in Nat /\ DOMAIN s = 1..n
    BY DEF Listing
  <1>2. t \in Seq(Ids) /\ Len(t) = n + 1 /\ DOMAIN t = 1..(n + 1) /\ t[1] = p
    BY <1>1
  <1>3. \A i \in 2..(n + 1) : i - 1 \in DOMAIN s /\ t[i] = s[i - 1]
    BY <1>1
  <1>4. (\A i \in DOMAIN s : s[i] \in A /\ s[i] # p) /\ Distinct(s)
    BY DEF Listing
  <1> HIDE DEF t, n
  <1>5. \A i \in 2..(n + 1) : t[i] \in A /\ t[i] # p
    BY <1>3, <1>4
  <1>6. Distinct(t)
    <2> SUFFICES ASSUME NEW i \in 1..(n + 1), NEW j \in 1..(n + 1), t[i] = t[j] PROVE i = j
      BY <1>2 DEF Distinct
    <2>1. CASE i = 1 \/ j = 1
      BY <1>1, <1>2, <1>5, <2>1
    <2>2. CASE i # 1 /\ j # 1
      <3>1. i \in 2..(n + 1) /\ j \in 2..(n + 1)
        BY <1>1, <2>2
      <3>2. s[i - 1] = s[j - 1]
        BY <1>3, <3>1
      <3>3. i - 1 = j - 1
        BY <1>3, <1>4, <3>1, <3>2 DEF Distinct
      <3> QED
        BY <3>3
    <2> QED
      BY <2>1, <2>2
  <1>7. Len(t) >= 1
    BY <1>1, <1>2
  <1> QED
    BY <1>2, <1>5, <1>6, <1>7 DEF t

-----------------------------------------------------------------------------
(* The invariant of a resolution. *)

Walked ==
    /\ primary = NoPrimary \/ primary.id \in Ids
    /\ result \in Seq(Ids)
    /\ chain \in Seq(Nat)
    /\ k \in Nat
    /\ at = "walk" => k >= 1 /\ k <= Len(chain) + 1

\* Without a chain the queries depend on whether the model was found.
Stages ==
    /\ at \in {"idle", "primary", "tagged", "all"} => ~Found
    /\ at \in {"peers", "rest"} => Found
    /\ at = "rest" => result = <<primary.id>>

\* What was read was in use.
Seen ==
    /\ Found => primary.id \in seen
    /\ \A i \in 1..Len(result) : result[i] \in seen

\* The requested model is in front, once.
Headed ==
    (at \in {"walk", "rest", "done"} /\ Found) =>
        /\ Len(result) >= 1
        /\ result[1] = primary.id
        /\ \A i \in 2..Len(result) : result[i] # primary.id

\* The others were met in the part of the chain that was walked.
Repeats ==
    \A m \in Ids \ {primary.id} :
        /\ at = "walk" => Times(result, m) <= Cardinality(Upto(chain, k - 1, m))
        /\ at = "done" => Times(result, m) <= 1 \/ Times(result, m) <= Times(chain, m)

RouterInv == Walked /\ Stages /\ Seen /\ Headed /\ Repeats

\* A walk starts with the requested model, whatever the chain is.
LEMMA StartWalkInv ==
    ASSUME RouterInv, NEW ids \in Seq(Nat), StartWalk(ids), UNCHANGED primary,
           seen' = seen \cup Active
    PROVE  RouterInv'
  <1> USE DEF RouterInv, Found
  <1>1. at' = "walk" /\ k' = 1 /\ chain' = ids /\ primary' = primary
    BY DEF StartWalk
  <1>2. CASE Found
    <2>1. primary.id \in Ids /\ primary.id \in seen /\ result' = <<primary.id>>
      BY <1>2 DEF Walked, Seen, StartWalk
    <2>2. /\ result' \in Seq(Ids) /\ Len(result') = 1 /\ result'[1] = primary.id
          /\ DOMAIN result' = {1}
      BY <2>1
    <2>3. \A m \in Ids \ {primary.id} : Times(result', m) = 0
      <3>1. \A m \in Ids \ {primary.id} : {i \in DOMAIN result' : result'[i] = m} = {}
        BY <2>2
      <3> QED
        BY <3>1, FS_EmptySet DEF Times
    <2>4. \A m \in Ids : Cardinality(Upto(ids, 0, m)) \in Nat
      BY PlacesAreFew
    <2>5. Walked'
      BY <1>1, <2>1, <2>2 DEF Walked
    <2>6. Seen' /\ Headed' /\ Stages'
      BY <1>1, <1>2, <2>1, <2>2 DEF Seen, Headed, Stages
    <2>7. Repeats'
      BY <1>1, <2>3, <2>4 DEF Repeats
    <2> QED
      BY <2>5, <2>6, <2>7
  <1>3. CASE ~Found
    <2>1. result' = <<>>
      BY <1>3 DEF StartWalk
    <2>2. /\ result' \in Seq(Ids) /\ Len(result') = 0 /\ DOMAIN result' = {}
      BY <2>1
    <2>3. \A m \in Ids \ {primary.id} : Times(result', m) = 0
      <3>1. \A m \in Ids \ {primary.id} : {i \in DOMAIN result' : result'[i] = m} = {}
        BY <2>2
      <3> QED
        BY <3>1, FS_EmptySet DEF Times
    <2>4. \A m \in Ids : Cardinality(Upto(ids, 0, m)) \in Nat
      BY PlacesAreFew
    <2>5. Walked'
      BY <1>1, <2>2 DEF Walked
    <2>6. Seen' /\ Headed' /\ Stages'
      BY <1>1, <1>3, <2>2 DEF Seen, Headed, Stages
    <2>7. Repeats'
      BY <1>1, <2>3, <2>4 DEF Repeats
    <2> QED
      BY <2>5, <2>6, <2>7
  <1> QED
    BY <1>2, <1>3

\* A step that reads nothing and is neither the start of the walk nor the end.
LEMMA OtherQueryInv ==
    ASSUME RouterInv, k' \in Nat, seen \subseteq seen',
           UNCHANGED <<primary, chain, result>>,
           at' \in {"idle", "primary", "tag", "default", "tagged", "all", "peers", "error"},
           at' \in {"idle", "primary", "tagged", "all"} => ~Found,
           at' = "peers" => Found
    PROVE  RouterInv'
  <1> USE DEF RouterInv, Found
  <1>1. Walked' /\ Stages' /\ Headed' /\ Repeats'
    BY DEF Walked, Stages, Headed, Repeats
  <1>2. Seen'
    BY DEF Seen
  <1> QED
    BY <1>1, <1>2

\* An item of the chain: its model, or nothing.
LEMMA NextItemInv ==
    ASSUME RouterInv, at = "walk", k <= Len(chain), UNCHANGED <<primary, chain>>,
           NEW items, NextItem(items), seen \subseteq seen',
           \/ items = <<>>
           \/ /\ items = <<chain[k]>> /\ chain[k] \in Ids /\ chain[k] \in seen'
              /\ chain[k] # primary.id
    PROVE  RouterInv'
  <1>k. k \in Nat /\ k >= 1 /\ Len(chain) \in Nat /\ chain \in Seq(Nat) /\ result \in Seq(Ids)
    BY DEF RouterInv, Walked
  <1>n. at' = "walk" /\ k' = k + 1 /\ chain' = chain /\ primary' = primary
    BY DEF NextItem
  <1>p. primary = NoPrimary \/ primary.id \in Ids
    BY DEF RouterInv, Walked
  <1>s. (Found => primary.id \in seen) /\ \A i \in 1..Len(result) : result[i] \in seen
    BY DEF RouterInv, Seen
  <1>c. \A m : Cardinality(Upto(chain, k, m)) = Cardinality(Upto(chain, k - 1, m))
                                              + (IF chain[k] = m THEN 1 ELSE 0)
    <2>1. k - 1 \in Nat /\ (k - 1) + 1 = k
      BY <1>k
    <2> QED
      BY <2>1, OnePlaceMore
  <1>d. \A m : Cardinality(Upto(chain, k - 1, m)) \in Nat /\ Times(result, m) \in Nat
    BY <1>k, PlacesAreFew, TimesArePlaces
  <1>t. \A m \in Ids \ {primary.id} : Times(result, m) <= Cardinality(Upto(chain, k - 1, m))
    BY DEF RouterInv, Repeats
  <1>h. Found => /\ Len(result) >= 1
                 /\ result[1] = primary.id
                 /\ \A i \in 2..Len(result) : result[i] # primary.id
    BY DEF RouterInv, Headed
  <1>e. k' - 1 = k /\ Stages'
    BY <1>k, <1>n DEF Stages
  <1>1. CASE items = <<>>
    <2>1. result' = result
      BY <1>1, <1>k DEF NextItem
    <2>2. \A m \in Ids \ {primary.id} : Times(result, m) <= Cardinality(Upto(chain, k, m))
      BY <1>c, <1>d, <1>t
    <2>3. Repeats'
      BY <1>n, <1>e, <2>1, <2>2 DEF Repeats
    <2>4. Walked' /\ Seen' /\ Headed'
      BY <1>k, <1>n, <1>p, <1>s, <1>h, <2>1 DEF Walked, Seen, Headed, Found
    <2> QED
      BY <1>e, <2>3, <2>4 DEF RouterInv
  <1>2. CASE /\ items = <<chain[k]>> /\ chain[k] \in Ids /\ chain[k] \in seen'
             /\ chain[k] # primary.id
    <2> DEFINE x == chain[k]
               n == Len(result)
    <2>1. result' = result \o <<x>> /\ n \in Nat
      BY <1>2, <1>k DEF NextItem
    <2>2. /\ result' \in Seq(Ids) /\ Len(result') = n + 1 /\ result'[n + 1] = x
          /\ \A i \in 1..n : result'[i] = result[i]
      BY <1>2, <1>k, <2>1
    <2>3. \A m : Times(result', m) = Times(result, m) + (IF x = m THEN 1 ELSE 0)
      BY <1>2, <1>k, <2>1, AppendedOnce
    <2>4. \A m \in Ids \ {primary.id} : Times(result', m) <= Cardinality(Upto(chain, k, m))
      BY <1>c, <1>d, <1>t, <2>3
    <2>5. Repeats'
      BY <1>n, <1>e, <2>4 DEF Repeats
    <2>6. Walked'
      BY <1>k, <1>n, <1>p, <2>2 DEF Walked
    <2>7. \A i \in 1..Len(result') : i = n + 1 \/ i \in 1..n
      BY <2>1, <2>2
    <2>8. Seen'
      BY <1>2, <1>n, <1>s, <2>2, <2>7 DEF Seen, Found
    <2>9. Headed'
      BY <1>2, <1>n, <1>h, <2>1, <2>2, <2>7 DEF Headed, Found
    <2> QED
      BY <1>e, <2>5, <2>6, <2>8, <2>9 DEF RouterInv
  <1> QED
    BY <1>1, <1>2

\* A walk ends with what it found, or goes on without a chain.
LEMMA EndWalkInv == RouterInv /\ EndWalk => RouterInv'
  <1> SUFFICES ASSUME RouterInv, EndWalk PROVE RouterInv'
    OBVIOUS
  <1>1. /\ at = "walk" /\ UNCHANGED <<primary, chain, k, result, seen>>
        /\ result \in Seq(Ids) /\ chain \in Seq(Nat)
    BY DEF EndWalk, RouterInv, Walked
  <1>2. CASE result # <<>>
    <2>1. at' = "done"
      BY <1>2 DEF EndWalk
    <2>2. k - 1 = Len(chain)
      <3>1. k > Len(chain) /\ k <= Len(chain) + 1 /\ k \in Nat /\ Len(chain) \in Nat
        BY DEF EndWalk, RouterInv, Walked
      <3> QED
        BY <3>1
    <2>3. \A m : Times(chain, m) = Cardinality(Upto(chain, k - 1, m))
      BY <1>1, <2>2, TimesArePlaces
    <2>4. Repeats'
      BY <1>1, <2>1, <2>3 DEF RouterInv, Repeats
    <2> QED
      BY <1>1, <2>1, <2>4 DEF RouterInv, Walked, Stages, Seen, Headed, Found
  <1>3. CASE result = <<>>
    <2>1. ~Found
      BY <1>1, <1>3 DEF RouterInv, Headed
    <2>2. at' = NoChainState /\ at' \in {"tagged", "all"}
      BY <1>3, <2>1 DEF EndWalk, NoChainState
    <2>3. k' \in Nat
      BY <1>1 DEF RouterInv, Walked
    <2> QED
      BY <1>1, <2>1, <2>2, <2>3, OtherQueryInv
  <1> QED
    BY <1>2, <1>3

\* The listing without the requested model, which is in front.
LEMMA BehindPrimaryInv ==
    ASSUME CatalogInv, RouterInv, Found, NEW s, Listing(s, Active \ {primary.id}),
           result' = <<primary.id>> \o s,
           at' = "done" \/ (at' = "rest" /\ s = <<>>),
           UNCHANGED <<primary, chain, k>>, seen' = seen \cup Active
    PROVE  RouterInv'
  <1> DEFINE p == primary.id
  <1>1. p \in Ids /\ p \in seen /\ chain \in Seq(Nat) /\ k \in Nat /\ primary' = primary
    BY DEF RouterInv, Walked, Seen, Found
  <1>2. Active \in SUBSET Ids
    BY ModelsAreIds
  <1>3. /\ result' \in Seq(Ids) /\ Len(result') >= 1 /\ result'[1] = p
        /\ \A i \in 2..Len(result') : result'[i] \in Active /\ result'[i] # p
        /\ Distinct(result')
    BY <1>1, <1>2, HeadedIsDistinct
  <1>4. Walked'
    BY <1>1, <1>3 DEF Walked
  <1>5. Stages'
    <2>1. s = <<>> => result' = <<p>>
      OBVIOUS
    <2> QED
      BY <2>1 DEF Stages, Found
  <1>6. Seen'
    <2>1. \A i \in 1..Len(result') : i = 1 \/ i \in 2..Len(result')
      BY <1>3
    <2> QED
      BY <1>1, <1>3, <2>1 DEF Seen
  <1>7. Headed'
    BY <1>3 DEF Headed
  <1>8. Repeats'
    <2>1. \A m : Times(result', m) <= 1
      BY <1>3, DistinctOccursOnce
    <2> QED
      BY <2>1 DEF Repeats
  <1> QED
    BY <1>4, <1>5, <1>6, <1>7, <1>8 DEF RouterInv

\* A listing of the models in use, when no model was found by its name.
LEMMA ListedInv ==
    ASSUME CatalogInv, RouterInv, ~Found, Listing(result', Active),
           at' = "all" \/ at' = "done",
           UNCHANGED <<primary, chain, k>>, seen' = seen \cup Active
    PROVE  RouterInv'
  <1>1. result' \in Seq(Ids) /\ Distinct(result') /\ \A i \in 1..Len(result') : result'[i] \in Active
    BY DEF Listing
  <1>2. \A m : Times(result', m) <= 1
    BY <1>1, DistinctOccursOnce
  <1>3. Walked'
    BY <1>1 DEF RouterInv, Walked
  <1>4. Stages' /\ Seen' /\ Headed'
    BY <1>1 DEF Stages, Seen, Headed, Found
  <1>5. Repeats'
    BY <1>2 DEF Repeats
  <1> QED
    BY <1>3, <1>4, <1>5 DEF RouterInv

\* The first query gives a model in use, or none.
LEMMA FindPrimaryInv == CatalogInv /\ RouterInv /\ FindPrimary => RouterInv'
  <1> SUFFICES ASSUME CatalogInv, RouterInv, FindPrimary PROVE RouterInv'
    OBVIOUS
  <1>1. /\ at = "primary" /\ at' \in {"tag", "default"} /\ seen' = seen \cup Active
        /\ UNCHANGED <<chain, k, result>>
    BY DEF FindPrimary, Query
  <1>2. primary' = primary \/ (primary'.id \in Ids /\ primary'.id \in Active)
    <2>1. ASSUME NEW m \in GetActiveModelByName(req.name),
                 primary' = [id |-> m, tags |-> models[m].tags]
          PROVE  primary'.id \in Ids /\ primary'.id \in Active
      BY <2>1, ModelsAreIds DEF GetActiveModelByName
    <2> QED
      BY <2>1 DEF FindPrimary
  <1>3. ~Found
    BY <1>1 DEF RouterInv, Stages
  <1>4. Walked' /\ Stages' /\ Headed' /\ Repeats'
    BY <1>1, <1>2 DEF RouterInv, Walked, Stages, Headed, Repeats
  <1>5. Seen'
    BY <1>1, <1>2, <1>3 DEF RouterInv, Seen, Found
  <1> QED
    BY <1>4, <1>5 DEF RouterInv

\* Every query of a resolution.
LEMMA ResolveChainInv == CatalogInv /\ RouterInv /\ ResolveChain => RouterInv'
  <1> SUFFICES ASSUME CatalogInv, RouterInv, ResolveChain PROVE RouterInv'
    OBVIOUS
  <1>k. k \in Nat /\ k + 1 \in Nat
    BY DEF RouterInv, Walked
  <1>c. \A c \in DOMAIN chains : chains[c].ids \in Seq(Nat)
    BY DEF CatalogInv, RowsAreListed
  <1>n. /\ NoChainState \in {"peers", "tagged", "all"}
        /\ NoChainState = "peers" <=> Found
    BY DEF NoChainState
  <1>1. CASE FindPrimary
    BY <1>1, FindPrimaryInv
  <1>2. CASE PrimaryFails
    BY <1>2, <1>k, OtherQueryInv DEF PrimaryFails, Query
  <1>3. CASE FindByTag
    <2>1. ASSUME NEW c \in GetFallbackChainByTag(req.tags[k]), StartWalk(chains[c].ids)
          PROVE  RouterInv'
      <3>1. chains[c].ids \in Seq(Nat)
        BY <1>c DEF GetFallbackChainByTag
      <3> QED
        BY <1>3, <2>1, <3>1, StartWalkInv DEF FindByTag, Query
    <2>2. CASE /\ k' = k + 1
               /\ at' = IF k < Len(req.tags) THEN "tag" ELSE "default"
               /\ UNCHANGED <<chain, result>>
      <3>1. at' \in {"tag", "default"} /\ k' \in Nat
        BY <1>k, <2>2
      <3> QED
        BY <1>3, <2>2, <3>1, OtherQueryInv DEF FindByTag, Query
    <2> QED
      BY <1>3, <2>1, <2>2 DEF FindByTag
  <1>4. CASE TagFails
    <2>1. at' \in {"tag", "default"} /\ k' \in Nat
      BY <1>4, <1>k DEF TagFails
    <2> QED
      BY <1>4, <2>1, OtherQueryInv DEF TagFails, Query
  <1>5. CASE FindDefault
    <2>1. ASSUME NEW c \in GetDefaultFallbackChain, StartWalk(chains[c].ids)
          PROVE  RouterInv'
      <3>1. chains[c].ids \in Seq(Nat)
        BY <1>c DEF GetDefaultFallbackChain, Default
      <3> QED
        BY <1>5, <2>1, <3>1, StartWalkInv DEF FindDefault, Query
    <2>2. CASE at' = NoChainState /\ UNCHANGED <<chain, k, result>>
      BY <1>5, <1>k, <1>n, <2>2, OtherQueryInv DEF FindDefault, Query
    <2> QED
      BY <1>5, <2>1, <2>2 DEF FindDefault
  <1>6. CASE DefaultFails
    BY <1>6, <1>k, <1>n, OtherQueryInv DEF DefaultFails, Query
  <1>7. CASE ReadItem
    <2> DEFINE items == IF chain[k] \in Active THEN <<chain[k]>> ELSE <<>>
    <2>1. /\ NextItem(items) /\ seen' = seen \cup Active /\ at = "walk" /\ k <= Len(chain)
          /\ UNCHANGED <<primary, chain>> /\ chain[k] # primary.id
      BY <1>7 DEF ReadItem, Query
    <2>2. \/ items = <<>>
          \/ /\ items = <<chain[k]>> /\ chain[k] \in Ids /\ chain[k] \in seen'
             /\ chain[k] # primary.id
      BY <2>1, ModelsAreIds
    <2> HIDE DEF items
    <2> QED
      BY <2>1, <2>2, NextItemInv
  <1>8. CASE SkipPrimary
    BY <1>8, NextItemInv DEF SkipPrimary
  <1>9. CASE ItemFails
    BY <1>9, NextItemInv DEF ItemFails, Query
  <1>10. CASE EndWalk
    BY <1>10, EndWalkInv
  <1>11. CASE ReadPeers \/ PeersFail
    <2>1. Found
      BY <1>11 DEF ReadPeers, PeersFail, Query, RouterInv, Stages
    <2>2. PICK s : TryPeers(s) /\ Listing(s, Active \ {primary.id})
      BY <1>11, QueriesList, TruncatedOnce DEF ReadPeers, PeersFail
    <2>3. at' = "done" \/ (at' = "rest" /\ s = <<>>)
      BY <2>2 DEF TryPeers
    <2> QED
      BY <1>11, <2>1, <2>2, <2>3, BehindPrimaryInv DEF TryPeers, ReadPeers, PeersFail, Query
  <1>12. CASE ReadRest \/ RestFails
    <2>1. Found /\ result = <<primary.id>>
      BY <1>12 DEF ReadRest, RestFails, Query, RouterInv, Stages
    <2>2. PICK s : result' = result \o s /\ Listing(s, Active \ {primary.id})
      BY <1>12, QueriesList, TruncatedOnce DEF ReadRest, RestFails
    <2> QED
      BY <1>12, <2>1, <2>2, BehindPrimaryInv DEF ReadRest, RestFails, Query
  <1>13. CASE ReadTagged \/ ReadAll \/ TaggedBreaksOff \/ AllBreaksOff
    <2>1. ~Found
      BY <1>13 DEF ReadTagged, ReadAll, TaggedBreaksOff, AllBreaksOff, Query, RouterInv, Stages
    <2>2. Listing(result', Active)
      BY <1>13, QueriesList, TruncatedOnce DEF ReadTagged, ReadAll, TaggedBreaksOff, AllBreaksOff
    <2> QED
      BY <1>13, <2>1, <2>2, ListedInv
      DEF ReadTagged, ReadAll, TaggedBreaksOff, AllBreaksOff, Query
  <1>14. CASE ListFails
    BY <1>14, <1>k, OtherQueryInv DEF ListFails, Query
  <1> QED
    BY <1>1, <1>2, <1>3, <1>4, <1>5, <1>6, <1>7, <1>8, <1>9, <1>10, <1>11, <1>12, <1>13, <1>14
    DEF ResolveChain

-----------------------------------------------------------------------------
(* A resolution that nothing disturbs.                                      *)

\* What a query returns depends on the tables alone.
LEMMA TablesStand ==
    ASSUME UNCHANGED <<models, chains>>
    PROVE  /\ Active' = Active
           /\ ListActive' = ListActive
           /\ \A tag : GetFallbackChainByTag(tag)' = GetFallbackChainByTag(tag)
           /\ \A tags : GetActiveModelsByTags(tags)' = GetActiveModelsByTags(tags)
           /\ \A tags : Selected(tags)' = Selected(tags)
           /\ \A name : Heads(name)' = Heads(name)
           /\ \A h, ids : Behind(h, ids)' = Behind(h, ids)
           /\ \A h, listings : AllBehind(h, listings)' = AllBehind(h, listings)
           /\ \A h, tags : Chained(h, tags)' = Chained(h, tags)
           /\ \A h, tags : Unchained(h, tags)' = Unchained(h, tags)
           /\ \A h, tags : GivesNothing(h, tags)' = GivesNothing(h, tags)
           /\ \A name, tags : Resolutions(name, tags)' = Resolutions(name, tags)
  <1>1. Active' = Active /\ Default' = Default
    BY DEF Active, Default
  <1>2. \A m : Priority(m)' = Priority(m)
    BY DEF Priority
  <1>3. \A S : ByPriority(S)' = ByPriority(S)
    BY <1>2 DEF ByPriority
  <1>4. \A S : ByPriorityAndAge(S)' = ByPriorityAndAge(S)
    BY <1>2, <1>3 DEF ByPriorityAndAge
  <1>5. ListActive' = ListActive
    BY <1>1, <1>4 DEF ListActive
  <1>6. \A tag : GetFallbackChainByTag(tag)' = GetFallbackChainByTag(tag)
    BY DEF GetFallbackChainByTag
  <1>7. \A tags : Sharing(tags)' = Sharing(tags)
    BY <1>1 DEF Sharing
  <1>8. \A tags : GetActiveModelsByTags(tags)' = GetActiveModelsByTags(tags)
    BY <1>3, <1>7 DEF GetActiveModelsByTags
  <1>9. \A name : GetActiveModelByName(name)' = GetActiveModelByName(name)
    BY <1>1, <1>2 DEF GetActiveModelByName
  <1>10. \A tags : Selected(tags)' = Selected(tags)
    <2>1. \A tags : Selecting(tags)' = Selecting(tags)
      BY <1>6 DEF Selecting
    <2> QED
      BY <1>1, <1>6, <2>1 DEF Selected
  <1>11. \A name : Heads(name)' = Heads(name)
    BY <1>9 DEF Heads
  <1>12. \A h, ids : Behind(h, ids)' = Behind(h, ids)
    BY <1>1 DEF Behind
  <1>13. \A h, listings : AllBehind(h, listings)' = AllBehind(h, listings)
    BY <1>12 DEF AllBehind
  <1>14. \A h, tags : Chained(h, tags)' = Chained(h, tags)
    BY <1>10, <1>12 DEF Chained
  <1>15. \A h, tags : Unchained(h, tags)' = Unchained(h, tags)
    BY <1>5, <1>8, <1>13 DEF Unchained
  <1>16. \A h, tags : GivesNothing(h, tags)' = GivesNothing(h, tags)
    BY <1>14 DEF GivesNothing
  <1>17. \A name, tags : Resolutions(name, tags)' = Resolutions(name, tags)
    BY <1>11, <1>14, <1>15, <1>16 DEF Resolutions
  <1> QED
    BY <1>1, <1>5, <1>6, <1>8, <1>10, <1>11, <1>12, <1>13, <1>14, <1>15, <1>16, <1>17

InFront == IF Found THEN <<primary.id>> ELSE <<>>
Untagged(n) == \A i \in 1..n : GetFallbackChainByTag(req.tags[i]) = {}

Asked ==
    /\ req.tags \in Seq(ToSet(req.tags))
    /\ at \in {"idle", "primary"} => k = 1
    /\ at = "primary" => req.name # NoName

\* What each query was made after, when no query failed and nothing was edited.
Undisturbed ==
    /\ at \notin {"idle", "primary", "error"} =>
         InFront \in Heads(req.name) /\ (Found => primary.tags = models[primary.id].tags)
    /\ at = "tag" => k \in 1..Len(req.tags) /\ Untagged(k - 1)
    /\ at = "default" => Untagged(Len(req.tags))
    /\ at = "walk" => \E c \in Selected(req.tags) :
         chain = chains[c].ids /\ result = InFront \o Behind(InFront, SubSeq(chain, 1, k - 1))
    /\ at \in {"peers", "rest", "tagged", "all"} => GivesNothing(InFront, req.tags)
    /\ at = "rest" => <<>> \in AllBehind(InFront, GetActiveModelsByTags(primary.tags))
    /\ at = "all" => <<>> \in GetActiveModelsByTags(ToSet(req.tags))
    /\ at = "done" => result \in Resolutions(req.name, req.tags)

SnapshotInv == Asked /\ (still => Undisturbed)

\* Edits that change neither table, and steps that change nothing.
LEMMA NothingDisturbs ==
    ASSUME SnapshotInv, UNCHANGED <<at, req, primary, chain, k, result>>,
           still' => still,
           still' => at = "idle" \/ UNCHANGED <<models, chains>>
    PROVE  SnapshotInv'
  <1>1. Asked'
    BY DEF SnapshotInv, Asked
  <1>2. ASSUME still', at = "idle" PROVE Undisturbed'
    BY <1>2 DEF Undisturbed
  <1>3. ASSUME still', UNCHANGED <<models, chains>> PROVE Undisturbed'
    <2>1. Undisturbed
      BY <1>3 DEF SnapshotInv
    <2>2. InFront' = InFront /\ (Found' <=> Found)
      BY DEF InFront, Found
    <2>3. req'.tags = req.tags /\ req'.name = req.name
      OBVIOUS
    <2>4. \A n : Untagged(n)' = Untagged(n)
      BY <1>3, <2>3, TablesStand DEF Untagged
    <2> QED
      BY <1>3, <2>1, <2>2, <2>3, <2>4, TablesStand DEF Undisturbed
  <1> QED
    BY <1>1, <1>2, <1>3 DEF SnapshotInv

\* What is returned with a chain that gives something, and without.
LEMMA ReturnedIsResolved ==
    ASSUME NEW name, NEW tags, NEW h \in Heads(name), NEW r,
           \/ r \in Chained(h, tags) /\ r # <<>>
           \/ r \in Unchained(h, tags) /\ GivesNothing(h, tags)
    PROVE  r \in Resolutions(name, tags)
  BY DEF Resolutions

\* The next query of a resolution; the last has returned.
LEMMA AskSnapshot ==
    ASSUME RouterInv, SnapshotInv, NEW name \in Names \cup {NoName}, NEW tags \in TagLists,
           Ask(name, tags)
    PROVE  SnapshotInv'
  <1>1. at = "idle" /\ k = 1 /\ ~Found
    BY DEF Ask, SnapshotInv, Asked, RouterInv, Stages
  <1>2. tags \in Seq(ToSet(tags)) /\ req'.tags = tags /\ req'.name = name
    BY TagAssumption DEF Ask
  <1>3. k' = 1 /\ ~Found' /\ InFront' = <<>>
    BY <1>1 DEF Ask, Found, InFront
  <1>4. at' \in {"primary", "tag", "default"}
        /\ (at' = "primary" => name # NoName)
        /\ (at' # "primary" => name = NoName)
        /\ (at' = "tag" => tags # <<>>)
        /\ (at' = "default" => tags = <<>>)
    BY DEF Ask
  <1>5. Asked'
    BY <1>2, <1>3, <1>4 DEF Asked
  <1>6. at' # "primary" => <<>> \in Heads(name)'
    <2>1. name = NoName => <<>> \in Heads(name)'
      BY DEF Heads
    <2> QED
      BY <1>4, <2>1
  <1>7. at' = "tag" => k' \in 1..Len(tags) /\ Untagged(k - 1)'
    <2>1. tags # <<>> => 1 \in 1..Len(tags)
      BY <1>2, EmptySeq, LenProperties
    <2>2. \A i : i \notin 1..(k' - 1)
      BY <1>3
    <2> QED
      BY <1>3, <1>4, <2>1, <2>2 DEF Untagged
  <1>8. at' = "default" => Untagged(Len(req.tags))'
    <2>1. tags = <<>> => Len(tags) = 0
      OBVIOUS
    <2> QED
      BY <1>2, <1>4, <2>1 DEF Untagged
  <1>9. Undisturbed'
    BY <1>2, <1>3, <1>4, <1>6, <1>7, <1>8 DEF Undisturbed
  <1> QED
    BY <1>5, <1>9 DEF SnapshotInv

\* What a query leaves as it was.
LEMMA QueryKeeps ==
    ASSUME SnapshotInv, UNCHANGED <<catalog, req, still>>, at \notin {"idle", "error"},
           at' \notin {"idle", "primary"}
    PROVE  /\ Asked'
           /\ UNCHANGED <<models, chains>>
           /\ req' = req /\ req'.name = req.name /\ req'.tags = req.tags
           /\ req.tags \in Seq(ToSet(req.tags)) /\ Len(req.tags) \in Nat
           /\ still' => Undisturbed
  <1>1. UNCHANGED <<models, chains>> /\ req' = req /\ still' = still
    BY DEF catalog
  <1>2. req'.name = req.name /\ req'.tags = req.tags
    BY <1>1
  <1>3. req.tags \in Seq(ToSet(req.tags)) /\ Len(req.tags) \in Nat
    BY LenProperties DEF SnapshotInv, Asked
  <1>4. Asked'
    BY <1>2 DEF SnapshotInv, Asked
  <1> QED
    BY <1>1, <1>2, <1>3, <1>4 DEF SnapshotInv

LEMMA FindPrimarySnapshot ==
    ASSUME CatalogInv, RouterInv, SnapshotInv, FindPrimary
    PROVE  SnapshotInv'
  <1>1. /\ at = "primary" /\ k = 1 /\ ~Found /\ req.name # NoName
        /\ at' = IF req.tags # <<>> THEN "tag" ELSE "default"
        /\ UNCHANGED <<catalog, req, still>> /\ k' = 1
    BY DEF FindPrimary, Query, Succeeds, SnapshotInv, Asked, RouterInv, Stages
  <1>2. /\ Asked' /\ UNCHANGED <<models, chains>>
        /\ req'.name = req.name /\ req'.tags = req.tags
        /\ req.tags \in Seq(ToSet(req.tags)) /\ Len(req.tags) \in Nat
    BY <1>1, QueryKeeps
  <1>3. InFront' \in Heads(req.name) /\ (Found' => primary'.tags = models[primary'.id].tags)
    <2>1. CASE GetActiveModelByName(req.name) = {}
      <3>1. primary' = primary
        BY <2>1 DEF FindPrimary
      <3>2. ~Found' /\ InFront' = <<>>
        BY <1>1, <3>1 DEF Found, InFront
      <3> QED
        BY <2>1, <3>2 DEF Heads
    <2>2. ASSUME NEW m \in GetActiveModelByName(req.name),
                 primary' = [id |-> m, tags |-> models[m].tags]
          PROVE  InFront' \in Heads(req.name)
                 /\ (Found' => primary'.tags = models[primary'.id].tags)
      <3>1. primary'.id = m /\ primary'.tags = models[m].tags
        BY <2>2
      <3>2. Found'
        <4>1. m \in Ids
          BY ModelsAreIds DEF GetActiveModelByName
        <4>2. m # NoModel
          BY <4>1, NoModelAssumption DEF Ids
        <4>3. NoPrimary.id = NoModel
          BY DEF NoPrimary
        <4> QED
          BY <3>1, <4>2, <4>3 DEF Found, NoPrimary
      <3>3. InFront' = <<m>>
        BY <3>1, <3>2 DEF InFront
      <3> QED
        BY <1>1, <3>1, <3>3 DEF Heads
    <2> QED
      BY <2>1, <2>2 DEF FindPrimary
  <1>4. at' = "tag" => k' \in 1..Len(req.tags) /\ \A i : i \notin 1..(k' - 1)
    <2>1. req.tags # <<>> => 1 \in 1..Len(req.tags)
      BY <1>2, EmptySeq, LenProperties
    <2> QED
      BY <1>1, <2>1
  <1>5. at' = "default" => Len(req.tags) = 0
    <2>1. req.tags = <<>> => Len(req.tags) = 0
      OBVIOUS
    <2> QED
      BY <1>1, <2>1
  <1>6. InFront' \in Heads(req.name)' /\ (Found' => primary'.tags = models'[primary'.id].tags)
    BY <1>2, <1>3, TablesStand
  <1>7. Undisturbed'
    BY <1>1, <1>2, <1>4, <1>5, <1>6 DEF Undisturbed, Untagged
  <1> QED
    BY <1>2, <1>7 DEF SnapshotInv

\* A walk begins with what stands in front.
LEMMA StartWalkSnapshot ==
    ASSUME RouterInv, CatalogInv, UNCHANGED <<models, chains, primary, req>>,
           InFront \in Heads(req.name),
           Found => primary.tags = models[primary.id].tags,
           NEW c \in Selected(req.tags), c \in DOMAIN chains, StartWalk(chains[c].ids)
    PROVE  Undisturbed'
  <1>1. at' = "walk" /\ k' = 1 /\ chain' = chains[c].ids
    BY DEF StartWalk
  <1>2. result' = InFront /\ InFront' = InFront /\ (Found' <=> Found)
    BY DEF StartWalk, InFront, Found
  <1>3. InFront \in Seq(Ids)
    <2>1. Found => primary.id \in Ids
      BY DEF RouterInv, Walked, Found
    <2>2. <<>> \in Seq(Ids)
      OBVIOUS
    <2> QED
      BY <2>1, <2>2 DEF InFront
  <1>4. SubSeq(chain', 1, k' - 1) = <<>>
    BY <1>1, SubSeqEmpty
  <1>5. InFront \o Behind(InFront, <<>>) = InFront
    BY <1>3, KeptOfNone, ConcatEmptySeq DEF Behind
  <1>6. c \in Selected(req.tags)' /\ chain' = chains'[c].ids
    BY <1>1, TablesStand
  <1>7. result' = InFront' \o Behind(InFront, SubSeq(chain, 1, k - 1))'
    <2>1. Behind(InFront, SubSeq(chain, 1, k - 1))' = Behind(InFront, <<>>)
      BY <1>2, <1>4, TablesStand
    <2> QED
      BY <1>2, <1>5, <2>1
  <1>8. (InFront \in Heads(req.name))' /\ (Found => primary.tags = models[primary.id].tags)'
    BY <1>2, TablesStand
  <1> QED
    BY <1>1, <1>6, <1>7, <1>8 DEF Undisturbed

LEMMA FindByTagSnapshot ==
    ASSUME CatalogInv, RouterInv, SnapshotInv, FindByTag
    PROVE  SnapshotInv'
  <1>1. /\ at = "tag" /\ at' \in {"walk", "tag", "default"}
        /\ UNCHANGED <<catalog, req, still, primary>>
    BY DEF FindByTag, Query, Succeeds, StartWalk
  <1>2. /\ Asked' /\ UNCHANGED <<models, chains>>
        /\ req' = req /\ req'.name = req.name /\ req'.tags = req.tags
        /\ req.tags \in Seq(ToSet(req.tags)) /\ Len(req.tags) \in Nat
    BY <1>1, QueryKeeps
  <1>3. SUFFICES ASSUME still' PROVE Undisturbed'
    BY <1>2 DEF SnapshotInv
  <1>4. Undisturbed
    BY <1>1, <1>2, <1>3, QueryKeeps
  <1>5. /\ InFront \in Heads(req.name) /\ (Found => primary.tags = models[primary.id].tags)
        /\ k \in 1..Len(req.tags) /\ Untagged(k - 1)
    BY <1>1, <1>4 DEF Undisturbed
  <1>6. ASSUME NEW c \in GetFallbackChainByTag(req.tags[k]), StartWalk(chains[c].ids)
        PROVE  Undisturbed'
    <2>1. DOMAIN req.tags = 1..Len(req.tags)
      BY <1>2, LenProperties
    <2>2. k \in Selecting(req.tags)
      BY <1>5, <1>6, <2>1 DEF Selecting
    <2>3. \A i \in Selecting(req.tags) : k <= i
      <3>n. \A i \in Selecting(req.tags) : i \in Nat
        BY <2>1 DEF Selecting
      <3>1. SUFFICES ASSUME NEW i \in Selecting(req.tags), i < k PROVE FALSE
        <4>1. \A i \in Selecting(req.tags) : i < k \/ k <= i
          <5>1. k \in Nat
            BY <1>2, <1>5
          <5>2. \A i \in Nat : i < k \/ k <= i
            BY <5>1
          <5> QED
            BY <3>n, <5>2
        <4> QED
          BY <4>1
      <3>2. i \in 1..(k - 1)
        BY <1>2, <1>5, <2>1, <3>1 DEF Selecting
      <3> QED
        BY <1>5, <3>1, <3>2 DEF Selecting, Untagged
    <2>4. \A i \in Selecting(req.tags) : (\A j \in Selecting(req.tags) : i <= j) => i = k
      <3>1. \A i \in Selecting(req.tags) : i \in Int
        BY <2>1 DEF Selecting
      <3> QED
        BY <1>5, <2>2, <2>3, <3>1
    <2>5. Min(Selecting(req.tags)) = k
      BY <2>2, <2>3, <2>4 DEF Min
    <2>6. c \in Selected(req.tags) /\ c \in DOMAIN chains
      BY <1>6, <2>2, <2>5 DEF Selected, GetFallbackChainByTag
    <2> QED
      BY <1>1, <1>2, <1>5, <1>6, <2>6, StartWalkSnapshot
  <1>7. ASSUME GetFallbackChainByTag(req.tags[k]) = {}, k' = k + 1,
               at' = IF k < Len(req.tags) THEN "tag" ELSE "default"
        PROVE  Undisturbed'
    <2>1. \A i \in 1..k : GetFallbackChainByTag(req.tags[i]) = {}
      <3>1. \A i \in 1..k : i = k \/ i \in 1..(k - 1)
        BY <1>2, <1>5
      <3> QED
        BY <1>5, <1>7, <3>1 DEF Untagged
    <2>2. k' - 1 = k /\ (at' = "tag" => k' \in 1..Len(req.tags))
      BY <1>2, <1>5, <1>7
    <2>3. at' = "default" => k = Len(req.tags)
      BY <1>2, <1>5, <1>7
    <2>4. \A n : (\A i \in 1..n : GetFallbackChainByTag(req.tags[i]) = {}) => Untagged(n)'
      BY <1>2, TablesStand DEF Untagged
    <2>5. InFront' = InFront /\ (Found' <=> Found)
      BY <1>1 DEF InFront, Found
    <2>6. (InFront \in Heads(req.name))' /\ (Found => primary.tags = models[primary.id].tags)'
      BY <1>1, <1>2, <1>5, <2>5, TablesStand
    <2>7. at' = "tag" => Untagged(k - 1)'
      BY <2>1, <2>2, <2>4
    <2>8. at' = "default" => Untagged(Len(req.tags))'
      BY <1>2, <2>1, <2>3, <2>4
    <2>9. at' \in {"tag", "default"}
      BY <1>7
    <2> QED
      BY <1>2, <2>2, <2>6, <2>7, <2>8, <2>9 DEF Undisturbed
  <1> QED
    BY <1>6, <1>7 DEF FindByTag

\* Without tags no model carries one of them.
LEMMA NoTagsNoModels ==
    ASSUME req.tags = <<>>
    PROVE  <<>> \in GetActiveModelsByTags(ToSet(req.tags))
  <1>1. ToSet(<<>>) = {}
    <2>1. DOMAIN <<>> = {}
      OBVIOUS
    <2> QED
      BY <2>1 DEF ToSet
  <1>2. Sharing({}) = {}
    BY DEF Sharing
  <1>3. <<>> \in ByPriority({})
    <2>1. Cardinality({}) = 0
      BY FS_EmptySet
    <2>2. DOMAIN <<>> = {} /\ 1..0 = {}
      OBVIOUS
    <2>3. <<>> \in [1..0 -> {}]
      BY <2>2
    <2> QED
      BY <2>1, <2>2, <2>3 DEF ByPriority
  <1> QED
    BY <1>1, <1>2, <1>3 DEF GetActiveModelsByTags

\* What follows when no chain gave anything.
LEMMA NoChainSnapshot ==
    ASSUME UNCHANGED <<models, chains, primary, req>>,
           InFront \in Heads(req.name),
           Found => primary.tags = models[primary.id].tags,
           GivesNothing(InFront, req.tags), at' = NoChainState
    PROVE  Undisturbed'
  <1>1. InFront' = InFront /\ (Found' <=> Found)
    BY DEF InFront, Found
  <1>2. (InFront \in Heads(req.name))' /\ (Found => primary.tags = models[primary.id].tags)'
    BY <1>1, TablesStand
  <1>3. GivesNothing(InFront, req.tags)'
    BY <1>1, TablesStand
  <1>4. at' \in {"peers", "tagged", "all"} /\ (at' = "all" => req.tags = <<>>)
    BY DEF NoChainState
  <1>5. at' = "all" => (<<>> \in GetActiveModelsByTags(ToSet(req.tags)))'
    BY <1>4, NoTagsNoModels, TablesStand
  <1> QED
    BY <1>2, <1>3, <1>4, <1>5 DEF Undisturbed

LEMMA FindDefaultSnapshot ==
    ASSUME CatalogInv, RouterInv, SnapshotInv, FindDefault
    PROVE  SnapshotInv'
  <1>1. /\ at = "default" /\ at' \in {"walk", "peers", "tagged", "all"}
        /\ UNCHANGED <<catalog, req, still, primary>>
    BY DEF FindDefault, Query, Succeeds, StartWalk, NoChainState
  <1>2. /\ Asked' /\ UNCHANGED <<models, chains>>
        /\ req' = req /\ req'.name = req.name /\ req'.tags = req.tags
        /\ req.tags \in Seq(ToSet(req.tags)) /\ Len(req.tags) \in Nat
    BY <1>1, QueryKeeps
  <1>3. SUFFICES ASSUME still' PROVE Undisturbed'
    BY <1>2 DEF SnapshotInv
  <1>4. Undisturbed
    BY <1>1, <1>2, <1>3, QueryKeeps
  <1>5. /\ InFront \in Heads(req.name) /\ (Found => primary.tags = models[primary.id].tags)
        /\ Untagged(Len(req.tags))
    BY <1>1, <1>4 DEF Undisturbed
  <1>6. Selected(req.tags) = Default
    <2>1. DOMAIN req.tags = 1..Len(req.tags)
      BY <1>2, LenProperties
    <2> QED
      BY <1>5, <2>1 DEF Selected, Selecting, Untagged
  <1>7. ASSUME NEW c \in Default, StartWalk(chains[c].ids) PROVE Undisturbed'
    <2>1. c \in DOMAIN chains
      BY DEF Default
    <2> QED
      BY <1>1, <1>2, <1>5, <1>6, <1>7, <2>1, StartWalkSnapshot
  <1>8. ASSUME Default = {}, at' = NoChainState PROVE Undisturbed'
    <2>1. GivesNothing(InFront, req.tags)
      BY <1>6, <1>8 DEF GivesNothing, Chained
    <2> QED
      BY <1>1, <1>2, <1>5, <1>8, <2>1, NoChainSnapshot
  <1> QED
    BY <1>7, <1>8 DEF FindDefault, GetDefaultFallbackChain


\* What is behind the first n + 1 of a list.
LEMMA BehindOneMore ==
    ASSUME NEW h, NEW ids \in Seq(Nat), NEW n \in Nat, n + 1 <= Len(ids)
    PROVE  Behind(h, SubSeq(ids, 1, n + 1)) =
             IF ids[n + 1] \in Active \ ToSet(h)
             THEN Append(Behind(h, SubSeq(ids, 1, n)), ids[n + 1])
             ELSE Behind(h, SubSeq(ids, 1, n))
  <1> DEFINE u == SubSeq(ids, 1, n)
             e == ids[n + 1]
  <1>1. Len(ids) \in Nat /\ n + 1 \in 1..Len(ids) /\ 1 \in 1..Len(ids) /\ n + 1 \in 1..(n + 1)
    BY LenProperties
  <1>2. e \in Nat /\ \A i \in 1..n : ids[i] \in Nat
    BY <1>1
  <1>3. u \in Seq(Nat)
    BY <1>2, SubSeqProperties
  <1>4. SubSeq(ids, 1, n + 1) = Append(u, e)
    <2>1. n + 1 \in 1..Len(ids) /\ (n + 1) - 1 = n
      BY <1>1
    <2>2. SubSeq(ids, 1, n + 1) = SubSeq(ids, 1, (n + 1) - 1) \o <<ids[n + 1]>>
      BY <1>1, SubSeqRecursiveSecond
    <2>3. Append(u, e) = u \o <<e>>
      BY <1>2, <1>3, AppendIsConcat
    <2> QED
      BY <2>1, <2>2, <2>3
  <1> HIDE DEF u, e
  <1>5. \A S : Kept(Append(u, e), S) = IF e \in S THEN Append(Kept(u, S), e) ELSE Kept(u, S)
    BY <1>2, <1>3, KeptOfAppend
  <1> QED
    BY <1>4, <1>5 DEF Behind, u, e

\* An item is taken when it is active, and not in front.
LEMMA NextItemSnapshot ==
    ASSUME CatalogInv, RouterInv, SnapshotInv, at = "walk", k <= Len(chain), NEW items, NextItem(items),
           UNCHANGED <<catalog, req, still, primary, chain>>,
           items = IF chain[k] # primary.id /\ chain[k] \in Active THEN <<chain[k]>> ELSE <<>>
    PROVE  SnapshotInv'
  <1>1. at' = "walk" /\ k' = k + 1 /\ result' = result \o items
    BY DEF NextItem
  <1>2. /\ Asked' /\ UNCHANGED <<models, chains>>
        /\ req' = req /\ req'.name = req.name /\ req'.tags = req.tags
        /\ req.tags \in Seq(ToSet(req.tags)) /\ Len(req.tags) \in Nat
    BY <1>1, QueryKeeps
  <1>3. SUFFICES ASSUME still' PROVE Undisturbed'
    BY <1>2 DEF SnapshotInv
  <1>4. Undisturbed
    BY <1>1, <1>2, <1>3, QueryKeeps
  <1>5. /\ InFront \in Heads(req.name) /\ (Found => primary.tags = models[primary.id].tags)
    BY <1>4 DEF Undisturbed
  <1>6. PICK c \in Selected(req.tags) :
          chain = chains[c].ids /\ result = InFront \o Behind(InFront, SubSeq(chain, 1, k - 1))
    BY <1>4 DEF Undisturbed
  <1>7. InFront' = InFront /\ (Found' <=> Found)
    BY DEF InFront, Found
  <1>8. chain \in Seq(Nat) /\ k - 1 \in Nat /\ (k - 1) + 1 = k /\ Len(chain) \in Nat
        /\ (primary = NoPrimary \/ primary.id \in Ids)
    BY LenProperties DEF RouterInv, Walked
  <1> DEFINE u == Behind(InFront, SubSeq(chain, 1, k - 1))
             e == chain[k]
  <1>9. e \in Active \ ToSet(InFront) <=> e # primary.id /\ e \in Active
    <2>1. Found => ToSet(InFront) = {primary.id}
      <3>1. DOMAIN <<primary.id>> = {1} /\ <<primary.id>>[1] = primary.id
        OBVIOUS
      <3> QED
        BY <3>1 DEF ToSet, InFront
    <2>2. ~Found => ToSet(InFront) = {} /\ primary.id \notin Active
      <3>1. DOMAIN <<>> = {}
        OBVIOUS
      <3>2. ~Found => primary.id = NoModel
        BY DEF Found, NoPrimary
      <3>3. NoModel \notin Active
        BY ModelsAreIds, NoModelAssumption DEF Ids
      <3> QED
        BY <3>1, <3>2, <3>3 DEF ToSet, InFront
    <2> QED
      BY <2>1, <2>2
  <1>10. Behind(InFront, SubSeq(chain, 1, k)) =
           IF e \in Active \ ToSet(InFront) THEN Append(u, e) ELSE u
    <2>1. (k - 1) + 1 <= Len(chain)
      BY <1>8
    <2>2. Behind(InFront, SubSeq(chain, 1, (k - 1) + 1)) =
            IF chain[(k - 1) + 1] \in Active \ ToSet(InFront)
            THEN Append(Behind(InFront, SubSeq(chain, 1, k - 1)), chain[(k - 1) + 1])
            ELSE Behind(InFront, SubSeq(chain, 1, k - 1))
      BY <1>8, <2>1, BehindOneMore
    <2> QED
      BY <1>8, <2>2
  <1>11. u \in Seq(Nat) /\ InFront \in Seq(Nat) /\ e \in Nat
    <2>1. SubSeq(chain, 1, k - 1) \in Seq(Nat)
      <3>1. \A i \in 1..(k - 1) : chain[i] \in Nat
        BY <1>8
      <3> QED
        BY <1>8, <3>1, SubSeqProperties
    <2>2. u \in Seq(Nat)
      BY <2>1, KeptType DEF Behind
    <2>3. InFront \in Seq(Nat)
      <3>1. Found => primary.id \in Nat
        BY <1>8, BoundAssumption DEF Found, Ids
      <3>2. <<>> \in Seq(Nat)
        OBVIOUS
      <3> QED
        BY <3>1, <3>2 DEF InFront
    <2>4. e \in Nat
      BY <1>8
    <2> QED
      BY <2>2, <2>3, <2>4
  <1> HIDE DEF u, e
  <1>12. result \o items = InFront \o Behind(InFront, SubSeq(chain, 1, k))
    <2>1. CASE e # primary.id /\ e \in Active
      <3>1. result \o items = (InFront \o u) \o <<e>>
        BY <1>6, <2>1 DEF u, e
      <3>2. <<e>> \in Seq(Nat)
        BY <1>11
      <3>3. (InFront \o u) \o <<e>> = InFront \o (u \o <<e>>)
        BY <1>11, <3>2, ConcatAssociative
      <3>4. u \o <<e>> = Append(u, e)
        BY <1>11, AppendIsConcat
      <3> QED
        BY <1>9, <1>10, <2>1, <3>1, <3>3, <3>4
    <2>2. CASE ~(e # primary.id /\ e \in Active)
      <3>1. items = <<>>
        BY <2>2 DEF e
      <3>2. InFront \o u \in Seq(Nat)
        BY <1>11, ConcatProperties
      <3>3. (InFront \o u) \o <<>> = InFront \o u
        BY <3>2, ConcatEmptySeq
      <3> QED
        BY <1>6, <1>9, <1>10, <2>2, <3>1, <3>3 DEF u
    <2> QED
      BY <2>1, <2>2
  <1>13. k' - 1 = k
    BY <1>1, <1>8
  <1>14. result' = InFront' \o Behind(InFront, SubSeq(chain, 1, k - 1))'
    <2>1. Behind(InFront, SubSeq(chain, 1, k - 1))' = Behind(InFront, SubSeq(chain, 1, k))
      BY <1>2, <1>7, <1>13, TablesStand
    <2> QED
      BY <1>1, <1>7, <1>12, <2>1
  <1>15. c \in Selected(req.tags)' /\ chain' = chains'[c].ids
    BY <1>2, <1>6, TablesStand
  <1>16. (InFront \in Heads(req.name))' /\ (Found => primary.tags = models[primary.id].tags)'
    BY <1>2, <1>5, <1>7, TablesStand
  <1> QED
    BY <1>1, <1>14, <1>15, <1>16 DEF Undisturbed

LEMMA EndWalkSnapshot ==
    ASSUME CatalogInv, RouterInv, SnapshotInv, EndWalk
    PROVE  SnapshotInv'
  <1>1. /\ at = "walk" /\ at' \in {"done", "peers", "tagged", "all"}
        /\ UNCHANGED <<catalog, req, still, primary, chain, result>>
    BY DEF EndWalk, NoChainState
  <1>2. /\ Asked' /\ UNCHANGED <<models, chains>>
        /\ req' = req /\ req'.name = req.name /\ req'.tags = req.tags
        /\ req.tags \in Seq(ToSet(req.tags)) /\ Len(req.tags) \in Nat
    BY <1>1, QueryKeeps
  <1>3. SUFFICES ASSUME still' PROVE Undisturbed'
    BY <1>2 DEF SnapshotInv
  <1>4. Undisturbed
    BY <1>1, <1>2, <1>3, QueryKeeps
  <1>5. /\ InFront \in Heads(req.name) /\ (Found => primary.tags = models[primary.id].tags)
    BY <1>1, <1>4 DEF Undisturbed
  <1>6. PICK c \in Selected(req.tags) :
          chain = chains[c].ids /\ result = InFront \o Behind(InFront, SubSeq(chain, 1, k - 1))
    BY <1>1, <1>4 DEF Undisturbed
  <1>7. SubSeq(chain, 1, k - 1) = chain
    <2>1. chain \in Seq(Nat) /\ k \in Nat /\ k >= 1 /\ k <= Len(chain) + 1 /\ k > Len(chain)
          /\ Len(chain) \in Nat
      BY LenProperties DEF EndWalk, RouterInv, Walked
    <2>2. k - 1 = Len(chain)
      BY <2>1
    <2> QED
      BY <2>1, <2>2, SubSeqFull
  <1>8. result \in Chained(InFront, req.tags)
    BY <1>6, <1>7 DEF Chained
  <1>9. InFront' = InFront /\ (Found' <=> Found)
    BY <1>1 DEF InFront, Found
  <1>10. CASE result # <<>>
    <2>1. at' = "done"
      BY <1>10 DEF EndWalk
    <2>2. result \in Resolutions(req.name, req.tags)
      BY <1>5, <1>8, <1>10, ReturnedIsResolved
    <2>3. (result \in Resolutions(req.name, req.tags))'
      BY <1>1, <1>2, <2>2, TablesStand
    <2>4. (InFront \in Heads(req.name))' /\ (Found => primary.tags = models[primary.id].tags)'
      BY <1>1, <1>2, <1>5, <1>9, TablesStand
    <2> QED
      BY <2>1, <2>3, <2>4 DEF Undisturbed
  <1>11. CASE result = <<>>
    <2>1. at' = NoChainState
      BY <1>11 DEF EndWalk
    <2>2. GivesNothing(InFront, req.tags)
      BY <1>8, <1>11 DEF GivesNothing
    <2> QED
      BY <1>1, <1>2, <1>5, <2>1, <2>2, NoChainSnapshot
  <1> QED
    BY <1>10, <1>11

\* The models that share a tag with the one in front, or else the others.
LEMMA BehindPrimarySnapshot ==
    ASSUME CatalogInv, Ranked, RouterInv, SnapshotInv, ReadPeers \/ ReadRest
    PROVE  SnapshotInv'
  <1>1. /\ at \in {"peers", "rest"} /\ at' \in {"rest", "done"}
        /\ UNCHANGED <<catalog, req, still, primary, chain>>
    BY DEF ReadPeers, ReadRest, TryPeers, Query, Succeeds
  <1>2. /\ Asked' /\ UNCHANGED <<models, chains>>
        /\ req' = req /\ req'.name = req.name /\ req'.tags = req.tags
    BY <1>1, QueryKeeps
  <1>3. SUFFICES ASSUME still' PROVE Undisturbed'
    BY <1>2 DEF SnapshotInv
  <1>4. Undisturbed
    BY <1>1, <1>2, <1>3, QueryKeeps
  <1> DEFINE p == primary.id
             h == <<p>>
             S == Sharing(primary.tags)
             peers == AllBehind(h, ByPriority(S))
  <1>5. Found /\ InFront = h
    BY <1>1 DEF RouterInv, Stages, InFront
  <1>6. /\ InFront \in Heads(req.name) /\ primary.tags = models[p].tags
        /\ GivesNothing(InFront, req.tags)
    BY <1>1, <1>4, <1>5 DEF Undisturbed
  <1>7. InFront' = InFront /\ (Found' <=> Found)
    BY <1>1 DEF InFront, Found
  <1>8. (InFront \in Heads(req.name))' /\ (Found => primary.tags = models[primary.id].tags)'
    BY <1>1, <1>2, <1>5, <1>6, <1>7, TablesStand
  <1>9. GivesNothing(InFront, req.tags)'
    BY <1>2, <1>6, <1>7, TablesStand
  <1>10. S \in SUBSET Active /\ Active \in SUBSET Active
    BY DEF Sharing
  <1>11. GetActiveModelsByTags(primary.tags) = ByPriority(S)
    BY DEF GetActiveModelsByTags
  <1>12. Unchained(h, req.tags) =
           {h \o s : s \in IF <<>> \in peers THEN AllBehind(h, ListActive) ELSE peers}
    <2>1. h # <<>> /\ h[1] = p
      OBVIOUS
    <2> HIDE DEF h
    <2> QED
      BY <1>6, <1>11, <2>1 DEF Unchained
  <1> HIDE DEF h, S, peers
  <1>13. CASE ReadPeers
    <2>1. at = "peers"
      BY <1>13 DEF ReadPeers, Query
    <2>2. PICK s \in ByPriority(S \ {p}) : TryPeers(s)
      BY <1>13 DEF ReadPeers, Peers, S
    <2>3. s \in peers
      BY <1>10, ListedBehind DEF peers, h
    <2>4. CASE s = <<>>
      <3>1. at' = "rest"
        BY <2>2, <2>4 DEF TryPeers
      <3>2. <<>> \in AllBehind(InFront, GetActiveModelsByTags(primary.tags))
        BY <1>5, <1>11, <2>3, <2>4 DEF peers
      <3>3. (<<>> \in AllBehind(InFront, GetActiveModelsByTags(primary.tags)))'
        BY <1>1, <1>2, <1>7, <3>2, TablesStand
      <3> QED
        BY <1>8, <1>9, <3>1, <3>3 DEF Undisturbed
    <2>5. CASE s # <<>>
      <3>1. at' = "done" /\ result' = h \o s
        BY <2>2, <2>5 DEF TryPeers, h
      <3>2. <<>> \notin peers
        BY <1>10, <2>5, SomethingBehind DEF peers, h
      <3>3. h \o s \in Unchained(h, req.tags)
        BY <1>12, <2>3, <3>2
      <3>4. h \o s \in Resolutions(req.name, req.tags)
        BY <1>5, <1>6, <3>3, ReturnedIsResolved
      <3>5. (result \in Resolutions(req.name, req.tags))'
        BY <1>2, <3>1, <3>4, TablesStand
      <3> QED
        BY <1>8, <3>1, <3>5 DEF Undisturbed
    <2> QED
      BY <2>4, <2>5
  <1>14. CASE ReadRest
    <2>1. at = "rest" /\ result = h
      BY <1>14 DEF ReadRest, Query, RouterInv, Stages, h
    <2>2. PICK s \in Rest : result' = h \o s
      BY <1>14, <2>1 DEF ReadRest
    <2>3. s \in AllBehind(h, ListActive)
      BY <1>10, ListedBehind DEF Rest, ListActive, h
    <2>4. <<>> \in peers
      BY <1>4, <1>5, <1>11, <2>1 DEF Undisturbed, peers
    <2>5. h \o s \in Unchained(h, req.tags)
      BY <1>12, <2>3, <2>4
    <2>6. h \o s \in Resolutions(req.name, req.tags)
      BY <1>5, <1>6, <2>5, ReturnedIsResolved
    <2>7. (result \in Resolutions(req.name, req.tags))'
      BY <1>2, <2>2, <2>6, TablesStand
    <2>8. at' = "done"
      BY <1>14 DEF ReadRest
    <2> QED
      BY <1>8, <2>7, <2>8 DEF Undisturbed
  <1> QED
    BY <1>13, <1>14

\* The models that carry a tag of the request, or else all.
LEMMA ListedSnapshot ==
    ASSUME CatalogInv, RouterInv, SnapshotInv, ReadTagged \/ ReadAll
    PROVE  SnapshotInv'
  <1>1. /\ at \in {"tagged", "all"} /\ at' \in {"all", "done"}
        /\ UNCHANGED <<catalog, req, still, primary, chain>>
    BY DEF ReadTagged, ReadAll, Query, Succeeds
  <1>2. /\ Asked' /\ UNCHANGED <<models, chains>>
        /\ req' = req /\ req'.name = req.name /\ req'.tags = req.tags
    BY <1>1, QueryKeeps
  <1>3. SUFFICES ASSUME still' PROVE Undisturbed'
    BY <1>2 DEF SnapshotInv
  <1>4. Undisturbed
    BY <1>1, <1>2, <1>3, QueryKeeps
  <1> DEFINE some == GetActiveModelsByTags(ToSet(req.tags))
  <1>5. ~Found /\ InFront = <<>>
    BY <1>1 DEF RouterInv, Stages, InFront
  <1>6. <<>> \in Heads(req.name) /\ GivesNothing(<<>>, req.tags)
    BY <1>1, <1>4, <1>5 DEF Undisturbed
  <1>7. ~Found' /\ InFront' = <<>>
    BY <1>1, <1>5 DEF InFront, Found
  <1>8. (InFront \in Heads(req.name))' /\ (Found => primary.tags = models[primary.id].tags)'
    BY <1>1, <1>2, <1>6, <1>7, TablesStand
  <1>9. GivesNothing(InFront, req.tags)'
    BY <1>2, <1>6, <1>7, TablesStand
  <1>10. Unchained(<<>>, req.tags) = IF <<>> \in some THEN ListActive ELSE some
    BY DEF Unchained
  <1>11. ASSUME result' \in Unchained(<<>>, req.tags), at' = "done" PROVE Undisturbed'
    <2>1. result' \in Resolutions(req.name, req.tags)
      BY <1>6, <1>11, ReturnedIsResolved
    <2>2. (result \in Resolutions(req.name, req.tags))'
      BY <1>2, <2>1, TablesStand
    <2> QED
      BY <1>8, <1>11, <2>2 DEF Undisturbed
  <1>12. CASE ReadTagged
    <2>1. PICK s \in some : result' = s /\ at' = IF s = <<>> THEN "all" ELSE "done"
      BY <1>12 DEF ReadTagged
    <2>2. CASE s = <<>>
      <3>1. (<<>> \in GetActiveModelsByTags(ToSet(req.tags)))'
        BY <1>2, <2>1, <2>2, TablesStand
      <3> QED
        BY <1>8, <1>9, <2>1, <2>2, <3>1 DEF Undisturbed
    <2>3. CASE s # <<>>
      <3>1. Sharing(ToSet(req.tags)) \in SUBSET Active
        BY DEF Sharing
      <3>2. <<>> \notin some
        BY <2>1, <2>3, <3>1, SomethingListed DEF GetActiveModelsByTags
      <3> QED
        BY <1>10, <1>11, <2>1, <2>3, <3>2
    <2> QED
      BY <2>2, <2>3
  <1>13. CASE ReadAll
    <2>1. at = "all" /\ at' = "done" /\ result' \in ListActive
      BY <1>13 DEF ReadAll, Query
    <2>2. <<>> \in some
      BY <1>4, <2>1 DEF Undisturbed
    <2> QED
      BY <1>10, <1>11, <2>1, <2>2
  <1> QED
    BY <1>12, <1>13

\* Every query of a resolution.
LEMMA ResolveChainSnapshot ==
    ASSUME CatalogInv, Ranked, RouterInv, SnapshotInv, ResolveChain
    PROVE  SnapshotInv'
  <1>1. CASE FindPrimary
    BY <1>1, FindPrimarySnapshot
  <1>2. CASE FindByTag
    BY <1>2, FindByTagSnapshot
  <1>3. CASE FindDefault
    BY <1>3, FindDefaultSnapshot
  <1>4. CASE ReadItem
    <2> DEFINE items == IF chain[k] \in Active THEN <<chain[k]>> ELSE <<>>
    <2>1. /\ NextItem(items) /\ at = "walk" /\ k <= Len(chain) /\ chain[k] # primary.id
          /\ UNCHANGED <<catalog, req, still, primary, chain>>
      BY <1>4 DEF ReadItem, Query, Succeeds
    <2>2. items = IF chain[k] # primary.id /\ chain[k] \in Active THEN <<chain[k]>> ELSE <<>>
      BY <2>1
    <2> HIDE DEF items
    <2> QED
      BY <2>1, <2>2, NextItemSnapshot
  <1>5. CASE SkipPrimary
    <2>1. /\ NextItem(<<>>) /\ at = "walk" /\ k <= Len(chain) /\ chain[k] = primary.id
          /\ UNCHANGED <<catalog, req, still, primary, chain>>
      BY <1>5 DEF SkipPrimary
    <2> QED
      BY <2>1, NextItemSnapshot
  <1>6. CASE EndWalk
    BY <1>6, EndWalkSnapshot
  <1>7. CASE ReadPeers \/ ReadRest
    BY <1>7, BehindPrimarySnapshot
  <1>8. CASE ReadTagged \/ ReadAll
    BY <1>8, ListedSnapshot
  <1>9. CASE PrimaryFails \/ TagFails \/ DefaultFails \/ ItemFails \/ PeersFail \/ RestFails
             \/ ListFails \/ TaggedBreaksOff \/ AllBreaksOff
    <2>1. ~still' /\ req' = req /\ at' \notin {"idle", "primary"}
      BY <1>9 DEF PrimaryFails, TagFails, DefaultFails, ItemFails, PeersFail, RestFails, ListFails,
                  TaggedBreaksOff, AllBreaksOff, Query, Fails, NextItem, TryPeers, NoChainState
    <2>2. Asked'
      BY <2>1 DEF SnapshotInv, Asked
    <2> QED
      BY <2>1, <2>2 DEF SnapshotInv
  <1> QED
    BY <1>1, <1>2, <1>3, <1>4, <1>5, <1>6, <1>7, <1>8, <1>9 DEF ResolveChain

\* Every step: a query, or an edit between two queries.
ResolverInv == CatalogInv /\ RouterInv /\ Ranked /\ SnapshotInv

LEMMA NextInv == ResolverInv /\ [Next]_vars => ResolverInv'
  <1> SUFFICES ASSUME ResolverInv, [Next]_vars PROVE ResolverInv'
    OBVIOUS
  <1> USE DEF ResolverInv
  <1>1. CASE ResolveChain
    <2>1. UNCHANGED catalog
      BY <1>1 DEF ResolveChain, FindPrimary, PrimaryFails, FindByTag, TagFails, FindDefault,
                  DefaultFails, ReadItem, SkipPrimary, ItemFails, EndWalk, ReadPeers, PeersFail,
                  ReadRest, RestFails, ReadTagged, ReadAll, ListFails, TaggedBreaksOff,
                  AllBreaksOff, Query
    <2> QED
      BY <1>1, <2>1, ResolveChainInv, EditKeepsRows, EditKeepsRanks, ResolveChainSnapshot
  <1>2. ASSUME NEW name \in Names \cup {NoName}, NEW tags \in TagLists, Ask(name, tags)
        PROVE  ResolverInv'
    <2>1. at = "idle" /\ at' \in {"primary", "tag", "default"}
          /\ UNCHANGED <<catalog, primary, chain, k, result, seen>>
      BY <1>2 DEF Ask
    <2>2. ~Found /\ k' \in Nat
      BY <2>1 DEF RouterInv, Stages, Walked
    <2>3. SnapshotInv'
      BY <1>2, AskSnapshot
    <2> QED
      BY <2>1, <2>2, <2>3, OtherQueryInv, EditKeepsRows, EditKeepsRanks
  <1>3. CASE Edit \/ UNCHANGED vars
    <2>1. [CatalogNext]_catalog /\ UNCHANGED <<at, req, primary, chain, k, result, seen>>
      BY <1>3 DEF Edit, vars, resolution
    <2>2. RouterInv'
      BY <2>1 DEF RouterInv, Walked, Stages, Seen, Headed, Repeats, Found
    <2>3. (still' => still) /\ (still' => at = "idle" \/ UNCHANGED <<models, chains>>)
      <3>1. CASE Edit
        BY <3>1 DEF Edit
      <3>2. CASE UNCHANGED vars
        BY <3>2 DEF vars, resolution, catalog
      <3> QED
        BY <1>3, <3>1, <3>2
    <2>4. SnapshotInv'
      BY <2>1, <2>3, NothingDisturbs
    <2> QED
      BY <2>1, <2>2, <2>4, EditKeepsRows, EditKeepsRanks
  <1> QED
    BY <1>1, <1>2, <1>3 DEF Next

LEMMA InitInv == Init => ResolverInv
  <1> SUFFICES ASSUME Init PROVE ResolverInv
    OBVIOUS
  <1>1. CatalogInv
    <2>1. DefaultInv
      BY InitDefaultInv DEF Init
    <2>2. DOMAIN models = {} /\ DOMAIN chains = {}
      BY DEF Init, CatalogInit
    <2> QED
      BY <2>1, <2>2 DEF CatalogInv, RowsAreListed
  <1>2. RouterInv
    BY DEF Init, RouterInv, Walked, Stages, Seen, Headed, Repeats, Found
  <1>3. Ranked
    BY DEF Init, CatalogInit, Ranked
  <1>4. SnapshotInv
    <2>1. at = "idle" /\ k = 1 /\ req.tags = <<>>
      BY DEF Init
    <2>2. <<>> \in Seq(ToSet(<<>>))
      OBVIOUS
    <2> QED
      BY <2>1, <2>2 DEF SnapshotInv, Asked, Undisturbed
  <1> QED
    BY <1>1, <1>2, <1>3, <1>4 DEF ResolverInv

LEMMA Invariant == Spec => []ResolverInv
  BY InitInv, NextInv, PTL DEF Spec

-----------------------------------------------------------------------------
(* The theorems about a resolution. *)

\* Each model that is to be tried was in use at one of the queries, whatever was edited
\* in between (router.go:62-81, 85-103, 117-127).
THEOREM OnlyActiveIsTried == Spec => []OnlyActiveModels
  <1>1. ResolverInv => OnlyActiveModels
    <2> SUFFICES ASSUME ResolverInv PROVE ToSet(result) \subseteq seen
      BY DEF OnlyActiveModels
    <2>1. result \in Seq(Ids) /\ \A i \in 1..Len(result) : result[i] \in seen
      BY DEF ResolverInv, RouterInv, Walked, Seen
    <2> QED
      BY <2>1 DEF ToSet
  <1> QED
    BY <1>1, Invariant, PTL

\* The model asked for, when there is one, is tried first and only once
\* (router.go:63-70, 84-90).
THEOREM RequestedIsFirst == Spec => []RequestedFirst
  <1>1. ResolverInv => RequestedFirst
    BY DEF ResolverInv, RouterInv, Headed, RequestedFirst
  <1> QED
    BY <1>1, Invariant, PTL

\* No other model is tried more often than its administrator listed it, and none that is
\* not of a chain more than once (router.go:72-81, 84-103, 117-127).
THEOREM NothingIsRepeated == Spec => []NoNewRepeats
  <1>1. ResolverInv => NoNewRepeats
    <2> SUFFICES ASSUME ResolverInv, at = "done", NEW m \in ToSet(result) \ {primary.id}
                 PROVE  Times(result, m) <= IF chain = <<>> THEN 1
                                            ELSE LET n == Times(chain, m)
                                                 IN  IF n = 0 THEN 1 ELSE n
      BY DEF NoNewRepeats
    <2>1. result \in Seq(Ids) /\ chain \in Seq(Nat)
      BY DEF ResolverInv, RouterInv, Walked
    <2>2. m \in Ids
      BY <2>1 DEF ToSet
    <2>3. Times(result, m) \in Nat /\ Times(chain, m) \in Nat
      BY <2>1, TimesArePlaces
    <2>4. Times(result, m) <= 1 \/ Times(result, m) <= Times(chain, m)
      BY <2>2 DEF ResolverInv, RouterInv, Repeats
    <2>5. chain = <<>> => Times(chain, m) = 0
      <3>1. chain = <<>> => {i \in DOMAIN chain : chain[i] = m} = {}
        OBVIOUS
      <3> QED
        BY <3>1, FS_EmptySet DEF Times
    <2> QED
      BY <2>3, <2>4, <2>5
  <1> QED
    BY <1>1, Invariant, PTL

\* A resolution that nothing disturbs returns, after all its queries, what one look at
\* the catalog would give: the requested model and the chain of the first tag that selects
\* one, or else the default chain, with nothing appended to it; without a chain the models
\* sharing a tag, or else every active model (router.go:28-127).
THEOREM SnapshotIsResolved == Spec => []ResolvesTheSnapshot
  <1>1. ResolverInv => ResolvesTheSnapshot
    BY DEF ResolverInv, SnapshotInv, Undisturbed, ResolvesTheSnapshot
  <1> QED
    BY <1>1, Invariant, PTL
=============================================================================
