--------------------------- MODULE SequenceLemmas ---------------------------
(***************************************************************************)
(* What the proofs need of sequences: induction over their length, stated   *)
(* of sets, and what the operators that walk a sequence return.            *)
(***************************************************************************)
EXTENDS Selection, SequencesExt, FiniteSetTheorems, SequenceTheorems, WellFoundedInduction, TLAPS

-----------------------------------------------------------------------------
(* Induction. *)

\* Of the numbers of a set one is the least.
LEMMA Least ==
    ASSUME NEW T \in SUBSET Nat, T # {}
    PROVE  \E x \in T : \A y \in T : x <= y
<1> DEFINE U == {0 .. n : n \in T}
<1>1. U \subseteq FiniteSubsetsOf(Nat)
  <2>1. ASSUME NEW n \in T PROVE IsFiniteSet(0 .. n)
    BY FS_Interval
  <2> QED BY <2>1 DEF FiniteSubsetsOf
<1>2. PICK u \in U : \A v \in U : ~ (<<v, u>> \in StrictSubsetOrdering(Nat))
  <2>1. U # {}
    OBVIOUS
  <2>2. IsWellFoundedOn(StrictSubsetOrdering(Nat), FiniteSubsetsOf(Nat))
    BY FS_StrictSubsetOrderingWellFounded
  <2> HIDE DEF U
  <2> QED BY <1>1, <2>1, <2>2, WFMin
<1>3. PICK x \in T : u = 0 .. x
  OBVIOUS
<1>4. ASSUME NEW y \in T, y < x PROVE <<0 .. y, 0 .. x>> \in StrictSubsetOrdering(Nat)
  <2>1. 0 .. y \subseteq 0 .. x /\ x \in 0 .. x /\ x \notin 0 .. y
    BY <1>4
  <2>2. 0 .. y \subseteq Nat /\ 0 .. x \subseteq Nat
    OBVIOUS
  <2> DEFINE p == <<0 .. y, 0 .. x>>
  <2>3. p \in (SUBSET Nat) \X (SUBSET Nat) /\ p[1] = 0 .. y /\ p[2] = 0 .. x
    BY <2>2
  <2> HIDE DEF p
  <2>4. p \in StrictSubsetOrdering(Nat)
    BY <2>1, <2>3 DEF StrictSubsetOrdering
  <2> QED BY <2>4 DEF p
<1>5. ASSUME NEW y \in T PROVE ~(y < x)
  <2>1. 0 .. y \in U
    OBVIOUS
  <2> HIDE DEF U
  <2> QED BY <1>2, <1>3, <1>4, <2>1
<1> QED BY <1>5

\* A set of numbers that has 0, and with each number the next, has all of them.
LEMMA Induction ==
    ASSUME NEW T \in SUBSET Nat, 0 \in T, \A n \in T : n + 1 \in T
    PROVE  T = Nat
<1> DEFINE W == {n \in Nat : n \notin T}
<1>1. SUFFICES ASSUME T # Nat PROVE FALSE
  OBVIOUS
<1>2. W \in SUBSET Nat /\ W # {}
  BY <1>1
<1>3. PICK x \in W : \A y \in W : x <= y
  BY <1>2, Least
<1>4. x \in Nat /\ x # 0
  BY <1>3
<1>5. x - 1 \in Nat /\ ~(x <= x - 1) /\ (x - 1) + 1 = x
  BY <1>4
<1> QED BY <1>3, <1>5

\* A set of sequences that has the empty one, and with each those that are longer by
\* one, has all of them.
LEMMA SequenceInduction ==
    ASSUME NEW D, NEW T \in SUBSET Seq(D), <<>> \in T,
           \A s \in T, e \in D : Append(s, e) \in T
    PROVE  T = Seq(D)
<1> DEFINE N == {n \in Nat : \A s \in Seq(D) : Len(s) = n => s \in T}
<1>1. 0 \in N
  BY EmptySeq
<1>2. ASSUME NEW n \in N PROVE n + 1 \in N
  <2>1. SUFFICES ASSUME NEW s \in Seq(D), Len(s) = n + 1 PROVE s \in T
    OBVIOUS
  <2>2. s # <<>>
    BY <2>1, EmptySeq
  <2>3. PICK front \in Seq(D), e \in D : s = Append(front, e)
    BY <2>2, SequenceEmptyOrAppend
  <2>4. Len(front) \in Nat
    BY LenProperties
  <2>5. Len(s) = Len(front) + 1
    BY <2>3, AppendProperties
  <2>6. front \in T
    BY <2>1, <2>4, <2>5
  <2> QED BY <2>3, <2>6
<1>3. N \in SUBSET Nat
  OBVIOUS
<1> HIDE DEF N
<1>4. N = Nat
  BY <1>1, <1>2, <1>3, Induction
<1>5. ASSUME NEW s \in Seq(D) PROVE s \in T
  <2>1. Len(s) \in N
    BY <1>4, LenProperties
  <2> QED BY <2>1 DEF N
<1> QED BY <1>5

-----------------------------------------------------------------------------
(* Kept.                                                                    *)

\* f[n] is what is kept of the first n elements of s.
Selects(f, s, S, m) == f = [n \in 0..m |->
    IF n = 0 THEN <<>>
    ELSE IF s[n] \in S THEN Append(f[n - 1], s[n]) ELSE f[n - 1]]

\* There is such a function: what the recursion of Kept defines exists.
LEMMA SelectionExists ==
    ASSUME NEW s, NEW S, NEW m \in Nat
    PROVE  \E f : Selects(f, s, S, m)
<1> DEFINE T == {m_ \in Nat : \E f : Selects(f, s, S, m_)}
<1>1. 0 \in T
  <2> DEFINE f == [n \in 0..0 |-> <<>>]
  <2>1. Selects(f, s, S, 0)
    BY DEF Selects
  <2> HIDE DEF f
  <2> QED BY <2>1
<1>2. ASSUME NEW m_ \in T PROVE m_ + 1 \in T
  <2>1. PICK f : Selects(f, s, S, m_)
    OBVIOUS
  <2> DEFINE g == [n \in 0..m_ + 1 |->
                IF n <= m_ THEN f[n]
                ELSE IF s[n] \in S THEN Append(f[m_], s[n]) ELSE f[m_]]
             h == [n \in 0..m_ + 1 |->
                IF n = 0 THEN <<>>
                ELSE IF s[n] \in S THEN Append(g[n - 1], s[n]) ELSE g[n - 1]]
  <2>2. m_ \in Nat
    OBVIOUS
  <2> HIDE DEF T
  <2>3. ASSUME NEW n \in 0..m_ + 1 PROVE g[n] = h[n]
    <3>1. CASE n = 0
      BY <2>1, <2>2, <3>1 DEF Selects
    <3>2. CASE n # 0 /\ n <= m_
      <4>1. n \in 0..m_ /\ n - 1 \in 0..m_ /\ n - 1 \in 0..m_ + 1 /\ n - 1 <= m_
        BY <2>2, <3>2
      <4>2. f[n] = IF s[n] \in S THEN Append(f[n - 1], s[n]) ELSE f[n - 1]
        BY <2>1, <3>2, <4>1 DEF Selects
      <4>3. g[n] = f[n] /\ g[n - 1] = f[n - 1]
        BY <3>2, <4>1
      <4>4. h[n] = IF s[n] \in S THEN Append(g[n - 1], s[n]) ELSE g[n - 1]
        BY <3>2
      <4> QED BY <4>2, <4>3, <4>4
    <3>3. CASE n = m_ + 1
      <4>1. ~(n <= m_) /\ n # 0 /\ n - 1 = m_ /\ m_ \in 0..m_ + 1 /\ m_ <= m_
        BY <2>2, <3>3
      <4>2. g[n - 1] = f[m_]
        BY <4>1
      <4>3. g[n] = IF s[n] \in S THEN Append(f[m_], s[n]) ELSE f[m_]
        BY <4>1
      <4>4. h[n] = IF s[n] \in S THEN Append(g[n - 1], s[n]) ELSE g[n - 1]
        BY <4>1
      <4> QED BY <4>2, <4>3, <4>4
    <3> QED BY <2>2, <3>1, <3>2, <3>3
  <2>4. g = h
    <3> DEFINE E == 0..m_ + 1
    <3>1. g = [n \in E |-> g[n]] /\ h = [n \in E |-> h[n]] /\ DOMAIN g = E /\ DOMAIN h = E
      OBVIOUS
    <3> HIDE DEF g, h
    <3> QED BY <2>3, <3>1
  <2>5. Selects(g, s, S, m_ + 1)
    <3> HIDE DEF g
    <3> QED BY <2>4 DEF Selects
  <2> HIDE DEF g
  <2> QED BY <2>2, <2>5 DEF T
<1>3. T \in SUBSET Nat
  OBVIOUS
<1> HIDE DEF T
<1>4. T = Nat
  BY <1>1, <1>2, <1>3, Induction
<1> QED BY <1>4 DEF T

\* What Kept unfolds to.
LEMMA KeptSelects ==
    ASSUME NEW s, NEW S, Len(s) \in Nat
    PROVE  \E f : Selects(f, s, S, Len(s)) /\ Kept(s, S) = f[Len(s)]
<1> DEFINE k == CHOOSE f : Selects(f, s, S, Len(s))
<1>1. Selects(k, s, S, Len(s))
  BY SelectionExists
<1>2. Kept(s, S) = k[Len(s)]
  BY DEF Kept, Selects
<1> QED BY <1>1, <1>2

\* Two such functions agree, as far as their sequences do.
LEMMA SelectionsAgree ==
    ASSUME NEW s, NEW t, NEW S, NEW m \in Nat, NEW k \in Nat, NEW f, NEW g,
           Selects(f, s, S, m), Selects(g, t, S, k),
           \A n \in 1..m : n <= k => s[n] = t[n]
    PROVE  \A n \in 0..m : n <= k => f[n] = g[n]
<1> DEFINE T == {n \in Nat : n <= m /\ n <= k => f[n] = g[n]}
<1>1. 0 \in T
  BY DEF Selects
<1>2. ASSUME NEW n \in T PROVE n + 1 \in T
  <2>1. SUFFICES ASSUME n + 1 <= m, n + 1 <= k PROVE f[n + 1] = g[n + 1]
    OBVIOUS
  <2>2. n \in Nat /\ f[n] = g[n] /\ s[n + 1] = t[n + 1]
    BY <2>1
  <2>3. n + 1 \in 0..m /\ n + 1 \in 0..k /\ (n + 1) - 1 = n /\ n + 1 # 0
    BY <2>1, <2>2
  <2>4. f[n + 1] = IF s[n + 1] \in S THEN Append(f[n], s[n + 1]) ELSE f[n]
    BY <2>3 DEF Selects
  <2>5. g[n + 1] = IF t[n + 1] \in S THEN Append(g[n], t[n + 1]) ELSE g[n]
    BY <2>3 DEF Selects
  <2> QED BY <2>2, <2>4, <2>5
<1>3. T \in SUBSET Nat
  OBVIOUS
<1> HIDE DEF T
<1>4. T = Nat
  BY <1>1, <1>2, <1>3, Induction
<1> QED BY <1>4 DEF T

LEMMA KeptOfNone ==
    ASSUME NEW S
    PROVE  Kept(<<>>, S) = <<>>
<1>1. Len(<<>>) = 0
  OBVIOUS
<1>2. PICK f : Selects(f, <<>>, S, 0) /\ Kept(<<>>, S) = f[0]
  BY <1>1, KeptSelects
<1> QED BY <1>2 DEF Selects

\* One element more is appended, or left out.
LEMMA KeptOfAppend ==
    ASSUME NEW D, NEW s \in Seq(D), NEW e \in D, NEW S
    PROVE  Kept(Append(s, e), S) = IF e \in S THEN Append(Kept(s, S), e) ELSE Kept(s, S)
<1> DEFINE t == Append(s, e)
           m == Len(s)
<1>1. m \in Nat /\ Len(t) = m + 1 /\ t[m + 1] = e /\ \A n \in 1..m : t[n] = s[n]
  BY LenProperties, AppendProperties
<1> HIDE DEF t, m
<1>2. PICK f : Selects(f, s, S, m) /\ Kept(s, S) = f[m]
  BY <1>1, KeptSelects DEF m
<1>3. PICK g : Selects(g, t, S, m + 1) /\ Kept(t, S) = g[m + 1]
  BY <1>1, KeptSelects
<1>4. f[m] = g[m]
  <2>1. m + 1 \in Nat /\ m \in 0..m /\ m <= m + 1 /\ \A n \in 1..m : n <= m + 1 => s[n] = t[n]
    BY <1>1
  <2>2. \A n \in 0..m : n <= m + 1 => f[n] = g[n]
    BY <1>1, <1>2, <1>3, <2>1, SelectionsAgree
  <2> QED BY <2>1, <2>2
<1>5. g[m + 1] = IF e \in S THEN Append(g[m], e) ELSE g[m]
  <2>1. m + 1 \in 0..m + 1 /\ (m + 1) - 1 = m /\ m + 1 # 0
    BY <1>1
  <2> QED BY <1>1, <1>3, <2>1 DEF Selects
<1>6. Kept(t, S) = IF e \in S THEN Append(Kept(s, S), e) ELSE Kept(s, S)
  BY <1>2, <1>3, <1>4, <1>5
<1> QED BY <1>6 DEF t

LEMMA AppendOfConcat ==
    ASSUME NEW D, NEW s \in Seq(D), NEW u \in Seq(D), NEW e \in D
    PROVE  s \o Append(u, e) = Append(s \o u, e)
<1>1. <<e>> \in Seq(D) /\ s \o u \in Seq(D)
  BY ConcatProperties
<1>2. Append(u, e) = u \o <<e>> /\ Append(s \o u, e) = (s \o u) \o <<e>>
  BY <1>1, AppendIsConcat
<1> QED BY <1>1, <1>2, ConcatAssociative

LEMMA ToSetOfAppend ==
    ASSUME NEW D, NEW u \in Seq(D), NEW e \in D
    PROVE  ToSet(Append(u, e)) = ToSet(u) \cup {e}
<1> DEFINE v == Append(u, e)
           n == Len(u)
<1>1. n \in Nat /\ DOMAIN u = 1..n
  BY LenProperties
<1>2. v \in Seq(D) /\ Len(v) = n + 1 /\ v[n + 1] = e /\ \A i \in 1..n : v[i] = u[i]
  BY AppendProperties
<1>3. DOMAIN v = 1..n + 1
  BY <1>2, LenProperties
<1> HIDE DEF v, n
<1>4. ToSet(v) = ToSet(u) \cup {e}
  BY <1>1, <1>2, <1>3 DEF ToSet
<1> QED BY <1>4 DEF v

LEMMA KeptType ==
    ASSUME NEW D, NEW s \in Seq(D), NEW S
    PROVE  Kept(s, S) \in Seq(D) /\ ToSet(Kept(s, S)) = ToSet(s) \cap S
<1> DEFINE T == {t \in Seq(D) : Kept(t, S) \in Seq(D) /\ ToSet(Kept(t, S)) = ToSet(t) \cap S}
<1>1. <<>> \in T
  <2>1. ToSet(<<>>) = {}
    <3>1. DOMAIN <<>> = {}
      OBVIOUS
    <3> QED BY <3>1 DEF ToSet
  <2> QED BY <2>1, KeptOfNone, EmptySeq
<1>2. ASSUME NEW t \in T, NEW e \in D PROVE Append(t, e) \in T
  <2>1. t \in Seq(D) /\ Kept(t, S) \in Seq(D) /\ ToSet(Kept(t, S)) = ToSet(t) \cap S
    OBVIOUS
  <2>2. ASSUME NEW u \in Seq(D) PROVE ToSet(Append(u, e)) = ToSet(u) \cup {e}
    BY ToSetOfAppend
  <2>3. Append(t, e) \in Seq(D) /\ Append(Kept(t, S), e) \in Seq(D)
    BY <2>1, AppendProperties
  <2>4. Kept(Append(t, e), S) = IF e \in S THEN Append(Kept(t, S), e) ELSE Kept(t, S)
    BY <2>1, KeptOfAppend
  <2>5. ToSet(Append(t, e)) = ToSet(t) \cup {e}
        /\ ToSet(Append(Kept(t, S), e)) = ToSet(Kept(t, S)) \cup {e}
    BY <2>1, <2>2
  <2>6. ToSet(Kept(Append(t, e), S)) = ToSet(Append(t, e)) \cap S
    BY <2>1, <2>4, <2>5
  <2> QED BY <2>3, <2>4, <2>6
<1>3. T \in SUBSET Seq(D)
  OBVIOUS
<1> HIDE DEF T
<1>4. T = Seq(D)
  BY <1>1, <1>2, <1>3, SequenceInduction
<1> QED BY <1>4 DEF T

\* What is all in the set is kept as it is, and what is all outside is left out.
LEMMA KeptWhole ==
    ASSUME NEW D, NEW s \in Seq(D), NEW S, ToSet(s) \subseteq S
    PROVE  Kept(s, S) = s
<1> DEFINE T == {t \in Seq(D) : ToSet(t) \subseteq S => Kept(t, S) = t}
<1>1. <<>> \in T
  BY KeptOfNone, EmptySeq
<1>2. ASSUME NEW t \in T, NEW e \in D PROVE Append(t, e) \in T
  <2>1. ToSet(Append(t, e)) = ToSet(t) \cup {e} /\ Append(t, e) \in Seq(D)
    BY ToSetOfAppend, AppendProperties
  <2>2. Kept(Append(t, e), S) = IF e \in S THEN Append(Kept(t, S), e) ELSE Kept(t, S)
    BY KeptOfAppend
  <2> QED BY <2>1, <2>2
<1>3. T \in SUBSET Seq(D)
  OBVIOUS
<1> HIDE DEF T
<1>4. T = Seq(D)
  BY <1>1, <1>2, <1>3, SequenceInduction
<1> QED BY <1>4 DEF T

LEMMA KeptNothing ==
    ASSUME NEW D, NEW s \in Seq(D), NEW S, ToSet(s) \cap S = {}
    PROVE  Kept(s, S) = <<>>
<1> DEFINE T == {t \in Seq(D) : ToSet(t) \cap S = {} => Kept(t, S) = <<>>}
<1>1. <<>> \in T
  BY KeptOfNone, EmptySeq
<1>2. ASSUME NEW t \in T, NEW e \in D PROVE Append(t, e) \in T
  <2>1. ToSet(Append(t, e)) = ToSet(t) \cup {e} /\ Append(t, e) \in Seq(D)
    BY ToSetOfAppend, AppendProperties
  <2>2. Kept(Append(t, e), S) = IF e \in S THEN Append(Kept(t, S), e) ELSE Kept(t, S)
    BY KeptOfAppend
  <2> QED BY <2>1, <2>2
<1>3. T \in SUBSET Seq(D)
  OBVIOUS
<1> HIDE DEF T
<1>4. T = Seq(D)
  BY <1>1, <1>2, <1>3, SequenceInduction
<1> QED BY <1>4 DEF T

LEMMA KeptOfConcat ==
    ASSUME NEW D, NEW s \in Seq(D), NEW t \in Seq(D), NEW S
    PROVE  Kept(s \o t, S) = Kept(s, S) \o Kept(t, S)
<1> DEFINE T == {u \in Seq(D) : Kept(s \o u, S) = Kept(s, S) \o Kept(u, S)}
<1>1. Kept(s, S) \in Seq(D) /\ \A u \in Seq(D) : Kept(u, S) \in Seq(D)
  BY KeptType
<1>2. <<>> \in T
  BY <1>1, KeptOfNone, EmptySeq, ConcatEmptySeq
<1>3. ASSUME NEW u \in T, NEW e \in D PROVE Append(u, e) \in T
  <2>1. u \in Seq(D) /\ Kept(s \o u, S) = Kept(s, S) \o Kept(u, S)
    OBVIOUS
  <2>2. s \o Append(u, e) = Append(s \o u, e) /\ Append(u, e) \in Seq(D) /\ s \o u \in Seq(D)
    BY <2>1, AppendOfConcat, AppendProperties, ConcatProperties
  <2>3. Kept(Append(u, e), S) = IF e \in S THEN Append(Kept(u, S), e) ELSE Kept(u, S)
    BY <2>1, KeptOfAppend
  <2>4. Kept(Append(s \o u, e), S)
          = IF e \in S THEN Append(Kept(s \o u, S), e) ELSE Kept(s \o u, S)
    <3> DEFINE v == s \o u
    <3>1. v \in Seq(D)
      BY <2>2
    <3> HIDE DEF v
    <3>2. Kept(Append(v, e), S) = IF e \in S THEN Append(Kept(v, S), e) ELSE Kept(v, S)
      BY <3>1, KeptOfAppend
    <3> QED BY <3>2 DEF v
  <2>5. Kept(s, S) \o Append(Kept(u, S), e) = Append(Kept(s, S) \o Kept(u, S), e)
    BY <1>1, <2>1, AppendOfConcat
  <2>6. CASE e \in S
    <3>1. Kept(s \o Append(u, e), S) = Append(Kept(s, S) \o Kept(u, S), e)
      BY <2>1, <2>2, <2>4, <2>6
    <3>2. Kept(Append(u, e), S) = Append(Kept(u, S), e)
      BY <2>3, <2>6
    <3> QED BY <2>2, <2>5, <3>1, <3>2
  <2>7. CASE e \notin S
    BY <2>1, <2>2, <2>3, <2>4, <2>7
  <2> QED BY <2>6, <2>7
<1>4. T \in SUBSET Seq(D)
  OBVIOUS
<1> HIDE DEF T
<1>5. T = Seq(D)
  BY <1>2, <1>3, <1>4, SequenceInduction
<1> QED BY <1>5 DEF T

\* An element is kept in its place among those that are kept.
Places(s, S) == {i \in 1..Len(s) : s[i] \in S}
LEMMA KeptPlaces ==
    ASSUME NEW D, NEW s \in Seq(D), NEW S
    PROVE  /\ IsFiniteSet(Places(s, S))
           /\ Len(Kept(s, S)) = Cardinality(Places(s, S))
           /\ \A i \in Places(s, S) :
                LET n == Cardinality({j \in Places(s, S) : j <= i})
                IN  n \in 1..Cardinality(Places(s, S)) /\ Kept(s, S)[n] = s[i]
<1> DEFINE Rank(t, i) == Cardinality({j \in Places(t, S) : j <= i})
           Placed(t) == /\ IsFiniteSet(Places(t, S))
                        /\ Len(Kept(t, S)) = Cardinality(Places(t, S))
                        /\ \A i \in Places(t, S) :
                             /\ Rank(t, i) \in 1..Cardinality(Places(t, S))
                             /\ Kept(t, S)[Rank(t, i)] = t[i]
           T == {t \in Seq(D) : Placed(t)}
<1>1. <<>> \in T
  <2>1. Places(<<>>, S) = {}
    BY DEF Places
  <2> QED BY <2>1, KeptOfNone, EmptySeq, FS_EmptySet
<1>2. ASSUME NEW t \in T, NEW e \in D PROVE Append(t, e) \in T
  <2> DEFINE u == Append(t, e)
             n == Len(t)
             old == Places(t, S)
             new == Places(u, S)
  <2>1. t \in Seq(D) /\ Placed(t)
    OBVIOUS
  <2>2. /\ n \in Nat /\ u \in Seq(D) /\ Len(u) = n + 1
        /\ u[n + 1] = e /\ \A i \in 1..n : u[i] = t[i]
    BY <2>1, LenProperties, AppendProperties
  <2>3. Kept(t, S) \in Seq(D)
    BY <2>1, KeptType
  <2>4. Kept(u, S) = IF e \in S THEN Append(Kept(t, S), e) ELSE Kept(t, S)
    BY <2>1, KeptOfAppend
  <2>5. old \subseteq 1..n /\ new = IF e \in S THEN old \cup {n + 1} ELSE old
    <3> HIDE DEF u, n
    <3> QED BY <2>2 DEF Places, n
  <2>6. Cardinality(old) \in Nat
    BY <2>1, FS_CardinalityType
  <2> HIDE DEF u, n, T
  <2>7. ASSUME NEW i \in old
        PROVE  {j \in new : j <= i} = {j \in old : j <= i}
    BY <2>2, <2>5
  <2> SUFFICES Placed(u)
    BY <2>2 DEF T, u
  <2>8. ASSUME e \notin S PROVE Placed(u)
    <3>1. new = old /\ Kept(u, S) = Kept(t, S)
      BY <2>4, <2>5, <2>8
    <3>2. ASSUME NEW i \in old PROVE u[i] = t[i] /\ Rank(u, i) = Rank(t, i)
      BY <2>2, <2>5, <2>7
    <3> QED BY <2>1, <3>1, <3>2
  <2>9. ASSUME e \in S PROVE Placed(u)
    <3> DEFINE m == Cardinality(old)
               k == Kept(t, S)
    <3>1. new = old \cup {n + 1} /\ Kept(u, S) = Append(k, e) /\ n + 1 \notin old
      BY <2>2, <2>4, <2>5, <2>9
    <3>2. IsFiniteSet(new) /\ Cardinality(new) = m + 1
      BY <2>1, <3>1, FS_AddElement
    <3>3. Len(k) = m /\ k \in Seq(D) /\ m \in Nat
      BY <2>1, <2>3, <2>6
    <3>4. Len(Append(k, e)) = m + 1 /\ Append(k, e)[m + 1] = e
          /\ \A i \in 1..m : Append(k, e)[i] = k[i]
      BY <3>3, AppendProperties
    <3>5. ASSUME NEW i \in old
          PROVE  Rank(u, i) \in 1..m + 1 /\ Kept(u, S)[Rank(u, i)] = u[i]
      <4>1. Rank(u, i) = Rank(t, i) /\ u[i] = t[i]
        BY <2>2, <2>5, <2>7
      <4>2. Rank(t, i) \in 1..m /\ k[Rank(t, i)] = t[i]
        BY <2>1
      <4> HIDE DEF Rank, m, k
      <4> QED BY <3>1, <3>3, <3>4, <4>1, <4>2
    <3>6. Rank(u, n + 1) \in 1..m + 1 /\ Kept(u, S)[Rank(u, n + 1)] = u[n + 1]
      <4>1. {j \in new : j <= n + 1} = new
        BY <2>2, <2>5, <3>1
      <4>2. Rank(u, n + 1) = m + 1
        BY <3>2, <4>1
      <4> HIDE DEF Rank, m, k
      <4> QED BY <2>2, <3>1, <3>3, <3>4, <4>2
    <3>7. Len(Kept(u, S)) = Cardinality(new)
      BY <3>1, <3>2, <3>4
    <3>8. \A i \in new : Rank(u, i) \in 1..m + 1 /\ Kept(u, S)[Rank(u, i)] = u[i]
      <4> HIDE DEF Rank, m
      <4> QED BY <3>1, <3>5, <3>6
    <3> HIDE DEF Rank, m, k
    <3> QED BY <3>2, <3>7, <3>8
  <2> QED BY <2>8, <2>9
<1>3. T \in SUBSET Seq(D)
  OBVIOUS
<1> HIDE DEF T
<1>4. T = Seq(D)
  BY <1>1, <1>2, <1>3, SequenceInduction
<1> QED BY <1>4 DEF T

\* Nothing twice, and what is kept of it, or appended to it.
LEMMA InjectiveAppend ==
    ASSUME NEW D, NEW s \in Seq(D), NEW e \in D
    PROVE  IsInjective(Append(s, e)) <=> IsInjective(s) /\ e \notin ToSet(s)
<1> DEFINE v == Append(s, e)
           n == Len(s)
<1>1. n \in Nat /\ DOMAIN s = 1..n
  BY LenProperties
<1>2. v \in Seq(D) /\ Len(v) = n + 1 /\ v[n + 1] = e /\ \A i \in 1..n : v[i] = s[i]
  BY AppendProperties
<1>3. DOMAIN v = 1..n + 1
  BY <1>2, LenProperties
<1> HIDE DEF v, n
<1>4. IsInjective(v) <=> IsInjective(s) /\ e \notin ToSet(s)
  <2>1. ASSUME IsInjective(v) PROVE IsInjective(s) /\ e \notin ToSet(s)
    <3>1. \A i, j \in 1..n + 1 : v[i] = v[j] => i = j
      BY <1>3, <2>1 DEF IsInjective
    <3>2. \A i \in 1..n : i \in 1..n + 1 /\ i # n + 1
      BY <1>1
    <3>3. n + 1 \in 1..n + 1
      BY <1>1
    <3> QED BY <1>1, <1>2, <3>1, <3>2, <3>3 DEF IsInjective, ToSet
  <2>2. ASSUME IsInjective(s), e \notin ToSet(s) PROVE IsInjective(v)
    <3>1. \A i, j \in 1..n : s[i] = s[j] => i = j
      BY <1>1, <2>2 DEF IsInjective
    <3>2. \A i \in 1..n : s[i] # e
      BY <1>1, <2>2 DEF ToSet
    <3>3. \A i \in 1..n + 1 : i \in 1..n \/ i = n + 1
      BY <1>1
    <3> QED BY <1>2, <1>3, <3>1, <3>2, <3>3 DEF IsInjective
  <2> QED BY <2>1, <2>2
<1> QED BY <1>4 DEF v

LEMMA KeptInjective ==
    ASSUME NEW D, NEW s \in Seq(D), NEW S, IsInjective(s)
    PROVE  IsInjective(Kept(s, S))
<1> DEFINE T == {t \in Seq(D) : IsInjective(t) => IsInjective(Kept(t, S))}
<1>1. <<>> \in T
  BY KeptOfNone, EmptySeq
<1>2. ASSUME NEW t \in T, NEW e \in D PROVE Append(t, e) \in T
  <2>1. t \in Seq(D) /\ (IsInjective(t) => IsInjective(Kept(t, S)))
    OBVIOUS
  <2>2. Append(t, e) \in Seq(D)
    BY <2>1, AppendProperties
  <2>3. IsInjective(Append(t, e)) <=> IsInjective(t) /\ e \notin ToSet(t)
    BY <2>1, InjectiveAppend
  <2>4. Kept(Append(t, e), S) = IF e \in S THEN Append(Kept(t, S), e) ELSE Kept(t, S)
    BY <2>1, KeptOfAppend
  <2>5. Kept(t, S) \in Seq(D) /\ ToSet(Kept(t, S)) = ToSet(t) \cap S
    BY <2>1, KeptType
  <2>6. IsInjective(Append(Kept(t, S), e)) <=> IsInjective(Kept(t, S)) /\ e \notin ToSet(Kept(t, S))
    BY <2>5, InjectiveAppend
  <2>7. IsInjective(Append(t, e)) => IsInjective(Kept(Append(t, e), S))
    BY <2>1, <2>3, <2>4, <2>5, <2>6
  <2> QED BY <2>2, <2>7
<1>3. T \in SUBSET Seq(D)
  OBVIOUS
<1> HIDE DEF T
<1>4. T = Seq(D)
  BY <1>1, <1>2, <1>3, SequenceInduction
<1> QED BY <1>4 DEF T

-----------------------------------------------------------------------------
(* FlattenSeq.                                                              *)

\* f[n] is the first n sequences of ss, one after the other.
Flattens(f, ss, m) == f = [n \in 1..m |-> IF n = 1 THEN ss[n] ELSE f[n - 1] \o ss[n]]

LEMMA FlatteningExists ==
    ASSUME NEW ss, NEW m \in Nat
    PROVE  \E f : Flattens(f, ss, m)
<1> DEFINE T == {m_ \in Nat : \E f : Flattens(f, ss, m_)}
<1>1. 0 \in T
  <2> DEFINE f == [n \in 1..0 |-> <<>>]
  <2>1. Flattens(f, ss, 0)
    BY DEF Flattens
  <2> HIDE DEF f
  <2> QED BY <2>1
<1>2. ASSUME NEW m_ \in T PROVE m_ + 1 \in T
  <2>1. PICK f : Flattens(f, ss, m_)
    OBVIOUS
  <2> DEFINE E == 1..m_ + 1
             g == [n \in E |-> IF n <= m_ THEN f[n]
                               ELSE IF n = 1 THEN ss[n] ELSE f[m_] \o ss[n]]
             h == [n \in E |-> IF n = 1 THEN ss[n] ELSE g[n - 1] \o ss[n]]
  <2>2. m_ \in Nat
    OBVIOUS
  <2> HIDE DEF T
  <2>3. ASSUME NEW n \in E PROVE g[n] = h[n]
    <3>1. CASE n <= m_
      <4>1. n \in 1..m_ /\ (n # 1 => n - 1 \in 1..m_ /\ n - 1 \in E /\ n - 1 <= m_)
        BY <2>2, <3>1
      <4>2. f[n] = IF n = 1 THEN ss[n] ELSE f[n - 1] \o ss[n]
        BY <2>1, <4>1 DEF Flattens
      <4>3. g[n] = f[n] /\ (n # 1 => g[n - 1] = f[n - 1])
        BY <3>1, <4>1
      <4>4. h[n] = IF n = 1 THEN ss[n] ELSE g[n - 1] \o ss[n]
        OBVIOUS
      <4> QED BY <4>2, <4>3, <4>4
    <3>2. CASE n = m_ + 1
      <4>1. ~(n <= m_) /\ n - 1 = m_ /\ (n # 1 => m_ \in E /\ m_ <= m_)
        BY <2>2, <3>2
      <4>2. n # 1 => g[n - 1] = f[m_]
        BY <4>1
      <4>3. g[n] = IF n = 1 THEN ss[n] ELSE f[m_] \o ss[n]
        BY <4>1
      <4>4. h[n] = IF n = 1 THEN ss[n] ELSE g[n - 1] \o ss[n]
        OBVIOUS
      <4> QED BY <4>2, <4>3, <4>4
    <3> QED BY <2>2, <3>1, <3>2
  <2>4. g = h
    <3>1. g = [n \in E |-> g[n]] /\ h = [n \in E |-> h[n]] /\ DOMAIN g = E /\ DOMAIN h = E
      OBVIOUS
    <3> HIDE DEF g, h, E
    <3> QED BY <2>3, <3>1
  <2>5. Flattens(g, ss, m_ + 1)
    <3> HIDE DEF g
    <3> QED BY <2>4 DEF Flattens
  <2> HIDE DEF g
  <2> QED BY <2>2, <2>5 DEF T
<1>3. T \in SUBSET Nat
  OBVIOUS
<1> HIDE DEF T
<1>4. T = Nat
  BY <1>1, <1>2, <1>3, Induction
<1> QED BY <1>4 DEF T

LEMMA FlattenSeqFlattens ==
    ASSUME NEW ss, Len(ss) \in Nat \ {0}
    PROVE  \E f : Flattens(f, ss, Len(ss)) /\ FlattenSeq(ss) = f[Len(ss)]
<1> DEFINE k == CHOOSE f : Flattens(f, ss, Len(ss))
<1>1. Flattens(k, ss, Len(ss))
  BY FlatteningExists
<1>2. FlattenSeq(ss) = k[Len(ss)]
  BY DEF FlattenSeq, Flattens
<1> QED BY <1>1, <1>2

LEMMA FlatteningsAgree ==
    ASSUME NEW ss, NEW tt, NEW m \in Nat, NEW k \in Nat, NEW f, NEW g,
           Flattens(f, ss, m), Flattens(g, tt, k),
           m # 0, m <= k, \A n \in 1..m : ss[n] = tt[n]
    PROVE  f[m] = g[m]
<1> DEFINE T == {n \in Nat : n # 0 /\ n <= m => f[n] = g[n]}
<1>1. 0 \in T
  OBVIOUS
<1>2. ASSUME NEW n \in T PROVE n + 1 \in T
  <2>1. SUFFICES ASSUME n + 1 <= m PROVE f[n + 1] = g[n + 1]
    OBVIOUS
  <2>2. n \in Nat /\ (n # 0 => f[n] = g[n]) /\ ss[n + 1] = tt[n + 1]
    BY <2>1
  <2>3. n + 1 \in 1..m /\ n + 1 \in 1..k /\ (n + 1) - 1 = n /\ (n # 0 <=> n + 1 # 1)
    BY <2>1, <2>2
  <2>4. f[n + 1] = IF n + 1 = 1 THEN ss[n + 1] ELSE f[n] \o ss[n + 1]
    BY <2>3 DEF Flattens
  <2>5. g[n + 1] = IF n + 1 = 1 THEN tt[n + 1] ELSE g[n] \o tt[n + 1]
    BY <2>3 DEF Flattens
  <2> QED BY <2>2, <2>3, <2>4, <2>5
<1>3. T \in SUBSET Nat
  OBVIOUS
<1> HIDE DEF T
<1>4. T = Nat
  BY <1>1, <1>2, <1>3, Induction
<1> QED BY <1>4 DEF T

LEMMA FlattenNone == FlattenSeq(<<>>) = <<>>
<1>1. Len(<<>>) = 0
  OBVIOUS
<1> QED BY <1>1 DEF FlattenSeq

LEMMA FlattenAppend ==
    ASSUME NEW D, NEW ss \in Seq(Seq(D)), NEW s \in Seq(D)
    PROVE  FlattenSeq(Append(ss, s)) = FlattenSeq(ss) \o s
<1> DEFINE tt == Append(ss, s)
           m == Len(ss)
<1>1. m \in Nat /\ tt \in Seq(Seq(D)) /\ Len(tt) = m + 1 /\ tt[m + 1] = s
      /\ \A n \in 1..m : tt[n] = ss[n]
  BY LenProperties, AppendProperties
<1>2. (m = 0) => ss = <<>>
  BY EmptySeq
<1> HIDE DEF tt, m
<1>3. PICK g : Flattens(g, tt, m + 1) /\ FlattenSeq(tt) = g[m + 1]
  BY <1>1, FlattenSeqFlattens
<1>4. g[m + 1] = IF m + 1 = 1 THEN tt[m + 1] ELSE g[m] \o tt[m + 1]
  <2>1. m + 1 \in 1..m + 1 /\ (m + 1) - 1 = m
    BY <1>1
  <2> QED BY <1>3, <2>1 DEF Flattens
<1>5. CASE m = 0
  <2>1. FlattenSeq(tt) = s
    BY <1>1, <1>3, <1>4, <1>5
  <2>2. FlattenSeq(ss) \o s = s
    BY <1>2, <1>5, FlattenNone, ConcatEmptySeq
  <2> QED BY <2>1, <2>2 DEF tt
<1>6. CASE m # 0
  <2>1. PICK f : Flattens(f, ss, m) /\ FlattenSeq(ss) = f[m]
    BY <1>1, <1>6, FlattenSeqFlattens DEF m
  <2>2. m + 1 \in Nat /\ m <= m + 1 /\ m + 1 # 1 /\ \A n \in 1..m : ss[n] = tt[n]
    BY <1>1, <1>6
  <2>3. f[m] = g[m]
    BY <1>1, <1>3, <1>6, <2>1, <2>2, FlatteningsAgree
  <2>4. FlattenSeq(tt) = FlattenSeq(ss) \o s
    BY <1>1, <1>3, <1>4, <2>1, <2>2, <2>3
  <2> QED BY <2>4 DEF tt
<1> QED BY <1>5, <1>6

LEMMA FlattenType ==
    ASSUME NEW D, NEW ss \in Seq(Seq(D))
    PROVE  FlattenSeq(ss) \in Seq(D)
<1> DEFINE T == {tt \in Seq(Seq(D)) : FlattenSeq(tt) \in Seq(D)}
<1>1. <<>> \in T
  BY FlattenNone, EmptySeq
<1>2. ASSUME NEW tt \in T, NEW s \in Seq(D) PROVE Append(tt, s) \in T
  <2>1. Append(tt, s) \in Seq(Seq(D))
    BY AppendProperties
  <2>2. FlattenSeq(Append(tt, s)) = FlattenSeq(tt) \o s
    BY FlattenAppend
  <2> QED BY <2>1, <2>2, ConcatProperties
<1>3. T \in SUBSET Seq(Seq(D))
  OBVIOUS
<1> HIDE DEF T
<1>4. T = Seq(Seq(D))
  BY <1>1, <1>2, <1>3, SequenceInduction
<1> QED BY <1>4 DEF T
=============================================================================
