----------------------------- MODULE FoldLemmas -----------------------------
(***************************************************************************)
(* What a fold over a sequence is, for every operator.  The operator is a  *)
(* constant of this module; the modules that reason about a fold of the    *)
(* model INSTANCE it with the operator folded there.  Op has a parameter p *)
(* of its own, for what a LAMBDA in the model takes from its context.      *)
(***************************************************************************)
EXTENDS Integers, SequencesExt, SequenceTheorems, FiniteSetTheorems, WellFoundedInduction, TLAPS

CONSTANT Op(_, _, _)

Fold(p, b, s) == FoldLeft(LAMBDA x, y : Op(p, x, y), b, s)

-----------------------------------------------------------------------------
(* Induction over the natural numbers, on the set of those that are right   *)

\* A set of natural numbers has a least element.
LEMMA Least ==
    ASSUME NEW S \in SUBSET Nat, S # {}
    PROVE  \E m \in S : \A k \in S : m <= k
<1> DEFINE T == {1..k : k \in S}
<1>1. T \subseteq FiniteSubsetsOf(Nat) /\ T # {}
  <2>1. ASSUME NEW t \in T PROVE t \in FiniteSubsetsOf(Nat)
    <3>1. PICK k \in S : t = 1..k
      OBVIOUS
    <3>2. IsFiniteSet(1..k) /\ 1..k \subseteq Nat
      BY FS_Interval
    <3> QED BY <3>1, <3>2 DEF FiniteSubsetsOf
  <2>2. T # {}
    OBVIOUS
  <2> QED BY <2>1, <2>2
<1>2. IsWellFoundedOn(StrictSubsetOrdering(Nat), FiniteSubsetsOf(Nat))
  BY FS_StrictSubsetOrderingWellFounded
<1>3. PICK x \in T : \A y \in T : ~(<<y, x>> \in StrictSubsetOrdering(Nat))
  <2> HIDE DEF T
  <2> QED BY <1>1, <1>2, WFMin
<1>4. PICK m \in S : x = 1..m
  OBVIOUS
<1>5. ASSUME NEW k \in S PROVE m <= k
  <2>1. SUFFICES ASSUME k < m PROVE FALSE
    OBVIOUS
  <2>2. 1..k \subseteq 1..m /\ m \in 1..m /\ m \notin 1..k
    BY <2>1
  <2>3. 1..k \subseteq Nat /\ 1..m \subseteq Nat
    OBVIOUS
  <2>4. <<1..k, 1..m>> \in StrictSubsetOrdering(Nat)
    BY <2>2, <2>3 DEF StrictSubsetOrdering
  <2> QED BY <1>3, <1>4, <2>4
<1> QED BY <1>5

\* A set of natural numbers that contains 0 and, with every element, the
\* next is all of them.
LEMMA Induction ==
    ASSUME NEW S \in SUBSET Nat, 0 \in S, \A n \in S : n + 1 \in S
    PROVE  S = Nat
<1>1. SUFFICES ASSUME Nat \ S # {} PROVE FALSE
  OBVIOUS
<1>2. PICK m \in Nat \ S : \A k \in Nat \ S : m <= k
  BY <1>1, Least
<1> QED BY <1>2, m # 0, m - 1 \in Nat, m - 1 \in S

\* A set of sequences that contains the empty one and, with every sequence,
\* those with one more element is all of them.
LEMMA SeqInduction ==
    ASSUME NEW T, NEW S \in SUBSET Seq(T), << >> \in S,
           \A s \in S : \A e \in T : Append(s, e) \in S
    PROVE  S = Seq(T)
<1> DEFINE G == {n \in Nat : \A s \in Seq(T) : Len(s) = n => s \in S}
<1>1. 0 \in G
  <2>1. \A s \in Seq(T) : Len(s) = 0 => s = << >>
    BY EmptySeq
  <2> QED BY <2>1
<1>2. ASSUME NEW n \in G PROVE n + 1 \in G
  <2>1. n \in Nat
    OBVIOUS
  <2>2. ASSUME NEW s \in Seq(T), Len(s) = n + 1 PROVE s \in S
    <3>1. s # << >>
      BY <2>1, <2>2
    <3>2. PICK r \in Seq(T), e \in T : s = Append(r, e)
      BY <3>1, SequenceEmptyOrAppend
    <3>3. Len(r) = n
      BY <2>1, <2>2, <3>2, AppendProperties
    <3>4. r \in S
      BY <3>3
    <3> QED BY <3>2, <3>4
  <2> QED BY <2>1, <2>2
<1>3. G \in SUBSET Nat
  OBVIOUS
<1> HIDE DEF G
<1>4. G = Nat
  BY <1>1, <1>2, <1>3, Induction
<1>5. ASSUME NEW s \in Seq(T) PROVE s \in S
  <2>1. Len(s) \in G
    BY <1>4
  <2> QED BY <2>1 DEF G
<1> QED BY <1>5

\* The largest element of a set of indices.
LEMMA MaxIndex ==
    ASSUME NEW n \in Nat, NEW t \in SUBSET (1..n), t # {}
    PROVE  Max(t) \in t /\ \A y \in t : Max(t) >= y
<1> DEFINE R == {n - x : x \in t}
<1>1. R \in SUBSET Nat /\ R # {}
  <2>1. ASSUME NEW x \in t PROVE n - x \in Nat
    <3>1. x \in 1..n
      OBVIOUS
    <3> QED BY <3>1
  <2>2. R \subseteq Nat
    BY <2>1
  <2> QED BY <2>2
<1>2. PICK m \in R : \A k \in R : m <= k
  <2> HIDE DEF R
  <2> QED BY <1>1, Least
<1>3. PICK x \in t : m = n - x
  OBVIOUS
<1>4. ASSUME NEW y \in t PROVE x >= y
  <2>1. n - y \in R
    OBVIOUS
  <2>4. m <= n - y
    <3> HIDE DEF R
    <3> QED BY <1>2, <2>1
  <2>2. x \in 1..n /\ y \in 1..n
    OBVIOUS
  <2> QED BY <1>3, <2>2, <2>4
<1> HIDE DEF R
<1> QED BY <1>4 DEF Max

\* An initial segment of the indices, kept from being expanded.
Initial(n) == 1..n

\* Initial segments as sets, and their largest elements.
LEMMA InitialStep ==
    ASSUME NEW k \in Nat
    PROVE  /\ k + 1 \in Initial(k + 1)
           /\ Max(Initial(k + 1)) = k + 1
           /\ Initial(k + 1) \ {k + 1} = Initial(k)
<1>1. Max(1..(k + 1)) \in 1..(k + 1) /\ \A y \in 1..(k + 1) : Max(1..(k + 1)) >= y
  <2>1. k + 1 \in Nat /\ 1..(k + 1) \in SUBSET (1..(k + 1)) /\ 1..(k + 1) # {}
    OBVIOUS
  <2> QED BY <2>1, MaxIndex
<1>2. k + 1 \in 1..(k + 1)
  OBVIOUS
<1>3. Max(1..(k + 1)) = k + 1
  <2>1. Max(1..(k + 1)) >= k + 1
    BY <1>1, <1>2
  <2> QED BY <1>1, <2>1
<1>4. (1..(k + 1)) \ {k + 1} = 1..k
  OBVIOUS
<1> QED BY <1>2, <1>3, <1>4 DEF Initial

LEMMA InitialSubset ==
    ASSUME NEW k \in Nat, NEW n \in Nat, k <= n
    PROVE  Initial(k) \subseteq Initial(n)
BY DEF Initial

LEMMA InitialEmpty == Initial(0) = {}
BY DEF Initial

-----------------------------------------------------------------------------
(* The function that MapThenFoldSet chooses *)

\* h is that function over the subsets of D.
Iterates(p, b, s, D, h) ==
    h = [t \in SUBSET D |-> IF t = {} THEN b ELSE Op(p, h[t \ {Max(t)}], s[Max(t)])]

\* Its value on the empty set, and one step of it.
LEMMA IteratesEmpty ==
    ASSUME NEW p, NEW b, NEW s, NEW D, NEW h, Iterates(p, b, s, D, h)
    PROVE  h[{}] = b
<1>1. {} \in SUBSET D
  OBVIOUS
<1> QED BY <1>1 DEF Iterates

LEMMA IteratesStep ==
    ASSUME NEW p, NEW b, NEW s, NEW D, NEW h, Iterates(p, b, s, D, h),
           NEW t, t \subseteq D, NEW m, m \in t, m = Max(t), NEW r, r = t \ {m}
    PROVE  h[t] = Op(p, h[r], s[m])
<1>1. t \in SUBSET D /\ t # {}
  OBVIOUS
<1> QED BY <1>1 DEF Iterates

\* One step of it on initial segments.
LEMMA IteratesInitial ==
    ASSUME NEW p, NEW b, NEW s, NEW n \in Nat, NEW h, Iterates(p, b, s, Initial(n), h),
           NEW k \in Nat, k + 1 <= n
    PROVE  h[Initial(k + 1)] = Op(p, h[Initial(k)], s[k + 1])
<1>1. Initial(k + 1) \subseteq Initial(n)
  BY InitialSubset
<1>2. PICK t : t = Initial(k + 1)
  OBVIOUS
<1>3. PICK r : r = Initial(k)
  OBVIOUS
<1>4. PICK m : m = k + 1
  OBVIOUS
<1>5. m \in t /\ m = Max(t) /\ r = t \ {m}
  BY <1>2, <1>3, <1>4, InitialStep
<1>6. h[t] = Op(p, h[r], s[m])
  BY <1>1, <1>2, <1>5, IteratesStep
<1> QED BY <1>2, <1>3, <1>4, <1>6

\* There is such a function.
LEMMA IteratesExist ==
    ASSUME NEW p, NEW b, NEW s, NEW n \in Nat
    PROVE  \E h : Iterates(p, b, s, Initial(n), h)
<1> DEFINE G == {k \in Nat : \E h : Iterates(p, b, s, Initial(k), h)}
<1>1. 0 \in G
  <2>1. PICK D : D = Initial(0)
    OBVIOUS
  <2> DEFINE h == [t \in SUBSET D |-> b]
  <2>2. \A t \in SUBSET D : t = {}
    BY <2>1, InitialEmpty
  <2>3. Iterates(p, b, s, D, h)
    BY <2>2 DEF Iterates
  <2> QED BY <2>1, <2>3
<1>2. ASSUME NEW k \in G PROVE k + 1 \in G
  <2>1. k \in Nat
    OBVIOUS
  <2>2. PICK D : D = Initial(k)
    OBVIOUS
  <2>3. PICK E : E = Initial(k + 1)
    OBVIOUS
  <2>4. PICK g : Iterates(p, b, s, D, g)
    BY <2>2
  <2> DEFINE h == [t \in SUBSET E |->
                      IF t \subseteq D THEN g[t] ELSE Op(p, g[t \ {k + 1}], s[k + 1])]
  <2>5. ASSUME NEW t \in SUBSET E
        PROVE  h[t] = IF t = {} THEN b ELSE Op(p, h[t \ {Max(t)}], s[Max(t)])
    <3>1. CASE t \subseteq D
      <4>1. h[t] = g[t]
        BY <3>1
      <4>2. g[t] = IF t = {} THEN b ELSE Op(p, g[t \ {Max(t)}], s[Max(t)])
        BY <2>4, <3>1 DEF Iterates
      <4>3. ASSUME t # {} PROVE h[t \ {Max(t)}] = g[t \ {Max(t)}]
        BY <3>1
      <4> QED BY <4>1, <4>2, <4>3
    <3>2. CASE ~(t \subseteq D)
      <4>1. k + 1 \in t /\ t # {}
        BY <2>1, <2>2, <2>3, <3>2, InitialStep
      <4>2. Max(t) = k + 1
        <5>1. t \in SUBSET (1..(k + 1)) /\ k + 1 \in Nat
          BY <2>1, <2>3 DEF Initial
        <5>2. Max(t) \in t /\ \A y \in t : Max(t) >= y
          BY <4>1, <5>1, MaxIndex
        <5>3. Max(t) \in 1..(k + 1) /\ Max(t) >= k + 1
          BY <4>1, <5>1, <5>2
        <5> QED BY <2>1, <5>3
      <4>3. t \ {k + 1} \subseteq D
        BY <2>1, <2>2, <2>3, InitialStep
      <4>4. h[t] = Op(p, g[t \ {k + 1}], s[k + 1])
        BY <3>2
      <4>5. h[t \ {k + 1}] = g[t \ {k + 1}]
        BY <4>3
      <4> QED BY <4>1, <4>2, <4>4, <4>5
    <3> QED BY <3>1, <3>2
  <2>6. Iterates(p, b, s, E, h)
    <3>1. h = [t \in SUBSET E |-> h[t]]
      OBVIOUS
    <3> HIDE DEF h
    <3> QED BY <2>5, <3>1 DEF Iterates
  <2> HIDE DEF h
  <2> QED BY <2>1, <2>3, <2>6
<1>3. G \in SUBSET Nat
  OBVIOUS
<1> HIDE DEF G
<1>4. n \in G
  BY <1>1, <1>2, <1>3, Induction
<1> QED BY <1>4 DEF G

\* Its value on an initial segment depends on that part of the sequence only.
LEMMA IteratesPrefix ==
    ASSUME NEW p, NEW b, NEW s1, NEW s2, NEW n1 \in Nat, NEW n2 \in Nat, NEW h1, NEW h2,
           Iterates(p, b, s1, Initial(n1), h1), Iterates(p, b, s2, Initial(n2), h2),
           NEW k \in Nat, k <= n1, k <= n2, \A i \in 1..k : s1[i] = s2[i]
    PROVE  h1[Initial(k)] = h2[Initial(k)]
<1> DEFINE G == {j \in Nat : j <= k => h1[Initial(j)] = h2[Initial(j)]}
<1>1. 0 \in G
  <2>1. h1[{}] = b /\ h2[{}] = b
    BY IteratesEmpty
  <2> QED BY <2>1, InitialEmpty
<1>2. ASSUME NEW j \in G PROVE j + 1 \in G
  <2>1. j \in Nat
    OBVIOUS
  <2>2. SUFFICES ASSUME j + 1 <= k PROVE h1[Initial(j + 1)] = h2[Initial(j + 1)]
    BY <2>1
  <2>3. h1[Initial(j)] = h2[Initial(j)]
    BY <2>1, <2>2
  <2>4. j + 1 <= n1 /\ j + 1 <= n2 /\ j + 1 \in 1..k
    BY <2>1, <2>2
  <2>5. h1[Initial(j + 1)] = Op(p, h1[Initial(j)], s1[j + 1])
    BY <2>1, <2>4, IteratesInitial
  <2>6. h2[Initial(j + 1)] = Op(p, h2[Initial(j)], s2[j + 1])
    BY <2>1, <2>4, IteratesInitial
  <2>7. s1[j + 1] = s2[j + 1]
    BY <2>4
  <2> QED BY <2>3, <2>5, <2>6, <2>7
<1>3. G \in SUBSET Nat
  OBVIOUS
<1> HIDE DEF G
<1>4. k \in G
  BY <1>1, <1>2, <1>3, Induction
<1> QED BY <1>4 DEF G

\* A fold is the value of that function on all indices.
LEMMA FoldIterates ==
    ASSUME NEW p, NEW b, NEW s, NEW n \in Nat, DOMAIN s = Initial(n)
    PROVE  \E h : Iterates(p, b, s, Initial(n), h) /\ Fold(p, b, s) = h[Initial(n)]
<1> DEFINE H == CHOOSE h : Iterates(p, b, s, Initial(n), h)
<1>1. Iterates(p, b, s, Initial(n), H)
  BY IteratesExist
<1>2. Fold(p, b, s) = H[Initial(n)]
  BY DEF Fold, FoldLeft, MapThenFoldSet, Iterates
<1> QED BY <1>1, <1>2

\* A fold over nothing.
LEMMA FoldEmpty ==
    \A p, b : Fold(p, b, << >>) = b
<1> SUFFICES ASSUME NEW p, NEW b PROVE Fold(p, b, << >>) = b
  OBVIOUS
<1>1. DOMAIN << >> = Initial(0)
  BY DEF Initial
<1>2. PICK h : Iterates(p, b, << >>, Initial(0), h) /\ Fold(p, b, << >>) = h[Initial(0)]
  BY <1>1, FoldIterates
<1>3. h[{}] = b
  BY <1>2, IteratesEmpty
<1> QED BY <1>2, <1>3, InitialEmpty

\* A fold over a sequence with one more element.
LEMMA FoldAppend ==
    \A p, b, S : \A s \in Seq(S), e \in S :
        Fold(p, b, Append(s, e)) = Op(p, Fold(p, b, s), e)
<1> SUFFICES ASSUME NEW p, NEW b, NEW S, NEW s \in Seq(S), NEW e \in S
             PROVE  Fold(p, b, Append(s, e)) = Op(p, Fold(p, b, s), e)
  OBVIOUS
<1>1. PICK n : n = Len(s)
  OBVIOUS
<1>2. PICK t : t = Append(s, e)
  OBVIOUS
<1>3. n \in Nat /\ n + 1 \in Nat /\ n <= n + 1 /\ n <= n
  BY <1>1
<1>4. DOMAIN s = Initial(n) /\ DOMAIN t = Initial(n + 1)
  BY <1>1, <1>2 DEF Initial
<1>5. t[n + 1] = e /\ \A i \in 1..n : t[i] = s[i]
  BY <1>1, <1>2
<1>6. PICK g : Iterates(p, b, s, Initial(n), g) /\ Fold(p, b, s) = g[Initial(n)]
  BY <1>3, <1>4, FoldIterates
<1>7. PICK m : m = n + 1
  OBVIOUS
<1>8. PICK h : Iterates(p, b, t, Initial(m), h) /\ Fold(p, b, t) = h[Initial(m)]
  <2>1. m \in Nat /\ DOMAIN t = Initial(m)
    BY <1>3, <1>4, <1>7
  <2> QED BY <2>1, FoldIterates
<1>9. h[Initial(n)] = g[Initial(n)]
  <2>1. n \in Nat /\ m \in Nat /\ n <= m /\ n <= n
    BY <1>3, <1>7
  <2>2. \A i \in 1..n : t[i] = s[i]
    BY <1>5
  <2>3. Iterates(p, b, t, Initial(m), h) /\ Iterates(p, b, s, Initial(n), g)
    BY <1>6, <1>8
  <2> HIDE <1>1
  <2> QED BY <2>1, <2>2, <2>3, IteratesPrefix
<1>10. h[Initial(n + 1)] = Op(p, h[Initial(n)], t[n + 1])
  <2>1. m \in Nat /\ n + 1 <= m
    BY <1>3, <1>7
  <2> QED BY <1>3, <1>8, <2>1, IteratesInitial
<1> QED BY <1>2, <1>5, <1>6, <1>7, <1>8, <1>9, <1>10
=============================================================================
