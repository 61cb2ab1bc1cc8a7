------------------------- MODULE InternalDocProofs -------------------------
(***************************************************************************)
(* The ranges and the cursors of InternalDoc, for a file of any length,    *)
(* any number of sites, ops of any length and any difference with the file *)
(* on disk: the ranges stay coalesced, every cached cursor stays exact and *)
(* no assertion of the code fails.                                         *)
(*                                                                         *)
(* The invariant (IInv) is that the ranges alternate and every cursor is   *)
(* where its range begins.  Most of the proof is about where a range begins*)
(* (Start) after the ranges before it were made longer, split or replaced. *)
(***************************************************************************)
EXTENDS DiskReset, SequenceTheorems, FiniteSetTheorems, TLAPS

\* A range, and a cursor's record.
Rng == [live : BOOLEAN, len : Nat \ {0}]

LenFold == INSTANCE FoldLemmas WITH Op <- LAMBDA p, x, y : x + Extent(y, p)

-----------------------------------------------------------------------------
(* Where a range begins *)

LEMMA ExtentIs ==
    ASSUME NEW r \in Rng
    PROVE  /\ \A e : Extent(r, e) \in Nat /\ Extent(r, e) <= r.len
           /\ Extent(r, FALSE) = r.len /\ Extent(r, TRUE) = IF r.live THEN r.len ELSE 0
           /\ r.len \in Nat /\ r.len > 0 /\ r.live \in BOOLEAN
BY DEF Extent, Rng

LEMMA ExtentsFold ==
    ASSUME NEW rs, NEW e
    PROVE  Extents(rs, e) = LenFold!Fold(e, 0, rs)
BY DEF Extents, LenFold!Fold, FoldLeft, MapThenFoldSet, LenFold!FoldLeft,
   LenFold!MapThenFoldSet, Max, LenFold!Max

LEMMA ExtentsEmpty ==
    ASSUME NEW e
    PROVE  Extents(<< >>, e) = 0
<1>1. PICK s : s = << >>
  OBVIOUS
<1>2. LenFold!Fold(e, 0, s) = 0
  BY <1>1, LenFold!FoldEmpty
<1> QED BY <1>1, <1>2, ExtentsFold

LEMMA ExtentsAppend ==
    ASSUME NEW rs \in Seq(Rng), NEW r \in Rng, NEW e
    PROVE  Extents(Append(rs, r), e) = Extents(rs, e) + Extent(r, e)
<1>1. LenFold!Fold(e, 0, Append(rs, r)) = LenFold!Fold(e, 0, rs) + Extent(r, e)
  BY LenFold!FoldAppend
<1> QED BY <1>1, ExtentsFold

LEMMA ExtentsType ==
    ASSUME NEW rs \in Seq(Rng), NEW e
    PROVE  Extents(rs, e) \in Nat
<1> DEFINE G == {s \in Seq(Rng) : Extents(s, e) \in Nat}
<1>1. << >> \in G
  BY ExtentsEmpty, EmptySeq
<1>2. ASSUME NEW s \in G, NEW r \in Rng PROVE Append(s, r) \in G
  <2>1. s \in Seq(Rng) /\ Append(s, r) \in Seq(Rng) /\ Extents(s, e) \in Nat
    OBVIOUS
  <2>2. Extents(Append(s, r), e) = Extents(s, e) + Extent(r, e)
    BY <2>1, ExtentsAppend
  <2>3. Extent(r, e) \in Nat
    BY ExtentIs
  <2> QED BY <2>1, <2>2, <2>3
<1>3. G \in SUBSET Seq(Rng)
  OBVIOUS
<1> HIDE DEF G
<1>4. rs \in G
  BY <1>1, <1>2, <1>3, LenFold!SeqInduction
<1> QED BY <1>4 DEF G

\* The first elements of a sequence, and one more.
LEMMA PrefixNext ==
    ASSUME NEW T, NEW rs \in Seq(T), NEW n \in 0..Len(rs)
    PROVE  /\ SubSeq(rs, 1, n) \in Seq(T) /\ Len(SubSeq(rs, 1, n)) = n
           /\ \A k \in 1..n : SubSeq(rs, 1, n)[k] = rs[k]
           /\ n < Len(rs) => SubSeq(rs, 1, n + 1) = Append(SubSeq(rs, 1, n), rs[n + 1])
<1>1. PICK l : l = Len(rs) /\ l \in Nat /\ n \in Nat /\ n <= l
  OBVIOUS
<1>2. \A k \in 1..l : rs[k] \in T
  BY <1>1
<1>3. \A m \in 0..l : \A k \in 1..m : rs[k] \in T
  BY <1>1, <1>2
<1>4. \A m \in 0..l : /\ SubSeq(rs, 1, m) \in Seq(T) /\ Len(SubSeq(rs, 1, m)) = m
                      /\ \A k \in 1..m : SubSeq(rs, 1, m)[k] = rs[k]
  <2> SUFFICES ASSUME NEW m \in 0..l
               PROVE  /\ SubSeq(rs, 1, m) \in Seq(T) /\ Len(SubSeq(rs, 1, m)) = m
                      /\ \A k \in 1..m : SubSeq(rs, 1, m)[k] = rs[k]
    OBVIOUS
  <2>1. m \in Int /\ 1 \in Int /\ \A k \in 1..m : rs[k] \in T
    BY <1>1, <1>3
  <2>2. /\ SubSeq(rs, 1, m) \in Seq(T)
        /\ Len(SubSeq(rs, 1, m)) = IF 1 <= m THEN m - 1 + 1 ELSE 0
        /\ \A k \in 1..(m - 1 + 1) : SubSeq(rs, 1, m)[k] = rs[1 + k - 1]
    BY <2>1, SubSeqProperties
  <2> QED BY <1>1, <2>2
<1>5. ASSUME n < l PROVE SubSeq(rs, 1, n + 1) = Append(SubSeq(rs, 1, n), rs[n + 1])
  <2>1. PICK m : m = n + 1
    OBVIOUS
  <2>2. m \in 0..l /\ m \in 1..l /\ n \in 0..l /\ m \in 1..m
    BY <1>1, <1>5, <2>1
  <2>3. PICK a, b, c : a = SubSeq(rs, 1, n) /\ c = SubSeq(rs, 1, m) /\ b = Append(a, rs[m])
    OBVIOUS
  <2>4. a \in Seq(T) /\ Len(a) = n /\ \A k \in 1..n : a[k] = rs[k]
    BY <1>4, <2>2, <2>3
  <2>5. c \in Seq(T) /\ Len(c) = m /\ \A k \in 1..m : c[k] = rs[k]
    BY <1>4, <2>2, <2>3
  <2>6. rs[m] \in T
    BY <1>2, <2>2
  <2>7. b \in Seq(T) /\ Len(b) = m /\ b[m] = rs[m] /\ \A k \in 1..n : b[k] = a[k]
    BY <2>1, <2>3, <2>4, <2>6, AppendProperties
  <2>8. \A k \in 1..m : k = m \/ k \in 1..n
    BY <1>1, <2>1
  <2>9. \A k \in 1..Len(b) : b[k] = c[k]
    BY <2>4, <2>5, <2>7, <2>8
  <2>10. b = c
    BY <2>5, <2>7, <2>9, SeqEqual
  <2> QED BY <2>1, <2>3, <2>10
<1> QED BY <1>1, <1>4, <1>5

\* The first range begins at 0, and every range where the one before ends.
LEMMA StartIs ==
    ASSUME NEW rs \in Seq(Rng), NEW e
    PROVE  /\ Start(rs, 1, e) = 0 /\ Start(rs, Len(rs) + 1, e) = Extents(rs, e)
           /\ \A i \in 1..(Len(rs) + 1) : Start(rs, i, e) \in Nat
           /\ \A i \in 1..Len(rs) : Start(rs, i + 1, e) = Start(rs, i, e) + Extent(rs[i], e)
<1>1. PICK l : l = Len(rs) /\ l \in Nat
  OBVIOUS
<1>2. Start(rs, 1, e) = 0
  <2>1. 1 - 1 = 0 /\ 0 < 1 /\ 0 \in Int /\ 1 \in Int
    OBVIOUS
  <2>2. SubSeq(rs, 1, 0) = << >>
    BY <2>1, SubSeqEmpty
  <2> QED BY <2>1, <2>2, ExtentsEmpty DEF Start
<1>3. Start(rs, Len(rs) + 1, e) = Extents(rs, e)
  <2>1. (Len(rs) + 1) - 1 = Len(rs)
    BY <1>1
  <2> QED BY <2>1, SubSeqFull DEF Start
<1>4. ASSUME NEW i \in 1..(l + 1) PROVE Start(rs, i, e) \in Nat
  <2>1. i - 1 \in 0..Len(rs)
    BY <1>1
  <2> QED BY <2>1, PrefixNext, ExtentsType DEF Start
<1>5. ASSUME NEW i \in 1..l PROVE Start(rs, i + 1, e) = Start(rs, i, e) + Extent(rs[i], e)
  <2>1. PICK n : n = i - 1
    OBVIOUS
  <2>2. n \in 0..Len(rs) /\ n < Len(rs) /\ n + 1 = i /\ (i + 1) - 1 = i /\ i \in 1..Len(rs)
    BY <1>1, <2>1
  <2>3. SubSeq(rs, 1, n) \in Seq(Rng) /\ SubSeq(rs, 1, i) = Append(SubSeq(rs, 1, n), rs[i])
    BY <2>2, PrefixNext
  <2>4. rs[i] \in Rng
    BY <2>2
  <2>5. Extents(SubSeq(rs, 1, i), e) = Extents(SubSeq(rs, 1, n), e) + Extent(rs[i], e)
    BY <2>3, <2>4, ExtentsAppend, ZenonT(20)
  <2> QED BY <2>1, <2>2, <2>5 DEF Start
<1> QED BY <1>1, <1>2, <1>3, <1>4, <1>5

\* What n ranges from range i on have grown to.
Grown(rs, i, n) ==
    /\ Start(rs, i, FALSE) + n <= Start(rs, i + n, FALSE)
    /\ Start(rs, i, TRUE) <= Start(rs, i + n, TRUE)
    /\ Start(rs, i + n, TRUE) - Start(rs, i, TRUE) <= Start(rs, i + n, FALSE) - Start(rs, i, FALSE)

\* The ranges from one to another: the further, the longer, and no longer
\* in the editor than internally.
LEMMA StartsGrow ==
    ASSUME NEW rs \in Seq(Rng), NEW i \in 1..(Len(rs) + 1), NEW j \in i..(Len(rs) + 1)
    PROVE  /\ Start(rs, i, FALSE) + (j - i) <= Start(rs, j, FALSE)
           /\ Start(rs, i, TRUE) <= Start(rs, j, TRUE)
           /\ Start(rs, j, TRUE) - Start(rs, i, TRUE) <= Start(rs, j, FALSE) - Start(rs, i, FALSE)
<1> DEFINE G == {n \in Nat : i + n <= Len(rs) + 1 => Grown(rs, i, n)}
<1>1. PICK l : l = Len(rs) /\ l \in Nat
  OBVIOUS
<1>2. /\ i \in 1..(l + 1) /\ j \in i..(l + 1) /\ i \in Nat
      /\ \A k \in 1..(l + 1) : Start(rs, k, FALSE) \in Nat /\ Start(rs, k, TRUE) \in Nat
  <2>1. \A k \in 1..(l + 1) : Start(rs, k, FALSE) \in Nat
    BY <1>1, StartIs
  <2>2. \A k \in 1..(l + 1) : Start(rs, k, TRUE) \in Nat
    BY <1>1, StartIs
  <2>3. i \in 1..(l + 1) /\ j \in i..(l + 1) /\ i \in Nat
    BY <1>1
  <2> QED BY <2>1, <2>2, <2>3
<1>3. 0 \in G
  <2>1. i + 0 = i /\ i \in 1..(l + 1)
    BY <1>2
  <2>2. Start(rs, i, FALSE) \in Nat /\ Start(rs, i, TRUE) \in Nat
    BY <1>2, <2>1
  <2>3. Grown(rs, i, 0)
    <3>1. PICK u, v : u = Start(rs, i, FALSE) /\ v = Start(rs, i, TRUE)
      OBVIOUS
    <3>2. u \in Nat /\ v \in Nat
      BY <2>2, <3>1
    <3>3. u + 0 <= u /\ v <= v /\ v - v <= u - u
      BY <3>2
    <3> QED BY <2>1, <3>1, <3>3 DEF Grown
  <2> QED BY <2>3
<1>4. ASSUME NEW n \in G PROVE n + 1 \in G
  <2>1. n \in Nat /\ (i + n <= l + 1 => Grown(rs, i, n))
    BY <1>1
  <2>2. SUFFICES ASSUME i + (n + 1) <= l + 1 PROVE Grown(rs, i, n + 1)
    BY <1>1, <2>1
  <2>3. PICK k : k = i + n
    OBVIOUS
  <2>4. k \in 1..l /\ i + (n + 1) = k + 1 /\ k \in 1..(l + 1) /\ k + 1 \in 1..(l + 1)
        /\ n \in Nat /\ i + n <= l + 1
    BY <1>1, <1>2, <2>2, <2>3
  <2>5. Grown(rs, i, n)
    BY <2>1, <2>4
  <2>6. PICK a, b : a = Start(rs, k, FALSE) /\ b = Start(rs, k, TRUE)
    OBVIOUS
  <2>7. PICK c, d : c = Start(rs, k + 1, FALSE) /\ d = Start(rs, k + 1, TRUE)
    OBVIOUS
  <2>8. PICK u, v : u = Start(rs, i, FALSE) /\ v = Start(rs, i, TRUE)
    OBVIOUS
  <2>9. PICK r : r = rs[k] /\ r \in Rng
    BY <1>1, <2>4
  <2>10. PICK s, t : s = Extent(r, FALSE) /\ t = Extent(r, TRUE)
    OBVIOUS
  <2>11. s \in Nat /\ t \in Nat /\ s >= 1 /\ t <= s
    <3>1. s = r.len /\ r.len \in Nat /\ r.len > 0
      BY <2>9, <2>10, ExtentIs
    <3>2. t \in Nat /\ t <= r.len
      BY <2>9, <2>10, ExtentIs
    <3> QED BY <3>1, <3>2
  <2>12. c = a + s /\ d = b + t
    BY <1>1, <2>4, <2>6, <2>7, <2>9, <2>10, StartIs
  <2>13. a \in Nat /\ b \in Nat /\ u \in Nat /\ v \in Nat
    BY <1>2, <2>4, <2>6, <2>8
  <2>14. u + n <= a /\ v <= b /\ b - v <= a - u
    BY <2>3, <2>5, <2>6, <2>8 DEF Grown
  <2>15. u + (n + 1) <= c /\ v <= d /\ d - v <= c - u
    BY <2>1, <2>11, <2>13, <2>14, <2>12
  <2> QED BY <2>4, <2>7, <2>8, <2>15 DEF Grown
<1>5. G \in SUBSET Nat
  OBVIOUS
<1> HIDE DEF G
<1>6. G = Nat
  BY <1>3, <1>4, <1>5, LenFold!Induction
<1>7. PICK n : n = j - i
  OBVIOUS
<1>8. n \in Nat /\ i + n = j /\ i + n <= Len(rs) + 1
  BY <1>1, <1>2, <1>7
<1>9. Grown(rs, i, n)
  BY <1>6, <1>8 DEF G
<1> QED BY <1>7, <1>8, <1>9 DEF Grown

\* Ranges lo..hi are the same d indices on, and begin x characters on.
SameRanges(rs, ns, lo, hi, d) == \A k \in lo..hi : ns[k + d] = rs[k]
Begin(rs, ns, e, lo, hi, d, x) == \A k \in lo..hi : Start(ns, k + d, e) = Start(rs, k, e) + x

\* Ranges that stay the same, though at other indices, begin where they
\* began, moved by as much as the first of them has.
LEMMA StartsMove ==
    ASSUME NEW rs \in Seq(Rng), NEW ns \in Seq(Rng), NEW e,
           NEW m \in 1..(Len(rs) + 1), NEW top \in m..(Len(rs) + 1),
           NEW d \in Int, m + d >= 1, top + d <= Len(ns) + 1,
           NEW x \in Int, Start(ns, m + d, e) = Start(rs, m, e) + x,
           SameRanges(rs, ns, m, top - 1, d)
    PROVE  Begin(rs, ns, e, m, top, d, x)
<1> DEFINE G == {n \in Nat : m + n <= top => Start(ns, (m + n) + d, e) = Start(rs, m + n, e) + x}
<1>1. PICK l, h : l = Len(rs) /\ l \in Nat /\ h = Len(ns) /\ h \in Nat
  <2>1. Len(rs) \in Nat /\ Len(ns) \in Nat
    BY LenProperties
  <2> QED BY <2>1
<1>2. m \in 1..(l + 1) /\ top \in m..(l + 1) /\ m \in Nat /\ top + d <= h + 1
  BY <1>1
<1>3. 0 \in G
  <2>1. m + 0 = m
    BY <1>2
  <2> QED BY <2>1
<1>4. ASSUME NEW n \in G PROVE n + 1 \in G
  <2>1. SUFFICES ASSUME m + (n + 1) <= top
                 PROVE  Start(ns, (m + (n + 1)) + d, e) = Start(rs, m + (n + 1), e) + x
    OBVIOUS
  <2>2. PICK k, q : k = m + n /\ q = k + d
    OBVIOUS
  <2>3. /\ n \in Nat /\ k \in 1..l /\ k \in m..(top - 1) /\ q \in 1..h /\ m + n <= top
        /\ m + (n + 1) = k + 1 /\ (k + 1) + d = q + 1
    BY <1>1, <1>2, <2>1, <2>2
  <2>4. Start(ns, q, e) = Start(rs, k, e) + x
    BY <2>2, <2>3
  <2>5. ns[q] = rs[k] /\ rs[k] \in Rng
    BY <1>1, <2>2, <2>3 DEF SameRanges
  <2>6. Start(ns, q + 1, e) = Start(ns, q, e) + Extent(ns[q], e)
    BY <1>1, <2>3, StartIs
  <2>7. Start(rs, k + 1, e) = Start(rs, k, e) + Extent(rs[k], e)
    BY <1>1, <2>3, StartIs
  <2>8. Start(rs, k, e) \in Nat /\ Extent(rs[k], e) \in Nat
    <3>1. k \in 1..(Len(rs) + 1)
      BY <1>1, <2>3
    <3> QED BY <2>5, <3>1, StartIs, ExtentIs
  <2>9. Start(ns, q + 1, e) = Start(rs, k + 1, e) + x
    BY <2>4, <2>5, <2>6, <2>7, <2>8
  <2> QED BY <2>3, <2>9
<1>5. G \in SUBSET Nat
  OBVIOUS
<1> HIDE DEF G
<1>6. G = Nat
  BY <1>3, <1>4, <1>5, LenFold!Induction
<1>7. ASSUME NEW k \in m..top PROVE Start(ns, k + d, e) = Start(rs, k, e) + x
  <2>1. PICK n : n = k - m
    OBVIOUS
  <2>2. n \in Nat /\ m + n = k /\ m + n <= top
    BY <1>2, <2>1
  <2> QED BY <1>6, <2>2 DEF G
<1> QED BY <1>7 DEF Begin

\* The ranges before the first that differs.
LEMMA StartsSame ==
    ASSUME NEW rs \in Seq(Rng), NEW ns \in Seq(Rng), NEW e,
           NEW top \in 1..(Len(rs) + 1), top <= Len(ns) + 1,
           SameRanges(rs, ns, 1, top - 1, 0)
    PROVE  Begin(rs, ns, e, 1, top, 0, 0)
<1>1. PICK l, h, z, o : l = Len(rs) /\ h = Len(ns) /\ z = 0 /\ o = 1
  OBVIOUS
<1>2. l \in Nat /\ h \in Nat
  <2>1. Len(rs) \in Nat /\ Len(ns) \in Nat
    BY LenProperties
  <2> QED BY <1>1, <2>1
<1>3. o \in 1..(Len(rs) + 1) /\ top \in o..(Len(rs) + 1) /\ z \in Int /\ o + z >= 1
      /\ top + z <= Len(ns) + 1 /\ o + z = o /\ top \in 1..(l + 1)
  BY <1>1, <1>2
<1>4. Start(ns, o + z, e) = Start(rs, o, e) + z
  BY <1>1, <1>3, StartIs
<1>5. SameRanges(rs, ns, o, top - 1, z)
  BY <1>1
<1>6. Begin(rs, ns, e, o, top, z, z)
  BY <1>3, <1>4, <1>5, StartsMove
<1> QED BY <1>1, <1>6

-----------------------------------------------------------------------------
(* Ranges replaced by others *)

\* Ranges lo..hi of rs (none if hi = lo - 1) are replaced by those of mid.
Spliced(rs, ns, lo, hi, mid) ==
    /\ ns \in Seq(Rng) /\ mid \in Seq(Rng)
    /\ lo \in 1..(Len(rs) + 1) /\ hi \in (lo - 1)..Len(rs)
    /\ Len(ns) = Len(rs) + (Len(mid) - (hi - lo + 1))
    /\ SameRanges(rs, ns, 1, lo - 1, 0)
    /\ SameRanges(mid, ns, 1, Len(mid), lo - 1)
    /\ SameRanges(rs, ns, hi + 1, Len(rs), Len(mid) - (hi - lo + 1))

\* The ranges behind them are d indices on, and x characters on.
Gap(lo, hi, mid, d) == d = Len(mid) - (hi - lo + 1)
Growth(rs, lo, hi, mid, e, x) == x = Start(rs, lo, e) + Extents(mid, e) - Start(rs, hi + 1, e)

\* The same, x in the editor and y internally.
Growths(rs, lo, hi, mid, x, y) ==
    Growth(rs, lo, hi, mid, TRUE, x) /\ Growth(rs, lo, hi, mid, FALSE, y)

\* No two consecutive ranges have the same liveness.
Alternates(rs) == \A i \in 1..(Len(rs) - 1) : rs[i].live # rs[i + 1].live

LEMMA SpliceIs ==
    ASSUME NEW rs \in Seq(Rng), NEW mid \in Seq(Rng),
           NEW lo \in 1..(Len(rs) + 1), NEW hi \in (lo - 1)..Len(rs)
    PROVE  Spliced(rs, SubSeq(rs, 1, lo - 1) \o mid \o SubSeq(rs, hi + 1, Len(rs)), lo, hi, mid)
<1>1. PICK l, n, m, a : l = Len(rs) /\ n = Len(mid) /\ m = lo - 1 /\ a = hi + 1
  OBVIOUS
<1>2. l \in Nat /\ n \in Nat
  <2>1. Len(rs) \in Nat /\ Len(mid) \in Nat
    BY LenProperties
  <2> QED BY <1>1, <2>1
<1>3. m \in 0..l /\ hi \in m..l /\ lo = m + 1 /\ a \in 1..(l + 1) /\ a \in Int /\ l \in Int
  BY <1>1, <1>2
<1>4. PICK x, y, u, ns : /\ x = SubSeq(rs, 1, m) /\ y = SubSeq(rs, a, l)
                         /\ u = x \o mid /\ ns = u \o y
  OBVIOUS
<1>5. x \in Seq(Rng) /\ Len(x) = m /\ \A k \in 1..m : x[k] = rs[k]
  BY <1>1, <1>3, <1>4, PrefixNext
<1>6. /\ y \in Seq(Rng) /\ Len(y) = (IF a <= l THEN l - a + 1 ELSE 0)
      /\ \A k \in 1..(l - a + 1) : y[k] = rs[a + k - 1]
  <2>1. \A k \in a..l : k \in 1..l
    BY <1>2, <1>3
  <2>2. \A k \in a..l : rs[k] \in Rng
    BY <1>1, <2>1
  <2> QED BY <1>3, <1>4, <2>2, SubSeqProperties
<1>7. Len(y) = l - hi /\ \A k \in a..l : y[k - hi] = rs[k]
  <2>1. Len(y) = l - hi
    BY <1>1, <1>2, <1>3, <1>6
  <2>2. ASSUME NEW k \in a..l PROVE y[k - hi] = rs[k]
    <3>1. PICK j : j = k - hi
      OBVIOUS
    <3>2. j \in 1..(l - a + 1) /\ a + j - 1 = k
      BY <1>1, <1>2, <1>3, <3>1
    <3> QED BY <1>6, <3>1, <3>2
  <2> QED BY <2>1, <2>2
<1>8. /\ u \in Seq(Rng) /\ Len(u) = m + n
      /\ \A k \in 1..(m + n) : u[k] = IF k <= m THEN x[k] ELSE mid[k - m]
  BY <1>1, <1>4, <1>5, ConcatProperties
<1>9. PICK t : t = m + n /\ t \in Nat
  BY <1>2, <1>3
<1>10. PICK r : r = l - hi /\ r \in Nat
  BY <1>2, <1>3
<1>11. /\ ns \in Seq(Rng) /\ Len(ns) = t + r
       /\ \A k \in 1..(t + r) : ns[k] = IF k <= t THEN u[k] ELSE y[k - t]
  <2>1. /\ ns \in Seq(Rng) /\ Len(ns) = Len(u) + Len(y)
        /\ \A k \in 1..(Len(u) + Len(y)) : ns[k] = IF k <= Len(u) THEN u[k] ELSE y[k - Len(u)]
    <3>1. u \in Seq(Rng) /\ y \in Seq(Rng)
      BY <1>6, <1>8
    <3>2. ns = u \o y
      BY <1>4
    <3> QED BY <3>1, <3>2, ConcatProperties
  <2>2. Len(u) = t /\ Len(y) = r
    BY <1>7, <1>8, <1>9, <1>10
  <2> QED BY <2>1, <2>2
<1>12. Len(ns) = Len(rs) + (Len(mid) - (hi - lo + 1))
  BY <1>1, <1>2, <1>3, <1>9, <1>10, <1>11
<1>13. SameRanges(rs, ns, 1, lo - 1, 0)
  <2>1. ASSUME NEW k \in 1..m PROVE ns[k + 0] = rs[k]
    <3>1. k + 0 = k /\ k \in 1..(t + r) /\ k <= t /\ k \in 1..(m + n) /\ k <= m
      BY <1>2, <1>3, <1>9, <1>10
    <3> QED BY <1>5, <1>8, <1>11, <3>1
  <2> QED BY <1>1, <2>1 DEF SameRanges
<1>14. SameRanges(mid, ns, 1, Len(mid), lo - 1)
  <2>1. ASSUME NEW k \in 1..n PROVE ns[k + m] = mid[k]
    <3>1. PICK j : j = k + m
      OBVIOUS
    <3>2. j \in 1..(t + r) /\ j <= t /\ j \in 1..(m + n) /\ ~(j <= m) /\ j - m = k
      BY <1>2, <1>3, <1>9, <1>10, <3>1
    <3> QED BY <1>8, <1>11, <3>1, <3>2
  <2> QED BY <1>1, <2>1 DEF SameRanges
<1>15. SameRanges(rs, ns, hi + 1, Len(rs), Len(mid) - (hi - lo + 1))
  <2>1. ASSUME NEW k \in a..l PROVE ns[k + (n - (hi - lo + 1))] = rs[k]
    <3>1. PICK j : j = k + (n - (hi - lo + 1))
      OBVIOUS
    <3>2. j \in 1..(t + r) /\ ~(j <= t) /\ j - t = k - hi
      BY <1>1, <1>2, <1>3, <1>9, <1>10, <3>1
    <3> QED BY <1>7, <1>11, <3>1, <3>2
  <2> QED BY <1>1, <2>1 DEF SameRanges
<1>16. Spliced(rs, ns, lo, hi, mid)
  BY <1>11, <1>12, <1>13, <1>14, <1>15 DEF Spliced
<1> QED BY <1>1, <1>4, <1>16

\* Where the ranges before a splice begin.
LEMMA SplicedBefore ==
    ASSUME NEW rs \in Seq(Rng), NEW ns, NEW lo, NEW hi, NEW mid, Spliced(rs, ns, lo, hi, mid), NEW e
    PROVE  Begin(rs, ns, e, 1, lo, 0, 0)
<1>1. ns \in Seq(Rng) /\ Len(rs) \in Nat /\ Len(mid) \in Nat
  BY LenProperties DEF Spliced
<1>2. /\ lo \in 1..(Len(rs) + 1) /\ hi \in (lo - 1)..Len(rs)
      /\ Len(ns) = Len(rs) + (Len(mid) - (hi - lo + 1))
  BY DEF Spliced
<1>3. lo <= Len(ns) + 1
  BY <1>1, <1>2
<1>4. SameRanges(rs, ns, 1, lo - 1, 0)
  BY DEF Spliced
<1> QED BY <1>1, <1>2, <1>3, <1>4, StartsSame

\* Where the ranges begin after a splice.
LEMMA SplicedStarts ==
    ASSUME NEW rs \in Seq(Rng), NEW ns, NEW lo, NEW hi, NEW mid, Spliced(rs, ns, lo, hi, mid),
           NEW e, NEW d, Gap(lo, hi, mid, d),
           NEW x, Growth(rs, lo, hi, mid, e, x)
    PROVE  /\ Begin(mid, ns, e, 1, Len(mid) + 1, lo - 1, Start(rs, lo, e))
           /\ Begin(rs, ns, e, hi + 1, Len(rs) + 1, d, x)
           /\ Extents(ns, e) = Extents(rs, e) + x
<1>1. PICK l, h, n, m : l = Len(rs) /\ h = Len(ns) /\ n = Len(mid) /\ m = lo - 1
  OBVIOUS
<1>2. l \in Nat /\ h \in Nat /\ n \in Nat /\ ns \in Seq(Rng) /\ mid \in Seq(Rng)
  <2>1. ns \in Seq(Rng) /\ mid \in Seq(Rng)
    BY DEF Spliced
  <2>2. Len(rs) \in Nat /\ Len(ns) \in Nat /\ Len(mid) \in Nat
    BY <2>1, LenProperties
  <2> QED BY <1>1, <2>1, <2>2
<1>3. /\ lo \in 1..(l + 1) /\ hi \in (lo - 1)..l /\ h = l + (n - (hi - lo + 1))
      /\ SameRanges(rs, ns, 1, lo - 1, 0) /\ SameRanges(mid, ns, 1, n, m)
      /\ SameRanges(rs, ns, hi + 1, l, d)
  BY <1>1 DEF Spliced, Gap
<1>4. /\ m \in Nat /\ lo = m + 1 /\ hi \in m..l /\ hi \in Int /\ d \in Int /\ d = n - (hi - m)
      /\ h = l + d
  BY <1>1, <1>2, <1>3 DEF Gap
<1>5. PICK s, t, q : s = Start(rs, lo, e) /\ t = Start(rs, hi + 1, e) /\ q = Extents(mid, e)
  OBVIOUS
<1>6. s \in Nat /\ t \in Nat /\ q \in Nat
  <2>1. lo \in 1..(Len(rs) + 1) /\ hi + 1 \in 1..(Len(rs) + 1)
    BY <1>1, <1>2, <1>3, <1>4
  <2> QED BY <1>2, <1>5, <2>1, StartIs, ExtentsType
<1>7. x \in Int /\ x = s + q - t
  BY <1>5, <1>6 DEF Growth
<1>8. Begin(rs, ns, e, 1, lo, 0, 0)
  BY SplicedBefore
<1>9. Start(ns, lo, e) = s
  <2>1. lo \in 1..lo /\ lo + 0 = lo
    BY <1>1, <1>3
  <2>2. Start(ns, lo + 0, e) = Start(rs, lo, e) + 0
    BY <1>8, <2>1 DEF Begin
  <2> QED BY <1>5, <1>6, <2>1, <2>2
<1>10. Begin(mid, ns, e, 1, n + 1, m, s)
  <2>1. PICK o, p : o = 1 /\ p = n + 1
    OBVIOUS
  <2>2. /\ o \in 1..(Len(mid) + 1) /\ p \in o..(Len(mid) + 1) /\ m \in Int /\ o + m >= 1
        /\ p + m <= Len(ns) + 1 /\ s \in Int /\ o + m = lo /\ p - 1 = n
    BY <1>1, <1>2, <1>4, <1>6, <2>1
  <2>3. Start(mid, o, e) = 0
    BY <1>2, <2>1, StartIs
  <2>4. Start(ns, o + m, e) = Start(mid, o, e) + s
    BY <1>6, <1>9, <2>2, <2>3
  <2>5. SameRanges(mid, ns, o, p - 1, m)
    BY <1>3, <2>1, <2>2
  <2>6. Begin(mid, ns, e, o, p, m, s)
    BY <1>2, <2>2, <2>4, <2>5, StartsMove
  <2> QED BY <2>1, <2>6
<1>11. Start(ns, (hi + 1) + d, e) = s + q
  <2>1. n + 1 \in 1..(n + 1) /\ (n + 1) + m = (hi + 1) + d
    <3>1. n \in Nat /\ m \in Int /\ hi \in Int
      BY <1>2, <1>4
    <3>2. d = n - (hi - m)
      BY <1>4
    <3> QED BY <3>1, <3>2
  <2>2. Start(ns, (n + 1) + m, e) = Start(mid, n + 1, e) + s
    BY <1>10, <2>1 DEF Begin
  <2>3. Start(mid, n + 1, e) = q
    BY <1>1, <1>2, <1>5, StartIs
  <2> QED BY <1>6, <2>1, <2>2, <2>3
<1>12. Begin(rs, ns, e, hi + 1, l + 1, d, x)
  <2>1. PICK o, p : o = hi + 1 /\ p = l + 1
    OBVIOUS
  <2>2. /\ o \in 1..(Len(rs) + 1) /\ p \in o..(Len(rs) + 1) /\ o + d >= 1
        /\ p + d <= Len(ns) + 1 /\ p - 1 = l
    BY <1>1, <1>2, <1>4, <2>1
  <2>3. Start(ns, o + d, e) = Start(rs, o, e) + x
    BY <1>5, <1>6, <1>7, <1>11, <2>1
  <2>4. SameRanges(rs, ns, o, p - 1, d)
    BY <1>3, <2>1, <2>2
  <2>5. Begin(rs, ns, e, o, p, d, x)
    BY <1>2, <1>4, <1>7, <2>2, <2>3, <2>4, StartsMove
  <2> QED BY <2>1, <2>5
<1>13. Extents(ns, e) = Extents(rs, e) + x
  <2>1. l + 1 \in (hi + 1)..(l + 1) /\ (l + 1) + d = h + 1
    <3>1. l + 1 \in (hi + 1)..(l + 1)
      BY <1>2, <1>4
    <3>2. (l + 1) + d = h + 1
      <4>1. l \in Int
        BY <1>2
      <4>2. d \in Int /\ h = l + d
        BY <1>4
      <4> QED BY <4>1, <4>2
    <3> QED BY <3>1, <3>2
  <2>2. Start(ns, (l + 1) + d, e) = Start(rs, l + 1, e) + x
    BY <1>12, <2>1 DEF Begin
  <2>3. Start(rs, l + 1, e) = Extents(rs, e) /\ Start(ns, h + 1, e) = Extents(ns, e)
    BY <1>1, <1>2, StartIs
  <2> QED BY <2>1, <2>2, <2>3
<1> QED BY <1>1, <1>5, <1>10, <1>12, <1>13

LengthOf(rs) == Extents(rs, FALSE)

\* How long the document is after a splice.
LEMMA SplicedExtents ==
    ASSUME NEW rs \in Seq(Rng), NEW ns, NEW lo, NEW hi, NEW mid, Spliced(rs, ns, lo, hi, mid),
           NEW x, NEW y, Growths(rs, lo, hi, mid, x, y)
    PROVE  LengthOf(ns) = LengthOf(rs) + y
<1>1. PICK e : e = FALSE
  OBVIOUS
<1>2. Growth(rs, lo, hi, mid, e, y)
  BY <1>1 DEF Growths
<1>3. PICK d : Gap(lo, hi, mid, d)
  BY DEF Gap
<1>4. Extents(ns, e) = Extents(rs, e) + y
  BY <1>2, <1>3, SplicedStarts
<1> QED BY <1>1, <1>4 DEF LengthOf

\* What is put in alternates with what is left around it.
LEMMA SplicedAlternates ==
    ASSUME NEW rs \in Seq(Rng), NEW ns, NEW lo, NEW hi, NEW mid, Spliced(rs, ns, lo, hi, mid),
           Alternates(rs), Alternates(mid), mid # << >>,
           lo > 1 => rs[lo - 1].live # mid[1].live,
           hi < Len(rs) => mid[Len(mid)].live # rs[hi + 1].live
    PROVE  Alternates(ns)
<1>1. PICK l, h, n, m, d : /\ l = Len(rs) /\ h = Len(ns) /\ n = Len(mid) /\ m = lo - 1
                           /\ d = n - (hi - lo + 1)
  OBVIOUS
<1>2. l \in Nat /\ h \in Nat /\ n \in Nat /\ n >= 1
  <2>1. ns \in Seq(Rng) /\ mid \in Seq(Rng)
    BY DEF Spliced
  <2>2. Len(rs) \in Nat /\ Len(ns) \in Nat /\ Len(mid) \in Nat \ {0}
    BY <2>1, LenProperties, EmptySeq
  <2> QED BY <1>1, <2>2
<1>3. /\ m \in 0..l /\ lo = m + 1 /\ hi \in m..l /\ d \in Int /\ d = n - (hi - m)
      /\ h = l + d
  BY <1>1, <1>2 DEF Spliced
<1>4. /\ \A k \in 1..m : ns[k + 0] = rs[k]
      /\ \A k \in 1..n : ns[k + m] = mid[k]
      /\ \A k \in (hi + 1)..l : ns[k + d] = rs[k]
  BY <1>1 DEF Spliced, SameRanges
<1>5. ASSUME NEW i \in 1..(h - 1) PROVE ns[i].live # ns[i + 1].live
  <2>1. CASE i + 1 <= m
    <3>1. PICK j : j = i + 1
      OBVIOUS
    <3>2. i \in 1..m /\ j \in 1..m /\ i + 0 = i /\ j + 0 = j /\ i \in 1..(l - 1)
      BY <1>2, <1>3, <2>1, <3>1
    <3>3. ns[i] = rs[i] /\ ns[j] = rs[j]
      BY <1>4, <3>2
    <3>4. rs[i].live # rs[j].live
      BY <1>1, <3>1, <3>2 DEF Alternates
    <3> QED BY <3>1, <3>3, <3>4
  <2>2. CASE i = m
    <3>1. i \in 1..m /\ i + 0 = i /\ 1 \in 1..n /\ 1 + m = i + 1 /\ lo > 1 /\ lo - 1 = i
      BY <1>2, <1>3, <2>2
    <3>2. ns[i] = rs[i] /\ ns[i + 1] = mid[1]
      BY <1>4, <3>1
    <3> QED BY <3>1, <3>2
  <2>3. CASE i > m /\ i < m + n
    <3>1. PICK k, j : k = i - m /\ j = k + 1
      OBVIOUS
    <3>2. k \in 1..n /\ j \in 1..n /\ k + m = i /\ j + m = i + 1 /\ k \in 1..(n - 1)
      BY <1>2, <1>3, <2>3, <3>1
    <3>3. ns[i] = mid[k] /\ ns[i + 1] = mid[j]
      BY <1>4, <3>2
    <3>4. mid[k].live # mid[j].live
      BY <1>1, <3>1, <3>2 DEF Alternates
    <3> QED BY <3>3, <3>4
  <2>4. CASE i = m + n
    <3>1. PICK j : j = hi + 1
      OBVIOUS
    <3>2. n \in 1..n /\ n + m = i /\ j \in (hi + 1)..l /\ j + d = i + 1 /\ hi < l
      BY <1>2, <1>3, <2>4, <3>1
    <3>3. ns[i] = mid[n] /\ ns[i + 1] = rs[j]
      BY <1>4, <3>2
    <3> QED BY <1>1, <3>1, <3>2, <3>3
  <2>5. CASE i > m + n
    <3>1. PICK k, j : k = i - d /\ j = k + 1
      OBVIOUS
    <3>2. /\ k \in (hi + 1)..l /\ j \in (hi + 1)..l /\ k + d = i /\ j + d = i + 1
          /\ k \in 1..(l - 1)
      BY <1>2, <1>3, <2>5, <3>1
    <3>3. ns[i] = rs[k] /\ ns[i + 1] = rs[j]
      BY <1>4, <3>2
    <3>4. rs[k].live # rs[j].live
      BY <1>1, <3>1, <3>2 DEF Alternates
    <3> QED BY <3>3, <3>4
  <2>6. i \in Int /\ m \in Int /\ n \in Int
    BY <1>2, <1>3
  <2> QED BY <2>1, <2>2, <2>3, <2>4, <2>5, <2>6
<1> QED BY <1>1, <1>5 DEF Alternates

\* What one, two or three ranges measure.
LEMMA Singleton ==
    ASSUME NEW r \in Rng
    PROVE  /\ <<r>> \in Seq(Rng) /\ Len(<<r>>) = 1 /\ <<r>>[1] = r /\ <<r>> # << >>
           /\ Alternates(<<r>>) /\ \A e : Extents(<<r>>, e) = Extent(r, e)
<1>1. PICK z, s : z = << >> /\ s = <<r>>
  OBVIOUS
<1>2. z \in Seq(Rng) /\ s \in Seq(Rng) /\ Len(s) = 1 /\ s[1] = r /\ s # << >> /\ s = Append(z, r)
  BY <1>1
<1>3. ASSUME NEW e PROVE Extents(s, e) = Extent(r, e)
  <2>1. Extents(s, e) = Extents(z, e) + Extent(r, e)
    BY <1>2, ExtentsAppend
  <2>2. Extents(z, e) = 0 /\ Extent(r, e) \in Nat
    BY <1>1, ExtentsEmpty, ExtentIs
  <2> QED BY <2>1, <2>2
<1>4. Alternates(s)
  BY <1>2 DEF Alternates
<1> QED BY <1>1, <1>2, <1>3, <1>4

\* A range more at the end.
LEMMA OneMore ==
    ASSUME NEW rs \in Seq(Rng), rs # << >>, Alternates(rs), NEW r \in Rng, rs[Len(rs)].live # r.live
    PROVE  /\ Append(rs, r) \in Seq(Rng) /\ Len(Append(rs, r)) = Len(rs) + 1
           /\ Append(rs, r)[1] = rs[1] /\ Append(rs, r)[Len(rs) + 1] = r
           /\ Alternates(Append(rs, r)) /\ Append(rs, r) # << >>
           /\ \A e : Extents(Append(rs, r), e) = Extents(rs, e) + Extent(r, e)
<1>1. PICK l, s, m : l = Len(rs) /\ s = Append(rs, r) /\ m = l + 1
  OBVIOUS
<1>2. l \in Nat /\ l >= 1
  <2>1. Len(rs) \in Nat \ {0}
    BY EmptySeq
  <2> QED BY <1>1, <2>1
<1>3. /\ s \in Seq(Rng) /\ Len(s) = m /\ s # << >> /\ s[m] = r /\ \A i \in 1..l : s[i] = rs[i]
  BY <1>1, AppendProperties
<1>4. ASSUME NEW i \in 1..(m - 1) PROVE s[i].live # s[i + 1].live
  <2>1. CASE i = l
    BY <1>1, <1>2, <1>3, <2>1
  <2>2. CASE i # l
    <3>1. PICK j : j = i + 1
      OBVIOUS
    <3>2. i \in 1..(l - 1) /\ i \in 1..l /\ j \in 1..l
      BY <1>1, <1>2, <2>2, <3>1
    <3>3. rs[i].live # rs[j].live
      BY <1>1, <3>1, <3>2 DEF Alternates
    <3> QED BY <1>3, <3>1, <3>2, <3>3
  <2> QED BY <2>1, <2>2
<1>5. Alternates(s)
  BY <1>3, <1>4 DEF Alternates
<1>6. 1 \in 1..l
  BY <1>2
<1>7. \A e : Extents(s, e) = Extents(rs, e) + Extent(r, e)
  BY <1>1, ExtentsAppend
<1> QED BY <1>1, <1>3, <1>5, <1>6, <1>7

\* The ways apply_ins changes the ranges, as splices: a range made longer,
\* one more at the end or at the beginning.
LEMMA LongerIs ==
    ASSUME NEW rs \in Seq(Rng), NEW j \in 1..Len(rs), NEW len \in Nat, rs[j].live
    PROVE  /\ RangeOf(TRUE, rs[j].len + len) \in Rng
           /\ Spliced(rs, Longer(rs, j, len), j, j, <<RangeOf(TRUE, rs[j].len + len)>>)
<1>1. PICK l, g : l = Len(rs) /\ g = rs[j]
  OBVIOUS
<1>2. l \in Nat /\ j \in 1..l /\ j \in Nat
  <2>1. Len(rs) \in Nat
    BY LenProperties
  <2> QED BY <1>1, <2>1
<1>3. g \in Rng /\ g.live = TRUE /\ g.len \in Nat /\ g.len > 0
  <2>1. g \in Rng
    BY <1>1
  <2> QED BY <1>1, <2>1, ExtentIs
<1>4. PICK r : r = RangeOf(TRUE, g.len + len)
  OBVIOUS
<1>5. r \in Rng /\ r.live = TRUE /\ r.len = g.len + len
  BY <1>3, <1>4 DEF RangeOf, Rng
<1>6. [g EXCEPT !.len = @ + len] = r
  <2>1. g = [live |-> g.live, len |-> g.len]
    BY <1>3 DEF Rng
  <2>2. [g EXCEPT !.len = @ + len] = [live |-> g.live, len |-> g.len + len]
    BY <2>1
  <2>3. [live |-> g.live, len |-> g.len + len] = [live |-> TRUE, len |-> g.len + len]
    BY <1>3
  <2> QED BY <1>4, <2>2, <2>3 DEF RangeOf
<1>7. PICK ns : ns = [rs EXCEPT ![j] = r]
  OBVIOUS
<1>8. Longer(rs, j, len) = ns
  BY <1>1, <1>6, <1>7 DEF Longer
<1>9. ns \in Seq(Rng) /\ Len(ns) = l /\ \A k \in 1..l : ns[k] = IF k = j THEN r ELSE rs[k]
  BY <1>1, <1>5, <1>7, ExceptSeq
<1>10. PICK mid : mid = <<r>>
  OBVIOUS
<1>11. mid \in Seq(Rng) /\ Len(mid) = 1 /\ mid[1] = r
  BY <1>5, <1>10, Singleton
<1>12. SameRanges(rs, ns, 1, j - 1, 0)
  <2>1. \A k \in 1..(j - 1) : k + 0 = k /\ k \in 1..l /\ k # j
    BY <1>2
  <2> QED BY <1>9, <2>1 DEF SameRanges
<1>13. SameRanges(mid, ns, 1, Len(mid), j - 1)
  <2>1. \A k \in 1..1 : k = 1 /\ k + (j - 1) = j
    BY <1>2
  <2> QED BY <1>2, <1>9, <1>11, <2>1 DEF SameRanges
<1>14. SameRanges(rs, ns, j + 1, Len(rs), Len(mid) - (j - j + 1))
  <2>1. \A k \in (j + 1)..l : k + (1 - (j - j + 1)) = k /\ k \in 1..l /\ k # j
    BY <1>2
  <2> QED BY <1>1, <1>9, <1>11, <2>1 DEF SameRanges
<1>15. j \in 1..(l + 1) /\ j \in (j - 1)..l /\ l = l + (1 - (j - j + 1))
  BY <1>2
<1>16. Spliced(rs, ns, j, j, mid)
  BY <1>1, <1>9, <1>11, <1>12, <1>13, <1>14, <1>15 DEF Spliced
<1> QED BY <1>1, <1>4, <1>5, <1>8, <1>10, <1>16

LEMMA AppendedIs ==
    ASSUME NEW rs \in Seq(Rng), NEW r \in Rng
    PROVE  Spliced(rs, Append(rs, r), Len(rs) + 1, Len(rs), <<r>>)
<1>1. PICK l, m, mid, ns : l = Len(rs) /\ m = l + 1 /\ mid = <<r>> /\ ns = Append(rs, r)
  OBVIOUS
<1>2. l \in Nat
  <2>1. Len(rs) \in Nat
    BY LenProperties
  <2> QED BY <1>1, <2>1
<1>3. mid \in Seq(Rng) /\ Len(mid) = 1 /\ mid[1] = r
  BY <1>1, Singleton
<1>4. ns \in Seq(Rng) /\ Len(ns) = m /\ ns[m] = r /\ \A k \in 1..l : ns[k] = rs[k]
  BY <1>1, AppendProperties
<1>5. SameRanges(rs, ns, 1, m - 1, 0)
  <2>1. m - 1 = l /\ \A k \in 1..l : k + 0 = k
    BY <1>1, <1>2
  <2> QED BY <1>4, <2>1 DEF SameRanges
<1>6. SameRanges(mid, ns, 1, Len(mid), m - 1)
  <2>1. \A k \in 1..1 : k = 1 /\ k + (m - 1) = m
    BY <1>1, <1>2
  <2> QED BY <1>3, <1>4, <2>1 DEF SameRanges
<1>7. SameRanges(rs, ns, l + 1, Len(rs), Len(mid) - (l - m + 1))
  BY <1>1, <1>2 DEF SameRanges
<1>8. /\ m \in 1..(Len(rs) + 1) /\ l \in (m - 1)..Len(rs)
      /\ Len(ns) = Len(rs) + (Len(mid) - (l - m + 1))
  BY <1>1, <1>2, <1>3, <1>4
<1>9. Spliced(rs, ns, m, l, mid)
  BY <1>3, <1>4, <1>5, <1>6, <1>7, <1>8 DEF Spliced
<1> QED BY <1>1, <1>9

LEMMA PrependedIs ==
    ASSUME NEW rs \in Seq(Rng), NEW r \in Rng
    PROVE  Spliced(rs, <<r>> \o rs, 1, 0, <<r>>)
<1>1. PICK mid, z, lo, hi : mid = <<r>> /\ z = << >> /\ lo = 1 /\ hi = 0
  OBVIOUS
<1>2. mid \in Seq(Rng) /\ z \in Seq(Rng) /\ Len(rs) \in Nat
  BY <1>1, Singleton, LenProperties, EmptySeq
<1>3. lo \in 1..(Len(rs) + 1) /\ hi \in (lo - 1)..Len(rs) /\ lo - 1 = 0 /\ hi + 1 = 1
  BY <1>1, <1>2
<1>4. SubSeq(rs, 1, 0) = z /\ SubSeq(rs, 1, Len(rs)) = rs
  <2>1. 0 \in Int /\ 1 \in Int /\ 0 < 1
    OBVIOUS
  <2> QED BY <1>1, <2>1, SubSeqEmpty, SubSeqFull
<1>5. z \o mid = mid
  BY <1>1, <1>2, ConcatEmptySeq
<1>6. Spliced(rs, SubSeq(rs, 1, lo - 1) \o mid \o SubSeq(rs, hi + 1, Len(rs)), lo, hi, mid)
  BY <1>2, <1>3, SpliceIs
<1>7. Spliced(rs, mid \o rs, lo, hi, mid)
  BY <1>3, <1>4, <1>5, <1>6
<1> QED BY <1>1, <1>7

-----------------------------------------------------------------------------
(* Cursors *)

\* The exact cursor of range i, or of no range.
CursorAt(rs, i) ==
    IF i = None THEN Cursor(0, 0, None) ELSE Cursor(Start(rs, i, TRUE), Start(rs, i, FALSE), i)
CursorsOf(rs) == {CursorAt(rs, i) : i \in 0..Len(rs)}

LEMMA CursorAtIs ==
    ASSUME NEW rs, NEW i \in Nat, i # 0
    PROVE  /\ CursorAt(rs, i) = Cursor(Start(rs, i, TRUE), Start(rs, i, FALSE), i)
           /\ CursorAt(rs, i).idx = i /\ CursorAt(rs, i).editor = Start(rs, i, TRUE)
           /\ CursorAt(rs, i).internal = Start(rs, i, FALSE)
BY DEF CursorAt, Cursor, None

LEMMA NoCursor ==
    ASSUME NEW rs
    PROVE  /\ CursorAt(rs, 0) = Cursor(0, 0, 0) /\ CursorAt(rs, 0).idx = 0
           /\ CursorAt(rs, 0).editor = 0 /\ CursorAt(rs, 0).internal = 0
BY DEF CursorAt, Cursor, None

\* Cursors of ranges that begin where they began.
LEMMA CursorStays ==
    ASSUME NEW rs \in Seq(Rng), NEW ns, NEW lo, NEW hi, NEW mid, Spliced(rs, ns, lo, hi, mid),
           mid # << >>, NEW i \in 0..lo
    PROVE  CursorAt(ns, i) = CursorAt(rs, i) /\ CursorAt(ns, i) \in CursorsOf(ns)
<1>1. PICK l, n, h : l = Len(rs) /\ n = Len(mid) /\ h = Len(ns)
  OBVIOUS
<1>2. l \in Nat /\ n \in Nat /\ n >= 1 /\ h \in Nat /\ mid \in Seq(Rng)
  <2>1. ns \in Seq(Rng) /\ mid \in Seq(Rng)
    BY DEF Spliced
  <2>2. Len(rs) \in Nat /\ Len(ns) \in Nat /\ Len(mid) \in Nat \ {0}
    BY <2>1, LenProperties, EmptySeq
  <2> QED BY <1>1, <2>1, <2>2
<1>3. lo \in 1..(l + 1) /\ hi \in (lo - 1)..l /\ h = l + (n - (hi - lo + 1))
  BY <1>1 DEF Spliced
<1>4. i \in 0..h
  BY <1>2, <1>3
<1>5. CASE i = 0
  BY <1>1, <1>4, <1>5, NoCursor DEF CursorsOf
<1>6. CASE i # 0
  <2>1. i \in 1..lo /\ i + 0 = i /\ i \in 1..(Len(rs) + 1) /\ i \in Nat
    BY <1>1, <1>2, <1>3, <1>6
  <2>2. \A e : Begin(rs, ns, e, 1, lo, 0, 0)
    BY SplicedBefore
  <2>3. ASSUME NEW e PROVE Start(ns, i, e) = Start(rs, i, e)
    <3>1. Start(ns, i + 0, e) = Start(rs, i, e) + 0
      BY <2>1, <2>2 DEF Begin
    <3>2. Start(rs, i, e) \in Nat
      BY <2>1, StartIs
    <3> QED BY <2>1, <3>1, <3>2
  <2>4. CursorAt(ns, i) = Cursor(Start(ns, i, TRUE), Start(ns, i, FALSE), i)
    BY <1>6, <2>1, CursorAtIs
  <2>5. CursorAt(rs, i) = Cursor(Start(rs, i, TRUE), Start(rs, i, FALSE), i)
    BY <1>6, <2>1, CursorAtIs
  <2>6. CursorAt(ns, i) = CursorAt(rs, i)
    <3>1. Start(ns, i, TRUE) = Start(rs, i, TRUE)
      BY <2>3, Zenon
    <3>2. Start(ns, i, FALSE) = Start(rs, i, FALSE)
      BY <2>3, Zenon
    <3> QED BY <2>4, <2>5, <3>1, <3>2
  <2> QED BY <1>1, <1>4, <2>6 DEF CursorsOf
<1> QED BY <1>5, <1>6

\* The cursor of range i, moved.
CursorBy(rs, i, x, y, j) == Cursor(Start(rs, i, TRUE) + x, Start(rs, i, FALSE) + y, j)

\* Cursors of ranges behind the splice.
LEMMA CursorMoves ==
    ASSUME NEW rs \in Seq(Rng), NEW ns, NEW lo, NEW hi, NEW mid, Spliced(rs, ns, lo, hi, mid),
           NEW d, Gap(lo, hi, mid, d),
           NEW x, NEW y, Growths(rs, lo, hi, mid, x, y),
           NEW i \in (hi + 1)..Len(rs), NEW j, j = i + d
    PROVE  /\ CursorAt(ns, j) = CursorBy(rs, i, x, y, j)
           /\ CursorAt(ns, j) \in CursorsOf(ns) /\ j \in 1..Len(ns)
<1>1. PICK l, n, h : l = Len(rs) /\ n = Len(mid) /\ h = Len(ns)
  OBVIOUS
<1>2. l \in Nat /\ n \in Nat /\ h \in Nat
  <2>1. ns \in Seq(Rng) /\ mid \in Seq(Rng)
    BY DEF Spliced
  <2>2. Len(rs) \in Nat /\ Len(ns) \in Nat /\ Len(mid) \in Nat
    BY <2>1, LenProperties
  <2> QED BY <1>1, <2>2
<1>3. lo \in 1..(l + 1) /\ hi \in (lo - 1)..l /\ h = l + (n - (hi - lo + 1))
  BY <1>1 DEF Spliced
<1>4. j \in 1..h /\ j \in Nat /\ j # 0 /\ i \in (hi + 1)..(l + 1) /\ j \in 0..h
  BY <1>1, <1>2, <1>3 DEF Gap
<1>5. Begin(rs, ns, TRUE, hi + 1, Len(rs) + 1, d, x)
  BY SplicedStarts DEF Growths
<1>6. Begin(rs, ns, FALSE, hi + 1, Len(rs) + 1, d, y)
  BY SplicedStarts DEF Growths
<1>7. Start(ns, j, TRUE) = Start(rs, i, TRUE) + x /\ Start(ns, j, FALSE) = Start(rs, i, FALSE) + y
  BY <1>1, <1>4, <1>5, <1>6 DEF Begin
<1>8. CursorAt(ns, j) = CursorBy(rs, i, x, y, j)
  BY <1>4, <1>7, CursorAtIs DEF CursorBy
<1>9. CursorAt(ns, j) \in CursorsOf(ns)
  BY <1>1, <1>4 DEF CursorsOf
<1> QED BY <1>1, <1>4, <1>8, <1>9

\* shift_cursors_right keeps cursors exact when len characters of live text
\* enter before the range with which it begins.
LEMMA ShiftExact ==
    ASSUME NEW rs \in Seq(Rng), NEW ns, NEW lo, NEW hi, NEW mid, Spliced(rs, ns, lo, hi, mid),
           mid # << >>, hi <= lo, NEW d, Gap(lo, hi, mid, d), NEW len \in Nat,
           Growths(rs, lo, hi, mid, len, len),
           NEW cs \in [Sites -> CursorsOf(rs)]
    PROVE  ShiftCursorsRight(cs, hi + 1, len, d) \in [Sites -> CursorsOf(ns)]
<1>1. /\ DOMAIN cs = Sites /\ Len(rs) \in Nat /\ lo \in 1..(Len(rs) + 1)
      /\ hi \in (lo - 1)..Len(rs)
  BY LenProperties DEF Spliced
<1>2. ASSUME NEW s \in Sites
      PROVE  (IF cs[s].idx # None /\ cs[s].idx >= hi + 1 THEN Shifted(cs[s], len, d) ELSE cs[s])
                 \in CursorsOf(ns)
  <2>1. PICK i \in 0..Len(rs) : cs[s] = CursorAt(rs, i)
    BY DEF CursorsOf
  <2>2. cs[s].idx = i
    <3>1. CASE i = 0
      BY <2>1, <3>1, NoCursor
    <3>2. CASE i # 0
      <4>1. i \in Nat
        BY <1>1
      <4> QED BY <2>1, <3>2, <4>1, CursorAtIs
    <3> QED BY <3>1, <3>2
  <2>3. CASE i >= hi + 1
    <3>1. i \in (hi + 1)..Len(rs) /\ i \in Nat /\ i # 0 /\ i # None
      BY <1>1, <2>3 DEF None
    <3>2. cs[s] = Cursor(Start(rs, i, TRUE), Start(rs, i, FALSE), i)
      BY <2>1, <3>1, CursorAtIs
    <3>3. Shifted(cs[s], len, d) = Cursor(Start(rs, i, TRUE) + len, Start(rs, i, FALSE) + len, i + d)
      BY <3>2 DEF Shifted, Cursor
    <3>4. PICK j : j = i + d
      OBVIOUS
    <3>5. i \in (hi + 1)..Len(rs)
      BY <3>1
    <3>6. /\ CursorAt(ns, j) = CursorBy(rs, i, len, len, j)
          /\ CursorAt(ns, j) \in CursorsOf(ns)
      BY <3>4, <3>5, CursorMoves
    <3> QED BY <2>2, <2>3, <3>1, <3>3, <3>4, <3>6 DEF CursorBy
  <2>4. CASE ~(i >= hi + 1)
    <3>1. i \in 0..lo
      BY <1>1, <2>4
    <3>2. cs[s] \in CursorsOf(ns)
      BY <2>1, <3>1, CursorStays
    <3> QED BY <2>2, <2>4, <3>2
  <2> QED BY <2>3, <2>4
<1> QED BY <1>1, <1>2 DEF ShiftCursorsRight

-----------------------------------------------------------------------------
(* Insertion *)

\* A document as it should be: coalesced, all cursors exact, no assertion
\* failed.
DocOk(d) ==
    /\ d = [ranges |-> d.ranges, cursors |-> d.cursors, panicked |-> FALSE]
    /\ d.ranges \in Seq(Rng) /\ Alternates(d.ranges)
    /\ d.cursors \in [Sites -> CursorsOf(d.ranges)]

\* Internal position pos is in range i or at one of its ends.
Holds(rs, i, pos) ==
    /\ i \in 1..Len(rs) /\ pos \in Nat
    /\ Start(rs, i, FALSE) <= pos /\ pos <= Start(rs, i, FALSE) + rs[i].len

\* What apply_ins and the marks return.
Result(ns, cs, cur) == [doc |-> [ranges |-> ns, cursors |-> cs, panicked |-> FALSE], cur |-> cur]

\* The result of an operation on ranges rs after which the document is y
\* characters longer.
ResultOk(rs, res, y) ==
    /\ DocOk(res.doc) /\ res.cur \in CursorsOf(res.doc.ranges)
    /\ LengthOf(res.doc.ranges) = LengthOf(rs) + y

\* Text that is spliced in, at most one range being replaced.
LEMMA InsertSplice ==
    ASSUME NEW d, DocOk(d), NEW rs, rs = d.ranges, NEW ns, NEW lo, NEW hi, NEW mid,
           Spliced(rs, ns, lo, hi, mid), mid # << >>, hi <= lo, Alternates(ns),
           NEW by, Gap(lo, hi, mid, by), NEW len \in Nat, Growths(rs, lo, hi, mid, len, len),
           NEW from, from = hi + 1, NEW cur \in CursorsOf(ns)
    PROVE  ResultOk(rs, Result(ns, ShiftCursorsRight(d.cursors, from, len, by), cur), len)
<1>1. rs \in Seq(Rng) /\ d.cursors \in [Sites -> CursorsOf(rs)] /\ ns \in Seq(Rng)
  BY DEF DocOk, Spliced
<1>2. PICK cs : cs = ShiftCursorsRight(d.cursors, from, len, by)
  OBVIOUS
<1>3. cs \in [Sites -> CursorsOf(ns)]
  BY <1>1, <1>2, ShiftExact
<1>4. LengthOf(ns) = LengthOf(rs) + len
  BY <1>1, SplicedExtents
<1>5. PICK doc : doc = [ranges |-> ns, cursors |-> cs, panicked |-> FALSE]
  OBVIOUS
<1>6. DocOk(doc) /\ doc.ranges = ns
  BY <1>1, <1>3, <1>5 DEF DocOk
<1>7. Result(ns, cs, cur).doc = doc /\ Result(ns, cs, cur).cur = cur
  BY <1>5 DEF Result
<1> QED BY <1>2, <1>4, <1>6, <1>7 DEF ResultOk

\* The range a position is in ends where the next begins.
LEMMA HoldsIs ==
    ASSUME NEW rs \in Seq(Rng), NEW i, NEW pos, Holds(rs, i, pos)
    PROVE  /\ i \in 1..Len(rs) /\ rs[i] \in Rng /\ rs # << >> /\ Len(rs) \in Nat
           /\ Start(rs, i, FALSE) \in Nat /\ Start(rs, i, TRUE) \in Nat
           /\ Start(rs, i + 1, FALSE) = Start(rs, i, FALSE) + rs[i].len
           /\ Start(rs, i + 1, TRUE) = Start(rs, i, TRUE) + IF rs[i].live THEN rs[i].len ELSE 0
           /\ rs[i].len \in Nat /\ rs[i].len > 0 /\ rs[i].live \in BOOLEAN /\ pos \in Nat
<1>1. i \in 1..Len(rs) /\ Len(rs) \in Nat /\ pos \in Nat
  BY LenProperties DEF Holds
<1>2. rs[i] \in Rng /\ rs # << >> /\ i \in 1..(Len(rs) + 1)
  BY <1>1
<1>3. rs[i].len \in Nat /\ rs[i].len > 0 /\ rs[i].live \in BOOLEAN
  BY <1>2, ExtentIs
<1>4. /\ Extent(rs[i], FALSE) = rs[i].len
      /\ Extent(rs[i], TRUE) = IF rs[i].live THEN rs[i].len ELSE 0
  BY <1>2, ExtentIs
<1>5. Start(rs, i, FALSE) \in Nat /\ Start(rs, i, TRUE) \in Nat
  BY <1>2, StartIs
<1>6. Start(rs, i + 1, FALSE) = Start(rs, i, FALSE) + Extent(rs[i], FALSE)
  BY <1>1, StartIs
<1>7. Start(rs, i + 1, TRUE) = Start(rs, i, TRUE) + Extent(rs[i], TRUE)
  BY <1>1, StartIs
<1> QED BY <1>1, <1>2, <1>3, <1>4, <1>5, <1>6, <1>7

\* A live range made longer.
LEMMA LongerOk ==
    ASSUME NEW rs \in Seq(Rng), Alternates(rs), NEW j \in 1..Len(rs), NEW len \in Nat, rs[j].live,
           NEW r, r = RangeOf(TRUE, rs[j].len + len), NEW ns, ns = Longer(rs, j, len)
    PROVE  /\ Spliced(rs, ns, j, j, <<r>>) /\ <<r>> # << >> /\ Alternates(ns)
           /\ Gap(j, j, <<r>>, 0) /\ Growths(rs, j, j, <<r>>, len, len)
<1>1. r \in Rng /\ Spliced(rs, ns, j, j, <<r>>) /\ r.live = TRUE /\ r.len = rs[j].len + len
  BY LongerIs DEF RangeOf
<1>2. PICK mid : mid = <<r>>
  OBVIOUS
<1>3. /\ mid # << >> /\ Len(mid) = 1 /\ mid[1] = r /\ Alternates(mid)
      /\ \A e : Extents(mid, e) = Extent(r, e)
  BY <1>1, <1>2, Singleton
<1>4. j \in Nat /\ Len(rs) \in Nat /\ rs[j] \in Rng
  BY LenProperties
<1>5. Gap(j, j, mid, 0)
  BY <1>3, <1>4 DEF Gap
<1>6. rs[j].live = TRUE /\ rs[j].len \in Nat
  BY <1>4, ExtentIs
<1>7. ASSUME NEW e PROVE Growth(rs, j, j, mid, e, len)
  <2>1. Start(rs, j + 1, e) = Start(rs, j, e) + Extent(rs[j], e)
    BY StartIs
  <2>2. Start(rs, j, e) \in Nat
    <3>1. j \in 1..(Len(rs) + 1)
      BY <1>4
    <3> QED BY <3>1, StartIs
  <2>3. Extent(rs[j], e) = rs[j].len /\ Extent(r, e) = rs[j].len + len
    BY <1>1, <1>6 DEF Extent
  <2>4. Extents(mid, e) = rs[j].len + len
    BY <1>3, <2>3
  <2>5. len = Start(rs, j, e) + Extents(mid, e) - Start(rs, j + 1, e)
    BY <1>6, <2>1, <2>2, <2>3, <2>4
  <2> QED BY <2>5 DEF Growth
<1>8. Growths(rs, j, j, mid, len, len)
  <2>1. Growth(rs, j, j, mid, TRUE, len)
    BY <1>7, Zenon
  <2>2. Growth(rs, j, j, mid, FALSE, len)
    BY <1>7, Zenon
  <2> QED BY <2>1, <2>2 DEF Growths
<1>9. j > 1 => rs[j - 1].live # mid[1].live
  <2>1. SUFFICES ASSUME j > 1 PROVE rs[j - 1].live # r.live
    BY <1>3
  <2>2. PICK k : k = j - 1
    OBVIOUS
  <2>3. k \in 1..(Len(rs) - 1) /\ k + 1 = j
    BY <1>4, <2>1, <2>2
  <2>4. rs[k].live # rs[k + 1].live
    BY <2>3 DEF Alternates
  <2> QED BY <1>1, <1>6, <2>2, <2>3, <2>4
<1>10. j < Len(rs) => mid[Len(mid)].live # rs[j + 1].live
  <2>1. SUFFICES ASSUME j < Len(rs) PROVE r.live # rs[j + 1].live
    BY <1>3
  <2>2. j \in 1..(Len(rs) - 1)
    BY <1>4, <2>1
  <2>3. rs[j].live # rs[j + 1].live
    BY <2>2 DEF Alternates
  <2> QED BY <1>1, <1>6, <2>3
<1>11. Spliced(rs, ns, j, j, mid)
  BY <1>1, <1>2
<1>12. Alternates(ns)
  BY <1>3, <1>9, <1>10, <1>11, SplicedAlternates
<1> QED BY <1>2, <1>3, <1>5, <1>8, <1>11, <1>12

\* Where an insertion is made: with the cursor of a range that holds it.
InsAt(d, rs, i, pos, len, cur) ==
    /\ DocOk(d) /\ rs = d.ranges /\ Holds(rs, i, pos) /\ len \in Nat \ {0}
    /\ cur = CursorAt(rs, i)

InsFacts(d, rs, i, pos, len, cur) ==
    /\ DocOk(d) /\ rs = d.ranges /\ cur = CursorAt(rs, i)
    /\ rs \in Seq(Rng) /\ Alternates(rs) /\ d.panicked = FALSE /\ rs # << >>
    /\ i \in 1..Len(rs) /\ i \in Nat /\ i # 0 /\ Len(rs) \in Nat
    /\ cur.idx = i /\ cur.internal = Start(rs, i, FALSE) /\ cur.editor = Start(rs, i, TRUE)
    /\ len \in Nat /\ len > 0
    /\ Start(rs, i, FALSE) \in Nat /\ Start(rs, i, TRUE) \in Nat
    /\ rs[i] \in Rng /\ rs[i].len \in Nat /\ rs[i].len > 0 /\ pos \in Nat
    /\ cur.internal \in Nat /\ ~(pos < cur.internal) /\ ~(pos > cur.internal + rs[i].len)

LEMMA InsAtIs ==
    ASSUME NEW d, NEW rs, NEW i, NEW pos, NEW len, NEW cur, InsAt(d, rs, i, pos, len, cur)
    PROVE  InsFacts(d, rs, i, pos, len, cur)
<1>1. rs \in Seq(Rng) /\ Alternates(rs) /\ d.panicked = FALSE /\ rs = d.ranges
  BY DEF InsAt, DocOk
<1>2. Holds(rs, i, pos) /\ cur = CursorAt(rs, i) /\ DocOk(d)
  BY DEF InsAt
<1>3. len \in Nat /\ len > 0
  BY DEF InsAt
<1>4. /\ i \in 1..Len(rs) /\ rs[i] \in Rng /\ rs # << >> /\ Len(rs) \in Nat
      /\ Start(rs, i, FALSE) \in Nat /\ Start(rs, i, TRUE) \in Nat
      /\ rs[i].len \in Nat /\ rs[i].len > 0 /\ pos \in Nat
  BY <1>1, <1>2, HoldsIs
<1>5. i \in Nat /\ i # 0
  BY <1>4
<1>6. cur.idx = i /\ cur.internal = Start(rs, i, FALSE) /\ cur.editor = Start(rs, i, TRUE)
  BY <1>2, <1>5, CursorAtIs
<1>7. PICK b : b = Start(rs, i, FALSE)
  OBVIOUS
<1>8. b <= pos /\ pos <= b + rs[i].len
  BY <1>2, <1>7 DEF Holds
<1>9. b \in Nat /\ cur.internal = b
  BY <1>4, <1>6, <1>7
<1>10. ~(pos < b) /\ ~(pos > b + rs[i].len)
  BY <1>4, <1>8, <1>9
<1> QED BY <1>1, <1>2, <1>3, <1>4, <1>5, <1>6, <1>9, <1>10 DEF InsFacts

\* The arms of apply_ins.
LEMMA InsInLive ==
    ASSUME NEW d, NEW rs, NEW i, NEW pos, NEW len, NEW cur, InsAt(d, rs, i, pos, len, cur),
           rs[i].live
    PROVE  ResultOk(rs, ApplyIns(d, pos, len, cur), len)
<1>1. InsFacts(d, rs, i, pos, len, cur)
  BY InsAtIs
<1>2. /\ DocOk(d) /\ rs = d.ranges /\ cur = CursorAt(rs, i)
      /\ rs \in Seq(Rng) /\ Alternates(rs) /\ d.panicked = FALSE /\ rs # << >>
      /\ i \in 1..Len(rs) /\ i \in Nat /\ len \in Nat
      /\ cur.idx = i /\ ~(pos < cur.internal) /\ ~(pos > cur.internal + rs[i].len)
  BY <1>1 DEF InsFacts
<1>3. PICK ns, r : ns = Longer(rs, i, len) /\ r = RangeOf(TRUE, rs[i].len + len)
  OBVIOUS
<1>4. /\ Spliced(rs, ns, i, i, <<r>>) /\ <<r>> # << >> /\ Alternates(ns)
      /\ Gap(i, i, <<r>>, 0) /\ Growths(rs, i, i, <<r>>, len, len)
  BY <1>2, <1>3, LongerOk
<1>5. cur \in CursorsOf(ns)
  <2>1. i \in 0..i
    BY <1>2
  <2> QED BY <1>2, <1>4, <2>1, CursorStays
<1>6. ApplyIns(d, pos, len, cur) = Result(ns, ShiftCursorsRight(d.cursors, i + 1, len, 0), cur)
  BY <1>2, <1>3 DEF ApplyIns, Result
<1>7. i <= i
  BY <1>2
<1> QED BY <1>2, <1>4, <1>5, <1>6, <1>7, InsertSplice

LEMMA InsAtBegOfDead ==
    ASSUME NEW d, NEW rs, NEW i, NEW pos, NEW len, NEW cur, InsAt(d, rs, i, pos, len, cur),
           ~rs[i].live, pos = cur.internal, i > 1
    PROVE  ResultOk(rs, ApplyIns(d, pos, len, cur), len)
<1>1. InsFacts(d, rs, i, pos, len, cur)
  BY InsAtIs
<1>2. /\ DocOk(d) /\ rs = d.ranges /\ cur = CursorAt(rs, i)
      /\ rs \in Seq(Rng) /\ Alternates(rs) /\ d.panicked = FALSE /\ rs # << >>
      /\ i \in 1..Len(rs) /\ i \in Nat /\ len \in Nat /\ Len(rs) \in Nat /\ i # 0
      /\ rs[i].len \in Nat /\ rs[i].len > 0 /\ cur.internal \in Nat
      /\ cur.idx = i /\ ~(pos < cur.internal) /\ ~(pos > cur.internal + rs[i].len)
  BY <1>1 DEF InsFacts
<1>3. PICK j : j = i - 1
  OBVIOUS
<1>4. j \in 1..Len(rs) /\ j \in 1..(Len(rs) - 1) /\ j + 1 = i /\ j <= j
  BY <1>2, <1>3
<1>5. rs[j].live
  <2>1. rs[j].live # rs[j + 1].live
    BY <1>2, <1>4 DEF Alternates
  <2>2. rs[j] \in Rng
    BY <1>2, <1>4
  <2>3. rs[j].live \in BOOLEAN
    BY <2>2, ExtentIs
  <2>4. rs[i] \in Rng
    BY <1>2
  <2>5. rs[i].live \in BOOLEAN
    BY <2>4, ExtentIs
  <2> QED BY <1>4, <2>1, <2>3, <2>5
<1>6. PICK ns, r : ns = Longer(rs, j, len) /\ r = RangeOf(TRUE, rs[j].len + len)
  OBVIOUS
<1>7. /\ Spliced(rs, ns, j, j, <<r>>) /\ <<r>> # << >> /\ Alternates(ns)
      /\ Gap(j, j, <<r>>, 0) /\ Growths(rs, j, j, <<r>>, len, len)
  BY <1>2, <1>4, <1>5, <1>6, LongerOk
<1>8. PICK c : c = Shifted(cur, len, 0)
  OBVIOUS
<1>9. c \in CursorsOf(ns)
  <2>1. i \in (j + 1)..Len(rs) /\ i = i + 0
    BY <1>2, <1>4
  <2>2. CursorAt(ns, i) = CursorBy(rs, i, len, len, i) /\ CursorAt(ns, i) \in CursorsOf(ns)
    BY <1>2, <1>7, <2>1, CursorMoves
  <2>3. cur = Cursor(Start(rs, i, TRUE), Start(rs, i, FALSE), i)
    BY <1>2, CursorAtIs
  <2>4. c = CursorBy(rs, i, len, len, i)
    BY <1>2, <1>8, <2>3 DEF Shifted, Cursor, CursorBy
  <2> QED BY <2>2, <2>4
<1>10. ApplyIns(d, pos, len, cur) = Result(ns, ShiftCursorsRight(d.cursors, i, len, 0), c)
  <2>1. pos # cur.internal + rs[i].len /\ i # 1
    BY <1>2
  <2>2. rs[i - 1].live /\ Longer(rs, i - 1, len) = ns
    BY <1>3, <1>5, <1>6
  <2>3. /\ cur.idx = i /\ d.ranges = rs /\ d.panicked = FALSE
        /\ ~(pos < cur.internal) /\ ~(pos > cur.internal + rs[i].len) /\ rs # << >>
    BY <1>2
  <2> QED BY <1>8, <2>1, <2>2, <2>3 DEF ApplyIns, Result
<1> QED BY <1>2, <1>4, <1>7, <1>9, <1>10, InsertSplice

\* A live range put before range lo, or at the end.
LEMMA NewRange ==
    ASSUME NEW rs \in Seq(Rng), NEW lo \in 1..(Len(rs) + 1), NEW hi, hi = lo - 1,
           NEW len \in Nat, len > 0, NEW r, r = RangeOf(TRUE, len)
    PROVE  /\ r \in Rng /\ r.live = TRUE /\ <<r>> # << >> /\ Alternates(<<r>>)
           /\ Len(<<r>>) = 1 /\ <<r>>[1] = r
           /\ Gap(lo, hi, <<r>>, 1) /\ Growths(rs, lo, hi, <<r>>, len, len)
<1>1. r \in Rng /\ r.live = TRUE /\ r.len = len
  BY DEF RangeOf, Rng
<1>2. PICK mid : mid = <<r>>
  OBVIOUS
<1>3. /\ mid # << >> /\ Len(mid) = 1 /\ mid[1] = r /\ Alternates(mid)
      /\ \A e : Extents(mid, e) = Extent(r, e)
  BY <1>1, <1>2, Singleton
<1>4. lo \in Nat /\ hi + 1 = lo /\ 1 = 1 - (hi - lo + 1)
  <2>1. Len(rs) \in Nat
    BY LenProperties
  <2> QED BY <2>1
<1>5. Gap(lo, hi, mid, 1)
  BY <1>3, <1>4 DEF Gap
<1>6. ASSUME NEW e PROVE Growth(rs, lo, hi, mid, e, len)
  <2>1. Start(rs, lo, e) \in Nat
    BY StartIs
  <2>2. Extents(mid, e) = len
    BY <1>1, <1>3 DEF Extent
  <2>3. len = Start(rs, lo, e) + Extents(mid, e) - Start(rs, hi + 1, e)
    BY <1>4, <2>1, <2>2
  <2> QED BY <2>3 DEF Growth
<1>7. Growth(rs, lo, hi, mid, TRUE, len)
  BY <1>6, Zenon
<1>8. Growth(rs, lo, hi, mid, FALSE, len)
  BY <1>6, Zenon
<1> QED BY <1>1, <1>2, <1>3, <1>5, <1>7, <1>8 DEF Growths

LEMMA InsBeforeDead ==
    ASSUME NEW d, NEW rs, NEW i, NEW pos, NEW len, NEW cur, InsAt(d, rs, i, pos, len, cur),
           ~rs[i].live, pos = cur.internal, i = 1
    PROVE  ResultOk(rs, ApplyIns(d, pos, len, cur), len)
<1>1. InsFacts(d, rs, i, pos, len, cur)
  BY InsAtIs
<1>2. /\ DocOk(d) /\ rs = d.ranges /\ cur = CursorAt(rs, i)
      /\ rs \in Seq(Rng) /\ Alternates(rs) /\ d.panicked = FALSE /\ rs # << >>
      /\ i \in 1..Len(rs) /\ i \in Nat /\ len \in Nat /\ len > 0 /\ Len(rs) \in Nat /\ i # 0
      /\ rs[i].len \in Nat /\ rs[i].len > 0 /\ cur.internal \in Nat /\ rs[i] \in Rng
      /\ cur.idx = i /\ ~(pos < cur.internal) /\ ~(pos > cur.internal + rs[i].len)
  BY <1>1 DEF InsFacts
<1>3. PICK r, mid, ns, h : /\ r = RangeOf(TRUE, len) /\ mid = <<r>> /\ ns = mid \o rs /\ h = 0
  OBVIOUS
<1>4. i \in 1..(Len(rs) + 1) /\ h = i - 1 /\ h <= i /\ i = h + 1
  BY <1>2, <1>3
<1>5. /\ r \in Rng /\ r.live = TRUE /\ mid # << >> /\ Alternates(mid) /\ Len(mid) = 1 /\ mid[1] = r
      /\ Gap(i, h, mid, 1) /\ Growths(rs, i, h, mid, len, len)
  BY <1>2, <1>3, <1>4, NewRange
<1>6. Spliced(rs, ns, i, h, mid)
  BY <1>2, <1>3, <1>5, PrependedIs
<1>7. Alternates(ns)
  <2>1. mid[Len(mid)].live # rs[h + 1].live
    BY <1>2, <1>4, <1>5
  <2>2. ~(i > 1)
    OBVIOUS
  <2> QED BY <1>2, <1>5, <1>6, <2>1, <2>2, SplicedAlternates
<1>8. PICK c, by, j : c = Shifted(cur, len, by) /\ by = 1 /\ j = i + by
  OBVIOUS
<1>9. c \in CursorsOf(ns)
  <2>1. i \in (h + 1)..Len(rs) /\ Gap(i, h, mid, by)
    BY <1>2, <1>4, <1>5, <1>8
  <2>2. CursorAt(ns, j) = CursorBy(rs, i, len, len, j) /\ CursorAt(ns, j) \in CursorsOf(ns)
    BY <1>2, <1>5, <1>6, <1>8, <2>1, CursorMoves
  <2>3. cur = Cursor(Start(rs, i, TRUE), Start(rs, i, FALSE), i)
    BY <1>2, CursorAtIs
  <2>4. c = CursorBy(rs, i, len, len, j)
    BY <1>8, <2>3 DEF Shifted, Cursor, CursorBy
  <2> QED BY <2>2, <2>4
<1>10. ApplyIns(d, pos, len, cur) = Result(ns, ShiftCursorsRight(d.cursors, i, len, by), c)
  <2>1. pos # cur.internal + rs[i].len /\ ~(i > 1) /\ i = 1 /\ pos = cur.internal /\ ~rs[i].live
    BY <1>2
  <2>2. <<RangeOf(TRUE, len)>> \o rs = ns /\ Shifted(cur, len, 1) = c /\ by = 1
    BY <1>3, <1>8
  <2>3. /\ cur.idx = i /\ d.ranges = rs /\ d.panicked = FALSE
        /\ ~(pos < cur.internal) /\ ~(pos > cur.internal + rs[i].len) /\ rs # << >>
    BY <1>2
  <2>4. ApplyIns(d, pos, len, cur) =
          [doc |-> [ranges |-> <<RangeOf(TRUE, len)>> \o rs,
                    cursors |-> ShiftCursorsRight(d.cursors, i, len, 1), panicked |-> FALSE],
           cur |-> Shifted(cur, len, 1)]
    BY <2>1, <2>3 DEF ApplyIns
  <2> QED BY <2>2, <2>4 DEF Result
<1>11. Gap(i, h, mid, by)
  BY <1>5, <1>8
<1> QED BY <1>2, <1>4, <1>5, <1>6, <1>7, <1>9, <1>10, <1>11, InsertSplice

LEMMA InsAtEndOfDead ==
    ASSUME NEW d, NEW rs, NEW i, NEW pos, NEW len, NEW cur, InsAt(d, rs, i, pos, len, cur),
           ~rs[i].live, pos = cur.internal + rs[i].len, i < Len(rs)
    PROVE  ResultOk(rs, ApplyIns(d, pos, len, cur), len)
<1>1. InsFacts(d, rs, i, pos, len, cur)
  BY InsAtIs
<1>2. /\ DocOk(d) /\ rs = d.ranges /\ cur = CursorAt(rs, i)
      /\ rs \in Seq(Rng) /\ Alternates(rs) /\ d.panicked = FALSE /\ rs # << >>
      /\ i \in 1..Len(rs) /\ i \in Nat /\ len \in Nat /\ Len(rs) \in Nat /\ i # 0
      /\ rs[i].len \in Nat /\ rs[i].len > 0 /\ cur.internal \in Nat
      /\ cur.idx = i /\ ~(pos < cur.internal) /\ ~(pos > cur.internal + rs[i].len)
  BY <1>1 DEF InsFacts
<1>3. PICK j, f : j = i + 1 /\ f = i + 2
  OBVIOUS
<1>4. /\ j \in 1..Len(rs) /\ i \in 1..(Len(rs) - 1) /\ j <= j /\ f = j + 1 /\ i \in 0..j
      /\ i # Len(rs)
  BY <1>2, <1>3
<1>5. rs[j].live
  <2>1. rs[i].live # rs[i + 1].live
    BY <1>2, <1>4 DEF Alternates
  <2>2. rs[j] \in Rng
    BY <1>2, <1>4
  <2>3. rs[j].live \in BOOLEAN
    BY <2>2, ExtentIs
  <2>4. rs[i] \in Rng
    BY <1>2
  <2>5. rs[i].live \in BOOLEAN
    BY <2>4, ExtentIs
  <2> QED BY <1>3, <2>1, <2>3, <2>5
<1>6. PICK ns, r : ns = Longer(rs, j, len) /\ r = RangeOf(TRUE, rs[j].len + len)
  OBVIOUS
<1>7. /\ Spliced(rs, ns, j, j, <<r>>) /\ <<r>> # << >> /\ Alternates(ns)
      /\ Gap(j, j, <<r>>, 0) /\ Growths(rs, j, j, <<r>>, len, len)
  BY <1>2, <1>4, <1>5, <1>6, LongerOk
<1>8. cur \in CursorsOf(ns)
  BY <1>2, <1>4, <1>7, CursorStays
<1>9. ApplyIns(d, pos, len, cur) = Result(ns, ShiftCursorsRight(d.cursors, f, len, 0), cur)
  <2>1. pos # cur.internal
    BY <1>2
  <2>2. rs[i + 1].live /\ Longer(rs, i + 1, len) = ns /\ f = i + 2 /\ i # Len(rs)
    BY <1>3, <1>4, <1>5, <1>6
  <2>3. /\ cur.idx = i /\ d.ranges = rs /\ d.panicked = FALSE
        /\ ~(pos < cur.internal) /\ ~(pos > cur.internal + rs[i].len) /\ rs # << >>
    BY <1>2
  <2> QED BY <2>1, <2>2, <2>3 DEF ApplyIns, Result
<1> QED BY <1>2, <1>4, <1>7, <1>8, <1>9, InsertSplice

LEMMA InsAfterDead ==
    ASSUME NEW d, NEW rs, NEW i, NEW pos, NEW len, NEW cur, InsAt(d, rs, i, pos, len, cur),
           ~rs[i].live, pos = cur.internal + rs[i].len, i = Len(rs)
    PROVE  ResultOk(rs, ApplyIns(d, pos, len, cur), len)
<1>1. InsFacts(d, rs, i, pos, len, cur)
  BY InsAtIs
<1>2. /\ DocOk(d) /\ rs = d.ranges /\ cur = CursorAt(rs, i)
      /\ rs \in Seq(Rng) /\ Alternates(rs) /\ d.panicked = FALSE /\ rs # << >>
      /\ i \in 1..Len(rs) /\ i \in Nat /\ len \in Nat /\ len > 0 /\ Len(rs) \in Nat /\ i # 0
      /\ rs[i].len \in Nat /\ rs[i].len > 0 /\ cur.internal \in Nat /\ rs[i] \in Rng
      /\ cur.idx = i /\ ~(pos < cur.internal) /\ ~(pos > cur.internal + rs[i].len)
  BY <1>1 DEF InsFacts
<1>3. PICK r, mid, ns, j, by : /\ r = RangeOf(TRUE, len) /\ mid = <<r>> /\ ns = Append(rs, r)
                               /\ j = i + 1 /\ by = 1
  OBVIOUS
<1>4. /\ j \in 1..(Len(rs) + 1) /\ i = j - 1 /\ i <= j /\ j = i + 1 /\ j = Len(rs) + 1
      /\ i \in 0..j /\ ~(i < Len(rs)) /\ j > 1
  BY <1>2, <1>3
<1>5. /\ r \in Rng /\ r.live = TRUE /\ mid # << >> /\ Alternates(mid) /\ Len(mid) = 1 /\ mid[1] = r
      /\ Gap(j, i, mid, 1) /\ Growths(rs, j, i, mid, len, len)
  BY <1>2, <1>3, <1>4, NewRange
<1>6. Spliced(rs, ns, j, i, mid)
  <2>1. Spliced(rs, Append(rs, r), Len(rs) + 1, Len(rs), <<r>>)
    BY <1>2, <1>5, AppendedIs
  <2> QED BY <1>3, <1>4, <2>1
<1>7. Alternates(ns)
  <2>1. rs[j - 1].live # mid[1].live
    BY <1>2, <1>4, <1>5
  <2> QED BY <1>2, <1>4, <1>5, <1>6, <2>1, SplicedAlternates
<1>8. cur \in CursorsOf(ns)
  BY <1>2, <1>4, <1>5, <1>6, CursorStays
<1>9. ShiftCursorsRight(d.cursors, j, len, 0) = ShiftCursorsRight(d.cursors, j, len, by)
  <2>1. d.cursors \in [Sites -> CursorsOf(rs)]
    BY <1>2 DEF DocOk
  <2>2. ASSUME NEW s \in Sites PROVE ~(d.cursors[s].idx # None /\ d.cursors[s].idx >= j)
    <3>1. PICK k \in 0..Len(rs) : d.cursors[s] = CursorAt(rs, k)
      BY <2>1 DEF CursorsOf
    <3>2. d.cursors[s].idx = k
      <4>1. CASE k = 0
        BY <3>1, <4>1, NoCursor
      <4>2. CASE k # 0
        <5>1. k \in Nat
          BY <1>2
        <5> QED BY <3>1, <4>2, <5>1, CursorAtIs
      <4> QED BY <4>1, <4>2
    <3>3. ~(k >= j)
      BY <1>2, <1>4
    <3> QED BY <3>2, <3>3
  <2>3. DOMAIN d.cursors = Sites
    BY <2>1
  <2> QED BY <2>2, <2>3 DEF ShiftCursorsRight
<1>10. ApplyIns(d, pos, len, cur) = Result(ns, ShiftCursorsRight(d.cursors, j, len, 0), cur)
  <2>1. pos # cur.internal
    BY <1>2
  <2>2. Append(rs, RangeOf(TRUE, len)) = ns /\ j = i + 1 /\ ~(i < Len(rs))
    BY <1>3, <1>4
  <2>3. /\ cur.idx = i /\ d.ranges = rs /\ d.panicked = FALSE
        /\ ~(pos < cur.internal) /\ ~(pos > cur.internal + rs[i].len) /\ rs # << >>
    BY <1>2
  <2> QED BY <2>1, <2>2, <2>3 DEF ApplyIns, Result
<1>11. Gap(j, i, mid, by)
  BY <1>3, <1>5
<1> QED BY <1>2, <1>4, <1>5, <1>6, <1>7, <1>8, <1>9, <1>10, <1>11, InsertSplice

\* Dead text that is split for live text in it.
LEMMA SplitRanges ==
    ASSUME NEW rs \in Seq(Rng), Alternates(rs), NEW i \in 1..Len(rs), ~rs[i].live,
           NEW u \in Nat, NEW len \in Nat, NEW v \in Nat, u > 0, len > 0, v > 0,
           rs[i].len = u + v,
           NEW mid, mid = <<RangeOf(FALSE, u), RangeOf(TRUE, len), RangeOf(FALSE, v)>>
    PROVE  /\ mid \in Seq(Rng) /\ mid # << >> /\ Len(mid) = 3 /\ Alternates(mid)
           /\ ~mid[1].live /\ ~mid[3].live /\ mid[1] = RangeOf(FALSE, u)
           /\ Gap(i, i, mid, 2) /\ Growths(rs, i, i, mid, len, len)
<1>1. PICK a, b, c : a = RangeOf(FALSE, u) /\ b = RangeOf(TRUE, len) /\ c = RangeOf(FALSE, v)
  OBVIOUS
<1>2. /\ a \in Rng /\ b \in Rng /\ c \in Rng /\ a.live = FALSE /\ b.live = TRUE /\ c.live = FALSE
      /\ a.len = u /\ b.len = len /\ c.len = v
  BY <1>1 DEF RangeOf, Rng
<1>3. PICK x, y : x = <<a>> /\ y = Append(x, b)
  OBVIOUS
<1>4. /\ x \in Seq(Rng) /\ Len(x) = 1 /\ x[1] = a /\ x # << >> /\ Alternates(x)
      /\ \A e : Extents(x, e) = Extent(a, e)
  BY <1>2, <1>3, Singleton
<1>5. PICK two, three : two = Len(x) + 1 /\ three = Len(y) + 1
  OBVIOUS
<1>6. /\ y \in Seq(Rng) /\ Len(y) = two /\ y[1] = a /\ y[two] = b /\ y # << >> /\ Alternates(y)
      /\ \A e : Extents(y, e) = Extents(x, e) + Extent(b, e)
  <2>1. x[Len(x)].live # b.live
    BY <1>2, <1>4
  <2>2. /\ Append(x, b) \in Seq(Rng) /\ Len(Append(x, b)) = Len(x) + 1
        /\ Append(x, b)[1] = x[1] /\ Append(x, b)[Len(x) + 1] = b
        /\ Alternates(Append(x, b)) /\ Append(x, b) # << >>
        /\ \A e : Extents(Append(x, b), e) = Extents(x, e) + Extent(b, e)
    BY <1>2, <1>4, <2>1, OneMore
  <2>3. y \in Seq(Rng) /\ Len(y) = two /\ y[1] = a /\ y[two] = b /\ y # << >> /\ Alternates(y)
    BY <1>3, <1>4, <1>5, <2>2
  <2>4. \A e : Extents(y, e) = Extents(x, e) + Extent(b, e)
    BY <1>3, <2>2
  <2> QED BY <2>3, <2>4
<1>7. mid = Append(y, c)
  <2>1. /\ <<a, b, c>> \in Seq(Rng) /\ Len(<<a, b, c>>) = 3
        /\ <<a, b, c>>[1] = a /\ <<a, b, c>>[2] = b /\ <<a, b, c>>[3] = c
    BY <1>2
  <2>2. PICK z : z = Append(y, c)
    OBVIOUS
  <2>3. z \in Seq(Rng) /\ Len(z) = three /\ z[three] = c /\ \A k \in 1..Len(y) : z[k] = y[k]
    BY <1>2, <1>6, <1>5, <2>2, AppendProperties
  <2>4. two = 2 /\ three = 3 /\ Len(y) = 2
    BY <1>4, <1>6, <1>5
  <2>5. z[1] = a /\ z[2] = b /\ z[3] = c
    BY <1>6, <2>3, <2>4
  <2>6. \A k \in 1..3 : k = 1 \/ k = 2 \/ k = 3
    OBVIOUS
  <2>7. \A k \in 1..Len(z) : z[k] = <<a, b, c>>[k]
    BY <2>1, <2>3, <2>4, <2>5, <2>6
  <2>8. z = <<a, b, c>>
    BY <2>1, <2>3, <2>4, <2>7, SeqEqual
  <2> QED BY <1>1, <2>2, <2>8
<1>8. /\ mid \in Seq(Rng) /\ Len(mid) = three /\ mid[1] = a /\ mid[three] = c
      /\ mid # << >> /\ Alternates(mid)
      /\ \A e : Extents(mid, e) = Extents(y, e) + Extent(c, e)
  <2>1. y[Len(y)].live # c.live
    BY <1>2, <1>6
  <2>2. /\ Append(y, c) \in Seq(Rng) /\ Len(Append(y, c)) = Len(y) + 1
        /\ Append(y, c)[1] = y[1] /\ Append(y, c)[Len(y) + 1] = c
        /\ Alternates(Append(y, c)) /\ Append(y, c) # << >>
        /\ \A e : Extents(Append(y, c), e) = Extents(y, e) + Extent(c, e)
    BY <1>2, <1>6, <2>1, OneMore
  <2>3. /\ mid \in Seq(Rng) /\ Len(mid) = three /\ mid[1] = a /\ mid[three] = c
        /\ mid # << >> /\ Alternates(mid)
    BY <1>6, <1>7, <1>5, <2>2
  <2>4. \A e : Extents(mid, e) = Extents(y, e) + Extent(c, e)
    BY <1>7, <2>2
  <2> QED BY <2>3, <2>4
<1>9. i \in Nat /\ Len(rs) \in Nat /\ rs[i] \in Rng /\ i \in 1..(Len(rs) + 1)
  BY LenProperties
<1>10. three = 3
  BY <1>4, <1>6, <1>5
<1>11. Gap(i, i, mid, 2)
  BY <1>8, <1>9, <1>10 DEF Gap
<1>12. rs[i].live = FALSE
  BY <1>9, ExtentIs
<1>13. ASSUME NEW e PROVE Growth(rs, i, i, mid, e, len)
  <2>1. Start(rs, i + 1, e) = Start(rs, i, e) + Extent(rs[i], e)
    BY StartIs
  <2>2. Start(rs, i, e) \in Nat
    BY <1>9, StartIs
  <2>3. Extents(mid, e) = Extent(a, e) + Extent(b, e) + Extent(c, e)
    <3>1. Extents(mid, e) = Extents(y, e) + Extent(c, e)
      BY <1>8
    <3>2. Extents(y, e) = Extents(x, e) + Extent(b, e)
      BY <1>6
    <3>3. Extents(x, e) = Extent(a, e)
      BY <1>4
    <3> QED BY <3>1, <3>2, <3>3
  <2>4. /\ Extent(a, e) = (IF e THEN 0 ELSE u) /\ Extent(b, e) = len
        /\ Extent(c, e) = (IF e THEN 0 ELSE v) /\ Extent(rs[i], e) = (IF e THEN 0 ELSE u + v)
    BY <1>2, <1>12 DEF Extent
  <2>5. PICK p, q, s : p = Start(rs, i, e) /\ q = Start(rs, i + 1, e) /\ s = Extents(mid, e)
    OBVIOUS
  <2>6. p \in Nat /\ q = p + (IF e THEN 0 ELSE u + v)
    BY <2>1, <2>2, <2>4, <2>5
  <2>7. s = (IF e THEN 0 ELSE u) + len + (IF e THEN 0 ELSE v)
    BY <2>3, <2>4, <2>5
  <2>8. len = p + s - q
    BY <2>6, <2>7
  <2> QED BY <2>5, <2>8 DEF Growth
<1>14. Growth(rs, i, i, mid, TRUE, len)
  BY <1>13, Zenon
<1>15. Growth(rs, i, i, mid, FALSE, len)
  BY <1>13, Zenon
<1> QED BY <1>1, <1>2, <1>8, <1>11, <1>14, <1>15, <1>10 DEF Growths

LEMMA InsInDead ==
    ASSUME NEW d, NEW rs, NEW i, NEW pos, NEW len, NEW cur, InsAt(d, rs, i, pos, len, cur),
           ~rs[i].live, pos # cur.internal, pos # cur.internal + rs[i].len
    PROVE  ResultOk(rs, ApplyIns(d, pos, len, cur), len)
<1>1. InsFacts(d, rs, i, pos, len, cur)
  BY InsAtIs
<1>2. /\ DocOk(d) /\ rs = d.ranges /\ cur = CursorAt(rs, i)
      /\ rs \in Seq(Rng) /\ Alternates(rs) /\ d.panicked = FALSE /\ rs # << >>
      /\ i \in 1..Len(rs) /\ i \in Nat /\ len \in Nat /\ len > 0 /\ Len(rs) \in Nat /\ i # 0
      /\ rs[i].len \in Nat /\ rs[i].len > 0 /\ cur.internal \in Nat /\ rs[i] \in Rng /\ pos \in Nat
      /\ cur.idx = i /\ ~(pos < cur.internal) /\ ~(pos > cur.internal + rs[i].len)
      /\ cur.internal = Start(rs, i, FALSE) /\ cur.editor = Start(rs, i, TRUE)
  BY <1>1 DEF InsFacts
<1>3. PICK beg, g : beg = cur.internal /\ g = rs[i].len
  OBVIOUS
<1>4. PICK u, v : u = pos - beg /\ v = (beg + g) - pos
  OBVIOUS
<1>5. u \in Nat /\ v \in Nat /\ u > 0 /\ v > 0 /\ rs[i].len = u + v /\ beg + u = pos
  <2>1. /\ beg \in Nat /\ g \in Nat /\ pos \in Nat /\ ~(pos < beg) /\ ~(pos > beg + g)
        /\ pos # beg /\ pos # beg + g
    BY <1>2, <1>3
  <2>2. u \in Nat /\ v \in Nat /\ u > 0 /\ v > 0
    BY <1>4, <2>1
  <2>3. g = u + v /\ beg + u = pos
    BY <1>4, <2>1
  <2> QED BY <1>3, <2>2, <2>3
<1>6. PICK mid : mid = <<RangeOf(FALSE, u), RangeOf(TRUE, len), RangeOf(FALSE, v)>>
  OBVIOUS
<1>7. /\ mid \in Seq(Rng) /\ mid # << >> /\ Len(mid) = 3 /\ Alternates(mid)
      /\ ~mid[1].live /\ ~mid[3].live /\ mid[1] = RangeOf(FALSE, u)
      /\ Gap(i, i, mid, 2) /\ Growths(rs, i, i, mid, len, len)
  <2>1. rs \in Seq(Rng) /\ Alternates(rs) /\ i \in 1..Len(rs) /\ len \in Nat /\ len > 0
    BY <1>2
  <2>2. u \in Nat /\ v \in Nat /\ u > 0 /\ v > 0 /\ rs[i].len = u + v
    BY <1>5
  <2> QED BY <1>6, <2>1, <2>2, SplitRanges, ZenonT(20)
<1>8. PICK ns : ns = SubSeq(rs, 1, i - 1) \o mid \o SubSeq(rs, i + 1, Len(rs))
  OBVIOUS
<1>9. Spliced(rs, ns, i, i, mid) /\ i <= i
  <2>1. i \in 1..(Len(rs) + 1) /\ i \in (i - 1)..Len(rs) /\ i <= i
    BY <1>2
  <2> QED BY <1>2, <1>7, <1>8, <2>1, SpliceIs
<1>10. Alternates(ns)
  <2>1. ASSUME NEW k \in 1..Len(rs) PROVE rs[k].live \in BOOLEAN
    <3>1. rs[k] \in Rng
      BY <1>2
    <3> QED BY <3>1, ExtentIs
  <2>2. mid[1] \in Rng /\ mid[3] \in Rng
    <3>1. PICK o, n : o = 1 /\ n = 3
      OBVIOUS
    <3>2. o \in 1..Len(mid) /\ n \in 1..Len(mid) /\ mid \in Seq(Rng)
      BY <1>7, <3>1
    <3>3. mid[o] \in Rng /\ mid[n] \in Rng
      BY <3>2
    <3> QED BY <3>1, <3>3
  <2>3. mid[1].live \in BOOLEAN /\ mid[3].live \in BOOLEAN
    BY <2>2, ExtentIs
  <2>4. i > 1 => rs[i - 1].live # mid[1].live
    <3>1. SUFFICES ASSUME i > 1 PROVE rs[i - 1].live # mid[1].live
      OBVIOUS
    <3>2. PICK k : k = i - 1
      OBVIOUS
    <3>3. k \in 1..(Len(rs) - 1) /\ k + 1 = i /\ k \in 1..Len(rs)
      BY <1>2, <3>1, <3>2
    <3>4. rs[k].live # rs[k + 1].live
      BY <1>2, <3>3 DEF Alternates
    <3> QED BY <1>2, <1>7, <2>1, <2>3, <3>2, <3>3, <3>4
  <2>5. i < Len(rs) => mid[Len(mid)].live # rs[i + 1].live
    <3>1. SUFFICES ASSUME i < Len(rs) PROVE mid[3].live # rs[i + 1].live
      BY <1>7
    <3>2. PICK k : k = i + 1
      OBVIOUS
    <3>3. i \in 1..(Len(rs) - 1) /\ k \in 1..Len(rs)
      BY <1>2, <3>1, <3>2
    <3>4. rs[i].live # rs[i + 1].live
      BY <1>2, <3>3 DEF Alternates
    <3> QED BY <1>2, <1>7, <2>1, <2>3, <3>2, <3>3, <3>4
  <2> QED BY <1>2, <1>7, <1>9, <2>4, <2>5, SplicedAlternates
<1>11. PICK c, j, by, two : c = Cursor(cur.editor, pos, j) /\ j = i + 1 /\ by = 2 /\ two = 2
  OBVIOUS
<1>12. c \in CursorsOf(ns)
  <2>1. ASSUME NEW e PROVE Start(ns, j, e) = Start(rs, i, e) + (IF e THEN 0 ELSE u)
    <3>1. PICK x : x = Start(rs, i, e) + Extents(mid, e) - Start(rs, i + 1, e)
      OBVIOUS
    <3>2. Growth(rs, i, i, mid, e, x)
      BY <3>1 DEF Growth
    <3>3. Begin(mid, ns, e, 1, Len(mid) + 1, i - 1, Start(rs, i, e))
      BY <1>2, <1>7, <1>9, <3>2, SplicedStarts
    <3>4. two \in 1..(Len(mid) + 1) /\ two + (i - 1) = j
      BY <1>2, <1>7, <1>11
    <3>5. Start(ns, two + (i - 1), e) = Start(mid, two, e) + Start(rs, i, e)
      BY <3>3, <3>4 DEF Begin
    <3>6. Start(mid, two, e) = Extent(mid[1], e)
      <4>1. PICK o : o = 1
        OBVIOUS
      <4>2. o \in 1..Len(mid) /\ o + 1 = two
        BY <1>7, <1>11, <4>1
      <4>3. Start(mid, o + 1, e) = Start(mid, o, e) + Extent(mid[o], e)
        BY <1>7, <4>2, StartIs
      <4>4. Start(mid, o, e) = 0
        BY <1>7, <4>1, StartIs
      <4>5. mid[o] \in Rng
        BY <1>7, <4>2
      <4>6. Extent(mid[o], e) \in Nat
        BY <4>5, ExtentIs
      <4> QED BY <4>1, <4>2, <4>3, <4>4, <4>6
    <3>7. Extent(mid[1], e) = IF e THEN 0 ELSE u
      BY <1>7 DEF Extent, RangeOf
    <3>8. Start(rs, i, e) \in Nat
      <4>1. i \in 1..(Len(rs) + 1)
        BY <1>2
      <4> QED BY <1>2, <4>1, StartIs
    <3> QED BY <1>5, <3>4, <3>5, <3>6, <3>7, <3>8
  <2>2. Start(ns, j, TRUE) = cur.editor
    <3>1. Start(ns, j, TRUE) = Start(rs, i, TRUE) + (IF TRUE THEN 0 ELSE u)
      BY <2>1, Zenon
    <3>2. Start(rs, i, TRUE) \in Nat
      BY <1>1 DEF InsFacts
    <3>3. PICK x, y : x = Start(ns, j, TRUE) /\ y = Start(rs, i, TRUE)
      OBVIOUS
    <3>4. y \in Nat /\ x = y + 0 /\ cur.editor = y
      BY <1>2, <3>1, <3>2, <3>3
    <3>5. x = cur.editor
      BY <3>4
    <3> QED BY <3>3, <3>5, Zenon
  <2>3. Start(ns, j, FALSE) = pos
    <3>1. Start(ns, j, FALSE) = Start(rs, i, FALSE) + (IF FALSE THEN 0 ELSE u)
      BY <2>1, Zenon
    <3> QED BY <1>2, <1>3, <1>5, <3>1
  <2>4. j \in Nat /\ j # 0 /\ j \in 0..Len(ns)
    <3>1. Len(ns) = Len(rs) + (Len(mid) - (i - i + 1))
      BY <1>9 DEF Spliced
    <3> QED BY <1>2, <1>7, <1>11, <3>1
  <2>5. c = CursorAt(ns, j)
    BY <1>11, <2>2, <2>3, <2>4, CursorAtIs
  <2> QED BY <2>4, <2>5 DEF CursorsOf
<1>13. ApplyIns(d, pos, len, cur) = Result(ns, ShiftCursorsRight(d.cursors, j, len, by), c)
  <2>1. /\ cur.idx = i /\ d.ranges = rs /\ d.panicked = FALSE /\ cur.internal = beg
        /\ ~(pos < beg) /\ ~(pos > beg + rs[i].len) /\ rs # << >>
        /\ pos # beg /\ pos # beg + rs[i].len /\ pos - beg = u /\ (beg + rs[i].len) - pos = v
    BY <1>2, <1>3, <1>4
  <2>2. ApplyIns(d, pos, len, cur) =
          [doc |-> [ranges |-> SubSeq(rs, 1, i - 1) \o mid \o SubSeq(rs, i + 1, Len(rs)),
                    cursors |-> ShiftCursorsRight(d.cursors, i + 1, len, 2), panicked |-> FALSE],
           cur |-> Cursor(cur.editor, pos, i + 1)]
    BY <1>6, <2>1 DEF ApplyIns
  <2> QED BY <1>8, <1>11, <2>2 DEF Result
<1>14. Gap(i, i, mid, by)
  BY <1>7, <1>11
<1> QED BY <1>2, <1>7, <1>9, <1>10, <1>11, <1>12, <1>13, <1>14, InsertSplice, ZenonT(20)

\* An insertion in a document with text.
LEMMA InsOk ==
    ASSUME NEW d, NEW rs, NEW i, NEW pos, NEW len, NEW cur, InsAt(d, rs, i, pos, len, cur)
    PROVE  ResultOk(rs, ApplyIns(d, pos, len, cur), len)
<1>1. i \in 1..Len(rs) /\ i \in Nat /\ Len(rs) \in Nat
  BY InsAtIs DEF InsFacts
<1>2. CASE rs[i].live
  BY <1>2, InsInLive
<1>3. CASE ~rs[i].live /\ pos = cur.internal
  <2>1. i > 1 \/ i = 1
    BY <1>1
  <2> QED BY <1>3, <2>1, InsAtBegOfDead, InsBeforeDead
<1>4. CASE ~rs[i].live /\ pos = cur.internal + rs[i].len
  <2>1. i < Len(rs) \/ i = Len(rs)
    BY <1>1
  <2> QED BY <1>4, <2>1, InsAtEndOfDead, InsAfterDead
<1>5. CASE ~rs[i].live /\ pos # cur.internal /\ pos # cur.internal + rs[i].len
  BY <1>5, InsInDead
<1> QED BY <1>2, <1>3, <1>4, <1>5

\* The first insertion.
LEMMA FirstInsOk ==
    ASSUME NEW d, DocOk(d), d.ranges = << >>, NEW pos, NEW len \in Nat, len > 0,
           NEW cur \in CursorsOf(<< >>)
    PROVE  ResultOk(<< >>, ApplyIns(d, pos, len, cur), len)
<1>1. PICK r, z, ns : r = RangeOf(TRUE, len) /\ z = << >> /\ ns = <<r>>
  OBVIOUS
<1>2. r \in Rng /\ r.len = len
  BY <1>1 DEF RangeOf, Rng
<1>3. ns \in Seq(Rng) /\ Len(ns) = 1 /\ Alternates(ns) /\ \A e : Extents(ns, e) = Extent(r, e)
  BY <1>1, <1>2, Singleton
<1>4. Len(z) = 0 /\ z = << >>
  BY <1>1
<1>5. CursorsOf(z) \subseteq CursorsOf(ns)
  <2>1. ASSUME NEW c \in CursorsOf(z) PROVE c \in CursorsOf(ns)
    <3>1. PICK i \in 0..Len(z) : c = CursorAt(z, i)
      BY DEF CursorsOf
    <3>2. i = 0
      BY <1>4, <3>1
    <3>3. CursorAt(z, 0) = CursorAt(ns, 0)
      BY NoCursor
    <3>4. 0 \in 0..Len(ns)
      BY <1>3
    <3> QED BY <3>1, <3>2, <3>3, <3>4 DEF CursorsOf
  <2> QED BY <2>1
<1>6. d = [ranges |-> z, cursors |-> d.cursors, panicked |-> FALSE]
      /\ d.cursors \in [Sites -> CursorsOf(z)]
  BY <1>4 DEF DocOk
<1>7. PICK doc : doc = [ranges |-> ns, cursors |-> d.cursors, panicked |-> FALSE]
  OBVIOUS
<1>8. [d EXCEPT !.ranges = ns] = doc
  <2>1. PICK cs, p : cs = d.cursors /\ p = FALSE
    OBVIOUS
  <2>2. d = [ranges |-> z, cursors |-> cs, panicked |-> p]
    BY <1>6, <2>1
  <2>3. [d EXCEPT !.ranges = ns] = [ranges |-> ns, cursors |-> cs, panicked |-> p]
    BY <2>2
  <2> QED BY <1>7, <2>1, <2>3
<1>9. ApplyIns(d, pos, len, cur) = [doc |-> doc, cur |-> cur]
  BY <1>1, <1>4, <1>6, <1>8 DEF ApplyIns
<1>10. DocOk(doc) /\ doc.ranges = ns
  <2>1. d.cursors \in [Sites -> CursorsOf(ns)]
    BY <1>5, <1>6
  <2> QED BY <1>3, <1>7, <2>1 DEF DocOk
<1>11. cur \in CursorsOf(ns)
  BY <1>4, <1>5
<1>12. LengthOf(ns) = len
  BY <1>2, <1>3 DEF LengthOf, Extent
<1>13. LengthOf(z) = 0
  BY <1>1, ExtentsEmpty DEF LengthOf
<1>14. LengthOf(ns) = LengthOf(<< >>) + len
  BY <1>1, <1>12, <1>13
<1> QED BY <1>9, <1>10, <1>11, <1>14 DEF ResultOk

-----------------------------------------------------------------------------
(* Positions *)

\* The least and the largest of some indices.
LEMMA Extremes ==
    ASSUME NEW n \in Nat, NEW t \in SUBSET (1..n), t # {}
    PROVE  /\ Min(t) \in t /\ \A k \in t : Min(t) <= k
           /\ Max(t) \in t /\ \A k \in t : Max(t) >= k
<1>1. t \in SUBSET Nat
  OBVIOUS
<1>2. PICK m \in t : \A k \in t : m <= k
  BY <1>1, LenFold!Least
<1>3. Min(t) \in t /\ \A k \in t : Min(t) <= k
  BY <1>2 DEF Min
<1>4. LenFold!Max(t) \in t /\ \A k \in t : LenFold!Max(t) >= k
  BY LenFold!MaxIndex
<1>5. Max(t) \in t /\ \A k \in t : Max(t) >= k
  BY <1>4 DEF Max
<1> QED BY <1>3, <1>5

\* What is seen from an exact cursor is where it is.
LEMMA SeenFrom ==
    ASSUME NEW rs \in Seq(Rng), NEW f \in 1..Len(rs), NEW cur, cur = CursorAt(rs, f), NEW e \in BOOLEAN
    PROVE  /\ cur.idx = f /\ Pos(cur, e) = Start(rs, f, e)
           /\ \A i \in 1..(Len(rs) + 1) : BegOf(rs, cur, i, e) = Start(rs, i, e)
           /\ \A i \in 1..Len(rs) : EndOf(rs, cur, i, e) = Start(rs, i + 1, e)
<1>1. f \in Nat /\ f # 0 /\ Len(rs) \in Nat /\ f \in 1..(Len(rs) + 1)
  BY LenProperties
<1>2. /\ cur.idx = f /\ cur.editor = Start(rs, f, TRUE) /\ cur.internal = Start(rs, f, FALSE)
  BY <1>1, CursorAtIs
<1>3. Pos(cur, e) = Start(rs, f, e)
  <2>1. CASE e = TRUE
    <3>1. Pos(cur, e) = cur.editor
      BY <2>1 DEF Pos
    <3>2. Start(rs, f, e) = Start(rs, f, TRUE)
      BY <2>1
    <3> QED BY <1>2, <3>1, <3>2
  <2>2. CASE e = FALSE
    <3>1. Pos(cur, e) = cur.internal
      BY <2>2 DEF Pos
    <3>2. Start(rs, f, e) = Start(rs, f, FALSE)
      BY <2>2
    <3> QED BY <1>2, <3>1, <3>2
  <2> QED BY <2>1, <2>2
<1>4. \A i \in 1..(Len(rs) + 1) : Start(rs, i, e) \in Nat
  BY StartIs
<1>5. ASSUME NEW i \in 1..(Len(rs) + 1) PROVE BegOf(rs, cur, i, e) = Start(rs, i, e)
  <2>1. PICK a, b : a = Start(rs, i, e) /\ b = Start(rs, f, e)
    OBVIOUS
  <2>2. a \in Nat /\ b \in Nat /\ b + a - b = a
    BY <1>1, <1>4, <2>1
  <2> QED BY <1>2, <1>3, <2>1, <2>2 DEF BegOf
<1>6. ASSUME NEW i \in 1..Len(rs) PROVE EndOf(rs, cur, i, e) = Start(rs, i + 1, e)
  <2>1. i \in 1..(Len(rs) + 1)
    BY <1>1
  <2>2. BegOf(rs, cur, i, e) = Start(rs, i, e)
    BY <1>5, <2>1
  <2>3. Start(rs, i + 1, e) = Start(rs, i, e) + Extent(rs[i], e)
    BY StartIs
  <2> QED BY <2>2, <2>3 DEF EndOf
<1> QED BY <1>2, <1>3, <1>5, <1>6

\* Position pos is in range i.
InRange(rs, i, pos, e) ==
    i \in 1..Len(rs) /\ Start(rs, i, e) <= pos /\ pos <= Start(rs, i + 1, e)

\* The range that the iterator stops at.
LEMMA RangeAtIs ==
    ASSUME NEW rs \in Seq(Rng), NEW f \in 1..Len(rs), NEW cur, cur = CursorAt(rs, f),
           NEW e \in BOOLEAN, NEW pos \in Nat, pos <= Extents(rs, e), pos > 0, pos # Start(rs, f, e)
    PROVE  InRange(rs, RangeAt(rs, pos, cur, e), pos, e)
<1>1. PICK l : l = Len(rs) /\ l \in Nat
  <2>1. Len(rs) \in Nat
    BY LenProperties
  <2> QED BY <2>1
<1>2. /\ cur.idx = f /\ Pos(cur, e) = Start(rs, f, e)
      /\ \A i \in 1..(l + 1) : BegOf(rs, cur, i, e) = Start(rs, i, e)
      /\ \A i \in 1..l : EndOf(rs, cur, i, e) = Start(rs, i + 1, e)
  BY <1>1, SeenFrom
<1>3. /\ Start(rs, 1, e) = 0 /\ Start(rs, l + 1, e) = Extents(rs, e)
      /\ \A i \in 1..(l + 1) : Start(rs, i, e) \in Nat
  BY <1>1, StartIs
<1>4. CASE pos > Start(rs, f, e)
  <2>1. PICK t : t = {i \in f..l : pos <= EndOf(rs, cur, i, e)}
    OBVIOUS
  <2>2. PICK r : r = Min(t)
    OBVIOUS
  <2>3. RangeAt(rs, pos, cur, e) = r
    BY <1>1, <1>2, <1>4, <2>1, <2>2 DEF RangeAt
  <2>4. t \in SUBSET (1..l) /\ t # {}
    <3>1. l \in f..l /\ l \in 1..l /\ \A i \in f..l : i \in 1..l
      BY <1>1
    <3>2. pos <= EndOf(rs, cur, l, e)
      BY <1>2, <1>3, <3>1
    <3> QED BY <2>1, <3>1, <3>2
  <2>5. r \in t /\ \A k \in t : r <= k
    BY <1>1, <2>2, <2>4, Extremes
  <2>6. r \in f..l /\ r \in 1..l /\ pos <= Start(rs, r + 1, e)
    BY <1>1, <1>2, <2>1, <2>5
  <2>7. Start(rs, r, e) <= pos
    <3>1. CASE r = f
      <4>1. f \in 1..(l + 1)
        BY <1>1
      <4> QED BY <1>3, <1>4, <3>1, <4>1
    <3>2. CASE r # f
      <4>1. PICK k : k = r - 1
        OBVIOUS
      <4>2. k \in f..l /\ k \in 1..l /\ k + 1 = r /\ k < r /\ r \in 1..(l + 1) /\ ~(r <= k)
        BY <1>1, <2>6, <3>2, <4>1
      <4>3. ~(pos <= EndOf(rs, cur, k, e))
        BY <2>1, <2>5, <4>2
      <4>4. EndOf(rs, cur, k, e) = Start(rs, r, e) /\ Start(rs, r, e) \in Nat
        BY <1>2, <1>3, <4>2
      <4> QED BY <4>3, <4>4
    <3> QED BY <3>1, <3>2
  <2> QED BY <1>1, <2>3, <2>6, <2>7 DEF InRange
<1>5. CASE ~(pos > Start(rs, f, e))
  <2>1. PICK t : t = {i \in 1..(f - 1) : pos >= BegOf(rs, cur, i, e)
                           /\ ~(e /\ pos = BegOf(rs, cur, i, e) /\ rs[i].live /\ i > 1)}
    OBVIOUS
  <2>2. PICK r : r = Max(t)
    OBVIOUS
  <2>3. RangeAt(rs, pos, cur, e) = r
    BY <1>1, <1>2, <1>5, <2>1, <2>2 DEF RangeAt
  <2>4. pos < Start(rs, f, e) /\ f > 1
    <3>1. f \in 1..(l + 1)
      BY <1>1
    <3>2. pos < Start(rs, f, e)
      BY <1>3, <1>5, <3>1
    <3>3. f # 1
      BY <1>3, <3>2
    <3> QED BY <1>1, <3>2, <3>3
  <2>5. t \in SUBSET (1..l) /\ t # {}
    <3>1. 1 \in 1..(f - 1) /\ 1 \in 1..(l + 1) /\ ~(1 > 1) /\ \A i \in 1..(f - 1) : i \in 1..l
      BY <1>1, <2>4
    <3>2. BegOf(rs, cur, 1, e) = 0
      BY <1>2, <1>3, <3>1
    <3>3. pos >= BegOf(rs, cur, 1, e)
      BY <3>2
    <3> QED BY <2>1, <3>1, <3>3
  <2>6. r \in t /\ \A k \in t : r >= k
    BY <1>1, <2>2, <2>5, Extremes
  <2>7. r \in 1..(f - 1) /\ r \in 1..l /\ r \in 1..(l + 1)
    BY <1>1, <2>1, <2>5, <2>6
  <2>8. Start(rs, r, e) <= pos
    BY <1>2, <1>3, <2>1, <2>6, <2>7
  <2>9. pos <= Start(rs, r + 1, e)
    <3>1. PICK k : k = r + 1
      OBVIOUS
    <3>2. k = f \/ k \in 1..(f - 1)
      BY <2>7, <3>1
    <3>3. k \in 1..(l + 1) /\ ~(r >= k)
      BY <1>1, <2>7, <3>1
    <3>4. Start(rs, k, e) \in Nat /\ BegOf(rs, cur, k, e) = Start(rs, k, e)
      BY <1>2, <1>3, <3>3
    <3>5. CASE k = f
      BY <2>4, <3>1, <3>4, <3>5
    <3>6. CASE k \in 1..(f - 1)
      <4>1. ~(pos >= BegOf(rs, cur, k, e)) \/ pos = BegOf(rs, cur, k, e)
        BY <2>1, <2>6, <3>3, <3>6
      <4> QED BY <3>1, <3>4, <4>1
    <3> QED BY <3>2, <3>5, <3>6
  <2> QED BY <1>1, <2>3, <2>7, <2>8, <2>9 DEF InRange
<1> QED BY <1>4, <1>5

\* The internal position of an editor position in range i.
InternalIs(rs, i, pos, p) == p = Start(rs, i, FALSE) + (pos - Start(rs, i, TRUE))

\* What convert_pos finds: the cursor of a range with pos in it and, of an
\* editor position, the internal one.
Found(rs, pos, e, res) ==
    \E i \in 1..Len(rs) :
        /\ res.cur = CursorAt(rs, i) /\ InRange(rs, i, pos, e)
        /\ e => InternalIs(rs, i, pos, res.pos)

LEMMA ConvertPosIs ==
    ASSUME NEW rs \in Seq(Rng), rs # << >>, NEW cur \in CursorsOf(rs), NEW e \in BOOLEAN,
           NEW pos \in Nat, pos <= Extents(rs, e)
    PROVE  Found(rs, pos, e, ConvertPos(rs, pos, cur, e))
<1>1. PICK l : l = Len(rs) /\ l \in Nat /\ l >= 1
  <2>1. Len(rs) \in Nat \ {0}
    BY LenProperties, EmptySeq
  <2> QED BY <2>1
<1>2. PICK one, zero : one = 1 /\ zero = 0
  OBVIOUS
<1>3. /\ one \in 1..l /\ one \in 1..(l + 1) /\ one \in Nat /\ one # 0
      /\ \A x : Start(rs, one, x) = 0
  BY <1>1, <1>2, StartIs
<1>4. \A i \in 1..(l + 1) : \A x : Start(rs, i, x) \in Nat
  BY <1>1, StartIs
<1>5. CursorAt(rs, one) = Cursor(0, 0, 1)
  <2>1. CursorAt(rs, one) = Cursor(Start(rs, one, TRUE), Start(rs, one, FALSE), one)
    BY <1>3, CursorAtIs
  <2>2. Start(rs, one, TRUE) = 0
    BY <1>3, Zenon
  <2>3. Start(rs, one, FALSE) = 0
    BY <1>3, Zenon
  <2> QED BY <1>2, <2>1, <2>2, <2>3
<1>6. PICK f0 \in 0..l : cur = CursorAt(rs, f0)
  BY <1>1 DEF CursorsOf
<1>7. f0 = 0 => Pos(cur, e) = 0 /\ cur.idx = 0
  <2>1. SUFFICES ASSUME f0 = 0 PROVE Pos(cur, e) = 0 /\ cur.idx = 0
    OBVIOUS
  <2> QED BY <1>6, <2>1, NoCursor DEF Pos
<1>8. f0 # 0 => f0 \in 1..l
  BY <1>1
<1>9. CASE pos = 0
  <2>1. ConvertPos(rs, pos, cur, e) = [pos |-> 0, cur |-> Cursor(0, 0, 1)]
    BY <1>9 DEF ConvertPos
  <2>2. InRange(rs, one, pos, e)
    <3>1. PICK two : two = one + 1
      OBVIOUS
    <3>2. two \in 1..(l + 1)
      BY <1>1, <1>2, <3>1
    <3>3. Start(rs, two, e) \in Nat /\ Start(rs, one, e) = 0
      BY <1>3, <1>4, <3>2
    <3>4. Start(rs, one, e) <= pos /\ pos <= Start(rs, two, e)
      BY <1>9, <3>3
    <3> QED BY <1>1, <1>3, <3>1, <3>4 DEF InRange
  <2>3. InternalIs(rs, one, pos, 0)
    <3>1. Start(rs, one, TRUE) = 0
      BY <1>3, Zenon
    <3>2. Start(rs, one, FALSE) = 0
      BY <1>3, Zenon
    <3>3. PICK a, b : a = Start(rs, one, TRUE) /\ b = Start(rs, one, FALSE)
      OBVIOUS
    <3>4. a = 0 /\ b = 0
      BY <3>1, <3>2, <3>3, Zenon
    <3>5. b + (pos - a) = 0
      BY <1>9, <3>4
    <3> QED BY <3>3, <3>5 DEF InternalIs
  <2> QED BY <1>1, <1>3, <1>5, <2>1, <2>2, <2>3 DEF Found
<1>10. CASE pos # 0 /\ pos = Pos(cur, e)
  <2>1. f0 \in 1..l /\ f0 \in 1..(l + 1)
    BY <1>1, <1>7, <1>8, <1>10
  <2>2. ConvertPos(rs, pos, cur, e) = [pos |-> Pos(cur, ~e), cur |-> cur]
    BY <1>10 DEF ConvertPos
  <2>3. Pos(cur, e) = Start(rs, f0, e)
    BY <1>1, <1>6, <2>1, SeenFrom
  <2>4. InRange(rs, f0, pos, e)
    <3>1. f0 + 1 \in f0..(Len(rs) + 1) /\ f0 \in 1..(Len(rs) + 1) /\ f0 + 1 \in 1..(l + 1)
      BY <1>1, <2>1
    <3>2. PICK a, b : a = Start(rs, f0, e) /\ b = Start(rs, f0 + 1, e)
      OBVIOUS
    <3>3. a \in Nat /\ b \in Nat
      BY <1>4, <2>1, <3>1, <3>2
    <3>4. b = a + Extent(rs[f0], e) /\ rs[f0] \in Rng
      BY <1>1, <2>1, <3>2, StartIs
    <3>5. Extent(rs[f0], e) \in Nat
      BY <3>4, ExtentIs
    <3>6. a <= b
      BY <3>3, <3>4, <3>5
    <3>7. pos = a
      BY <1>10, <2>3, <3>2
    <3> QED BY <1>1, <2>1, <3>2, <3>3, <3>6, <3>7 DEF InRange
  <2>5. e => InternalIs(rs, f0, pos, Pos(cur, ~e))
    <3>1. SUFFICES ASSUME e PROVE InternalIs(rs, f0, pos, Pos(cur, ~e))
      OBVIOUS
    <3>2. f0 \in Nat /\ f0 # 0
      BY <1>1, <2>1
    <3>3. cur.editor = Start(rs, f0, TRUE) /\ cur.internal = Start(rs, f0, FALSE)
      BY <1>6, <3>2, CursorAtIs
    <3>4. Pos(cur, e) = cur.editor /\ Pos(cur, ~e) = cur.internal
      BY <3>1 DEF Pos
    <3>5. cur.internal \in Nat
      <4>1. Start(rs, f0, FALSE) \in Nat
        BY <1>4, <2>1, Zenon
      <4> QED BY <3>3, <4>1
    <3>6. cur.internal = cur.internal + (pos - cur.editor)
      BY <1>10, <3>4, <3>5
    <3> QED BY <3>3, <3>4, <3>6 DEF InternalIs
  <2> QED BY <1>1, <1>6, <2>1, <2>2, <2>4, <2>5 DEF Found
<1>11. CASE pos # 0 /\ pos # Pos(cur, e)
  <2>1. PICK from : from = IF cur.idx \in {None, 1} THEN Cursor(0, 0, 1) ELSE cur
    OBVIOUS
  <2>2. PICK f \in 1..l : from = CursorAt(rs, f) /\ pos # Start(rs, f, e)
    <3>1. CASE f0 = 0
      <4>1. from = CursorAt(rs, one)
        BY <1>5, <1>7, <2>1, <3>1 DEF None
      <4>2. Start(rs, one, e) = 0
        BY <1>3
      <4> QED BY <1>3, <1>11, <4>1, <4>2
    <3>2. CASE f0 = 1
      <4>1. from = CursorAt(rs, one)
        <5>1. cur = Cursor(0, 0, 1)
          BY <1>2, <1>5, <1>6, <3>2
        <5> QED BY <1>5, <2>1, <5>1
      <4>2. Start(rs, one, e) = 0
        BY <1>3
      <4> QED BY <1>3, <1>11, <4>1, <4>2
    <3>3. CASE f0 # 0 /\ f0 # 1
      <4>1. f0 \in 1..l
        BY <1>8, <3>3
      <4>2. cur.idx = f0 /\ Pos(cur, e) = Start(rs, f0, e)
        BY <1>1, <1>6, <4>1, SeenFrom
      <4>3. from = cur
        BY <2>1, <3>3, <4>2 DEF None
      <4> QED BY <1>6, <1>11, <4>1, <4>2, <4>3
    <3> QED BY <3>1, <3>2, <3>3
  <2>3. PICK i : i = RangeAt(rs, pos, from, e)
    OBVIOUS
  <2>4. InRange(rs, i, pos, e)
    <3>1. pos > 0
      BY <1>11
    <3> QED BY <1>1, <2>2, <2>3, <3>1, RangeAtIs
  <2>5. i \in 1..l /\ i \in 1..(l + 1) /\ i \in Nat /\ i # 0
    BY <1>1, <2>4 DEF InRange
  <2>6. PICK to : to = MovedTo(rs, from, i)
    OBVIOUS
  <2>7. to = CursorAt(rs, i)
    <3>1. ASSUME NEW x \in BOOLEAN PROVE BegOf(rs, from, i, x) = Start(rs, i, x)
      BY <1>1, <2>2, <2>5, SeenFrom
    <3>2. TRUE \in BOOLEAN /\ FALSE \in BOOLEAN
      OBVIOUS
    <3>3. BegOf(rs, from, i, TRUE) = Start(rs, i, TRUE)
      BY <3>1, <3>2, Zenon
    <3>4. BegOf(rs, from, i, FALSE) = Start(rs, i, FALSE)
      BY <3>1, <3>2, Zenon
    <3> QED BY <2>5, <2>6, <3>3, <3>4, CursorAtIs DEF MovedTo
  <2>8. ConvertPos(rs, pos, cur, e) = [pos |-> Within(rs, to, pos, e), cur |-> to]
    BY <1>11, <2>1, <2>3, <2>6 DEF ConvertPos
  <2>9. e => InternalIs(rs, i, pos, Within(rs, to, pos, e))
    <3>1. SUFFICES ASSUME e PROVE InternalIs(rs, i, pos, Within(rs, to, pos, e))
      OBVIOUS
    <3>2. to.editor = Start(rs, i, TRUE) /\ to.internal = Start(rs, i, FALSE)
      BY <2>5, <2>7, CursorAtIs
    <3>3. Within(rs, to, pos, e) = to.internal + (pos - to.editor)
      BY <3>1 DEF Within, Pos
    <3> QED BY <3>2, <3>3 DEF InternalIs
  <2> QED BY <1>1, <2>4, <2>5, <2>7, <2>8, <2>9 DEF Found
<1> QED BY <1>9, <1>10, <1>11

-----------------------------------------------------------------------------
(* The ranges a mark affects *)

LEMMA OfTwo ==
    ASSUME NEW a \in Int, NEW b \in Int
    PROVE  /\ Min({a, b}) = (IF a <= b THEN a ELSE b)
           /\ Max({a, b}) = (IF a <= b THEN b ELSE a)
<1>1. CASE a <= b
  <2>1. \A x \in {a, b} : a <= x
    BY <1>1
  <2>2. \A x \in {a, b} : b >= x
    BY <1>1
  <2>3. \A m \in {a, b} : (\A x \in {a, b} : m <= x) => m = a
    BY <1>1
  <2>4. \A m \in {a, b} : (\A x \in {a, b} : m >= x) => m = b
    BY <1>1
  <2>5. Min({a, b}) = a
    BY <2>1, <2>3 DEF Min
  <2>6. Max({a, b}) = b
    BY <2>2, <2>4 DEF Max
  <2> QED BY <1>1, <2>5, <2>6
<1>2. CASE ~(a <= b)
  <2>1. \A x \in {a, b} : b <= x
    BY <1>2
  <2>2. \A x \in {a, b} : a >= x
    BY <1>2
  <2>3. \A m \in {a, b} : (\A x \in {a, b} : m <= x) => m = b
    BY <1>2
  <2>4. \A m \in {a, b} : (\A x \in {a, b} : m >= x) => m = a
    BY <1>2
  <2>5. Min({a, b}) = b
    BY <2>1, <2>3 DEF Min
  <2>6. Max({a, b}) = a
    BY <2>2, <2>4 DEF Max
  <2> QED BY <1>2, <2>5, <2>6
<1> QED BY <1>1, <1>2

\* The internal positions of the bounds: range k is between at[k] and
\* at[k + 1].
Ats(rs, at) ==
    /\ rs \in Seq(Rng) /\ Len(rs) \in Nat
    /\ \A k \in 1..(Len(rs) + 1) : at[k] \in Nat
    /\ \A k \in 1..Len(rs) : at[k + 1] = at[k] + rs[k].len /\ rs[k].len \in Nat /\ rs[k].len > 0
    /\ \A j \in 1..(Len(rs) + 1) : \A k \in 1..j : at[k] <= at[j]
    /\ at[Len(rs) + 1] = LengthOf(rs)
    /\ \A k \in 1..(Len(rs) + 1) : at[k] = Start(rs, k, FALSE)

LEMMA BoundsAre ==
    ASSUME NEW rs \in Seq(Rng), NEW i \in 1..Len(rs)
    PROVE  LET at == Bounds(rs, CursorAt(rs, i))
           IN  Ats(rs, at) /\ Len(at) = Len(rs) + 1
<1>1. PICK l, at, e, s : /\ l = Len(rs) /\ at = Bounds(rs, CursorAt(rs, i)) /\ e = FALSE
                         /\ s = [k \in 1..(l + 1) |-> Start(rs, k, e)]
  OBVIOUS
<1>2. l \in Nat
  <2>1. Len(rs) \in Nat
    BY LenProperties
  <2> QED BY <1>1, <2>1
<1>3. \A k \in 1..(l + 1) : BegOf(rs, CursorAt(rs, i), k, e) = Start(rs, k, e)
  BY <1>1, SeenFrom, ZenonT(20)
<1>4. at = s
  BY <1>1, <1>3 DEF Bounds
<1>5. \A k \in 1..(l + 1) : Start(rs, k, e) \in Nat
  BY <1>1, StartIs
<1>6. ASSUME NEW k \in 1..l
      PROVE  s[k + 1] = s[k] + rs[k].len /\ rs[k].len \in Nat /\ rs[k].len > 0
  <2>1. k \in 1..(l + 1) /\ k + 1 \in 1..(l + 1) /\ rs[k] \in Rng
    BY <1>1, <1>2
  <2>2. Extent(rs[k], e) = rs[k].len /\ rs[k].len \in Nat /\ rs[k].len > 0
    <3>1. Extent(rs[k], FALSE) = rs[k].len /\ rs[k].len \in Nat /\ rs[k].len > 0
      BY <2>1, ExtentIs
    <3> QED BY <1>1, <3>1
  <2>3. Start(rs, k + 1, e) = Start(rs, k, e) + Extent(rs[k], e)
    BY <1>1, StartIs
  <2> QED BY <1>1, <2>1, <2>2, <2>3
<1>7. ASSUME NEW j \in 1..(l + 1), NEW k \in 1..j PROVE s[k] <= s[j]
  <2>1. k \in 1..(Len(rs) + 1) /\ j \in k..(Len(rs) + 1) /\ k \in 1..(l + 1)
    BY <1>1, <1>2
  <2>2. Start(rs, k, FALSE) + (j - k) <= Start(rs, j, FALSE)
    BY <2>1, StartsGrow
  <2>3. s[k] = Start(rs, k, e) /\ s[j] = Start(rs, j, e)
    BY <1>1, <2>1
  <2>4. s[k] \in Nat /\ s[j] \in Nat
    BY <1>5, <2>1, <2>3
  <2>5. s[k] + (j - k) <= s[j]
    BY <1>1, <2>2, <2>3
  <2>6. j - k \in Nat
    BY <1>2, <2>1
  <2> QED BY <2>4, <2>5, <2>6
<1>8. s[l + 1] = LengthOf(rs)
  <2>1. l + 1 \in 1..(l + 1)
    BY <1>2
  <2>2. Start(rs, l + 1, e) = Extents(rs, e)
    BY <1>1, StartIs
  <2> QED BY <1>1, <2>1, <2>2 DEF LengthOf
<1>9. \A k \in 1..(l + 1) : s[k] = Start(rs, k, FALSE)
  BY <1>1
<1>10. \A k \in 1..(l + 1) : s[k] \in Nat
  BY <1>1, <1>5
<1>11. Ats(rs, s)
  BY <1>1, <1>2, <1>6, <1>7, <1>8, <1>9, <1>10 DEF Ats
<1>12. Len(s) = l + 1
  <2>1. l + 1 \in Nat
    BY <1>2
  <2> QED BY <1>1, <2>1
<1> QED BY <1>1, <1>4, <1>11, <1>12

\* Range k has the liveness of the mark.
Is(rs, k, live) == rs[k].live = live

\* Liveness alternates.
LEMMA Turns ==
    ASSUME NEW rs \in Seq(Rng), Alternates(rs), NEW live \in BOOLEAN
    PROVE  /\ \A k \in 1..(Len(rs) - 1) : Is(rs, k, live) <=> ~Is(rs, k + 1, live)
           /\ \A k \in 2..Len(rs) : Is(rs, k, live) <=> ~Is(rs, k - 1, live)
<1>1. PICK l : l = Len(rs) /\ l \in Nat
  <2>1. Len(rs) \in Nat
    BY LenProperties
  <2> QED BY <2>1
<1>2. ASSUME NEW k \in 1..l PROVE rs[k].live \in BOOLEAN
  <2>1. rs[k] \in Rng
    BY <1>1
  <2> QED BY <2>1, ExtentIs
<1>3. ASSUME NEW k \in 1..(l - 1) PROVE Is(rs, k, live) <=> ~Is(rs, k + 1, live)
  <2>1. PICK j : j = k + 1
    OBVIOUS
  <2>2. k \in 1..l /\ j \in 1..l
    BY <1>1, <2>1
  <2>3. rs[k].live # rs[j].live
    BY <1>1, <2>1 DEF Alternates
  <2>4. rs[k].live \in BOOLEAN /\ rs[j].live \in BOOLEAN
    BY <1>2, <2>2
  <2> QED BY <2>1, <2>3, <2>4 DEF Is
<1>4. ASSUME NEW k \in 2..l PROVE Is(rs, k, live) <=> ~Is(rs, k - 1, live)
  <2>1. PICK j : j = k - 1
    OBVIOUS
  <2>2. j \in 1..(l - 1) /\ j + 1 = k
    BY <1>1, <2>1
  <2>3. Is(rs, j, live) <=> ~Is(rs, j + 1, live)
    BY <1>3, <2>2
  <2> QED BY <2>1, <2>2, <2>3
<1> QED BY <1>1, <1>3, <1>4

\* Where the affected ranges are, of a mark from pos to end.  The first
\* holds pos; it ends there only if the mark joins it.  It does not begin
\* there if the mark could join the range before it.  The mark ends in the
\* last one; one more is joined if it can be.
Left(rs, at, pos, live, i, lo) ==
    /\ at[lo] <= pos /\ pos <= at[lo + 1]
    /\ pos = at[lo + 1] => Is(rs, lo, live)
    /\ at[lo] = pos /\ lo > 1 => ~Is(rs, lo - 1, live)
    /\ i > lo => Is(rs, lo, live) /\ pos = at[lo + 1]

Right(rs, at, end, live, last, hi) ==
    /\ at[last] < end /\ end <= at[last + 1]
    /\ hi = last \/ (hi = last + 1 /\ end = at[hi] /\ Is(rs, hi, live))
    /\ end = at[last + 1] /\ last < Len(rs) /\ Is(rs, last + 1, live) => hi = last + 1

Area(rs, at, pos, end, live, i, lo, last, hi) ==
    /\ lo \in 1..Len(rs) /\ last \in lo..Len(rs) /\ hi \in last..Len(rs)
    /\ Left(rs, at, pos, live, i, lo) /\ Right(rs, at, end, live, last, hi)

LEMMA AffectedIs ==
    ASSUME NEW rs, NEW at, Ats(rs, at), NEW i \in 1..Len(rs), NEW cur, cur.idx = i,
           NEW pos \in Nat, at[i] <= pos, pos <= at[i + 1], NEW end \in Nat, pos < end,
           end <= at[Len(rs) + 1], NEW live
    PROVE  LET a == Affected(rs, at, cur, pos, end, live)
           IN  Area(rs, at, pos, end, live, i, a.lo, a.last, a.hi)
<1>1. PICK l : l = Len(rs) /\ l \in Nat
  BY DEF Ats
<1>2. /\ \A k \in 1..(l + 1) : at[k] \in Nat
      /\ \A k \in 1..l : at[k + 1] = at[k] + rs[k].len /\ rs[k].len \in Nat /\ rs[k].len > 0
      /\ \A j \in 1..(l + 1) : \A k \in 1..j : at[k] <= at[j]
  BY <1>1 DEF Ats
<1>3. PICK first : first = IF at[i + 1] > pos /\ i > 1 THEN i - 1 ELSE i
  OBVIOUS
<1>4. first \in 1..l /\ i \in 1..l /\ i \in 1..(l + 1) /\ i + 1 \in 1..(l + 1) /\ first \in 1..i
  BY <1>1, <1>3
<1>5. PICK t, last : t = {k \in first..l : at[k + 1] >= end} /\ last = Min(t)
  OBVIOUS
<1>6. last \in first..l /\ end <= at[last + 1] /\ \A k \in t : last <= k
  <2>1. t \in SUBSET (1..l)
    <3>1. \A k \in first..l : k \in 1..l
      BY <1>1, <1>4
    <3> QED BY <1>5, <3>1
  <2>2. l \in t
    <3>1. l \in first..l /\ at[l + 1] \in Nat
      BY <1>1, <1>2, <1>4
    <3> QED BY <1>1, <1>5, <3>1
  <2>3. last \in t /\ \A k \in t : last <= k
    BY <1>1, <1>5, <2>1, <2>2, Extremes
  <2>4. last \in 1..l
    BY <2>1, <2>3
  <2>5. at[last + 1] \in Nat
    <3>1. last + 1 \in 1..(l + 1)
      BY <1>1, <2>4
    <3> QED BY <1>2, <3>1
  <2> QED BY <1>5, <2>3, <2>5
<1>7. last \in 1..l /\ last \in 1..(l + 1) /\ last + 1 \in 1..(l + 1) /\ last >= first
  BY <1>1, <1>4, <1>6
<1>8. at[last] < end
  <2>1. CASE last = first
    <3>1. at[first] <= at[i] /\ at[first] \in Nat /\ at[i] \in Nat
      BY <1>1, <1>2, <1>4
    <3> QED BY <2>1, <3>1
  <2>2. CASE last # first
    <3>1. PICK k : k = last - 1
      OBVIOUS
    <3>2. k \in first..l /\ k + 1 = last /\ ~(last <= k)
      BY <1>1, <1>4, <1>6, <2>2, <3>1
    <3>3. ~(at[last] >= end)
      BY <1>5, <1>6, <3>2
    <3>4. at[last] \in Nat
      BY <1>2, <1>7
    <3> QED BY <3>3, <3>4
  <2> QED BY <2>1, <2>2
<1>9. PICK u, lo : /\ u = {k \in first..last : at[k + 1] > pos \/ (at[k + 1] = pos /\ rs[k].live = live)}
                   /\ lo = Min(u)
  OBVIOUS
<1>10. /\ lo \in first..last
       /\ at[lo + 1] > pos \/ (at[lo + 1] = pos /\ Is(rs, lo, live))
       /\ \A k \in u : lo <= k
  <2>1. u \in SUBSET (1..l)
    <3>1. \A k \in first..last : k \in 1..l
      BY <1>1, <1>4, <1>7
    <3> QED BY <1>9, <3>1
  <2>2. last \in u
    <3>1. last \in first..last
      BY <1>4, <1>7
    <3>2. at[last + 1] \in Nat
      BY <1>2, <1>7
    <3>3. at[last + 1] > pos
      BY <1>6, <3>2
    <3> QED BY <1>9, <3>1, <3>3
  <2>3. lo \in u /\ \A k \in u : lo <= k
    BY <1>1, <1>9, <2>1, <2>2, Extremes
  <2> QED BY <1>9, <2>3 DEF Is
<1>11. /\ lo \in 1..l /\ lo \in 1..(l + 1) /\ lo + 1 \in 1..(l + 1) /\ last \in lo..l
       /\ at[lo] \in Nat /\ at[lo + 1] \in Nat /\ lo >= first /\ lo <= last
  <2>1. /\ lo \in 1..l /\ lo \in 1..(l + 1) /\ lo + 1 \in 1..(l + 1) /\ last \in lo..l
        /\ lo >= first /\ lo <= last
    <3>1. lo \in first..last
      BY <1>10
    <3> QED BY <1>1, <1>4, <1>7, <3>1
  <2> QED BY <1>2, <2>1
<1>12. ASSUME NEW k \in first..last, k < lo
       PROVE  ~(at[k + 1] > pos) /\ ~(at[k + 1] = pos /\ Is(rs, k, live))
  <2>1. ~(lo <= k)
    BY <1>4, <1>7, <1>11, <1>12
  <2> QED BY <1>9, <1>10, <2>1 DEF Is
<1>13. lo > first =>
         \E k \in first..last : k = lo - 1 /\ k + 1 = lo /\ at[lo] <= pos
                                /\ (at[lo] = pos => ~Is(rs, k, live))
  <2>1. SUFFICES ASSUME lo > first
                 PROVE  \E k \in first..last : k = lo - 1 /\ k + 1 = lo /\ at[lo] <= pos
                                               /\ (at[lo] = pos => ~Is(rs, k, live))
    OBVIOUS
  <2>2. PICK k : k = lo - 1
    OBVIOUS
  <2>3. k \in first..last /\ k + 1 = lo /\ k < lo
    BY <1>4, <1>7, <1>11, <2>1, <2>2
  <2>4. ~(at[lo] > pos) /\ ~(at[lo] = pos /\ Is(rs, k, live))
    BY <1>12, <2>3
  <2> QED BY <1>11, <2>2, <2>3, <2>4
<1>14. at[lo] <= pos
  <2>1. CASE lo > first
    BY <1>13, <2>1
  <2>2. CASE lo = first
    <3>1. at[first] <= at[i] /\ at[first] \in Nat /\ at[i] \in Nat
      BY <1>1, <1>2, <1>4
    <3> QED BY <2>2, <3>1
  <2>3. lo \in Int /\ first \in Int
    BY <1>4, <1>11
  <2> QED BY <1>11, <2>1, <2>2, <2>3
<1>15. at[lo] = pos /\ lo > 1 => ~Is(rs, lo - 1, live)
  <2>1. SUFFICES ASSUME at[lo] = pos, lo > 1 PROVE ~Is(rs, lo - 1, live)
    OBVIOUS
  <2>2. CASE lo > first
    BY <1>13, <2>1, <2>2
  <2>3. CASE lo = first
    <3>1. CASE at[i + 1] > pos /\ i > 1
      <4>1. first + 1 = i /\ first = i - 1
        BY <1>3, <1>4, <3>1
      <4>2. at[i] = at[first] + rs[first].len /\ rs[first].len \in Nat /\ rs[first].len > 0
        BY <1>2, <1>4, <4>1
      <4>3. at[i] \in Nat /\ at[first] \in Nat
        BY <1>2, <1>4, <1>11, <2>3
      <4>4. at[lo + 1] = at[i]
        BY <2>3, <4>1
      <4>5. at[i] <= pos /\ at[first] = pos
        BY <2>1, <2>3
      <4> QED BY <4>2, <4>3, <4>5
    <3>2. CASE ~(at[i + 1] > pos /\ i > 1)
      <4>1. first = i /\ i > 1
        BY <1>3, <2>1, <2>3, <3>2
      <4>2. at[i + 1] = at[i] + rs[i].len /\ rs[i].len \in Nat /\ rs[i].len > 0 /\ at[i] \in Nat
        BY <1>2, <1>4
      <4>3. at[i + 1] > pos
        BY <2>1, <2>3, <4>1, <4>2
      <4> QED BY <3>2, <4>1, <4>3
    <3> QED BY <3>1, <3>2
  <2>4. lo \in Int /\ first \in Int
    BY <1>4, <1>11
  <2> QED BY <1>11, <2>2, <2>3, <2>4
<1>16. i > lo => Is(rs, lo, live) /\ pos = at[lo + 1]
  <2>1. SUFFICES ASSUME i > lo PROVE Is(rs, lo, live) /\ pos = at[lo + 1]
    OBVIOUS
  <2>2. first = i - 1 /\ lo = first /\ lo + 1 = i
    BY <1>3, <1>4, <1>11, <2>1
  <2>3. ~(at[lo + 1] > pos)
    <3>1. at[i] \in Nat
      BY <1>2, <1>4
    <3> QED BY <2>2, <3>1
  <2> QED BY <1>10, <2>3
<1>17. Left(rs, at, pos, live, i, lo)
  <2>1. pos <= at[lo + 1]
    BY <1>10, <1>11
  <2>2. pos = at[lo + 1] => Is(rs, lo, live)
    BY <1>10, <1>11
  <2> QED BY <1>14, <1>15, <1>16, <2>1, <2>2 DEF Left
<1>18. PICK hi : hi = IF at[last + 1] = end THEN JoinedRight(rs, last, live) ELSE last
  OBVIOUS
<1>19. hi \in last..l /\ Right(rs, at, end, live, last, hi)
  <2>1. CASE at[last + 1] = end /\ last < l /\ Is(rs, last + 1, live)
    <3>1. hi = last + 1
      BY <1>1, <1>18, <2>1 DEF JoinedRight, Is
    <3>2. hi \in last..l
      BY <1>1, <1>7, <2>1, <3>1
    <3> QED BY <1>1, <1>6, <1>8, <2>1, <3>1, <3>2 DEF Right
  <2>2. CASE ~(at[last + 1] = end /\ last < l /\ Is(rs, last + 1, live))
    <3>1. hi = last
      BY <1>1, <1>18, <2>2 DEF JoinedRight, Is
    <3>2. hi \in last..l
      BY <1>1, <1>7, <3>1
    <3> QED BY <1>1, <1>6, <1>8, <2>2, <3>1, <3>2 DEF Right
  <2> QED BY <2>1, <2>2
<1>20. Area(rs, at, pos, end, live, i, lo, last, hi)
  BY <1>1, <1>11, <1>17, <1>19 DEF Area
<1>21. Affected(rs, at, cur, pos, end, live) = [lo |-> lo, last |-> last, hi |-> hi]
  BY <1>1, <1>3, <1>5, <1>9, <1>18 DEF Affected
<1> QED BY <1>20, <1>21

-----------------------------------------------------------------------------
(* What a mark puts in the place of the ranges it affects *)

\* A range of len characters, or none.
Maybe(live, len) == IF len > 0 THEN <<RangeOf(live, len)>> ELSE << >>

\* What the three parts measure in the editor or internally.
ShapeLen(e, live, u, m, v) == IF e THEN (IF live THEN m ELSE u + v) ELSE u + m + v

Shape(mid, live, u, m, v) ==
    /\ mid \in Seq(Rng) /\ mid # << >> /\ Alternates(mid)
    /\ IF u > 0 THEN mid[1].live # live ELSE mid[1].live = live
    /\ IF v > 0 THEN mid[Len(mid)].live # live ELSE mid[Len(mid)].live = live
    /\ \A e \in BOOLEAN : Extents(mid, e) = ShapeLen(e, live, u, m, v)

LEMMA ShapeIs ==
    ASSUME NEW live \in BOOLEAN, NEW u \in Nat, NEW m \in Nat, NEW v \in Nat, m > 0
    PROVE  Shape(Maybe(~live, u) \o <<RangeOf(live, m)>> \o Maybe(~live, v), live, u, m, v)
<1>1. PICK other \in BOOLEAN : other = (~live) /\ other # live
  <2>1. (~live) \in BOOLEAN /\ (~live) # live
    BY Zenon
  <2> QED BY <2>1, Zenon
<1>2. PICK r, o, a : r = RangeOf(live, m) /\ o = RangeOf(other, u) /\ a = RangeOf(other, v)
  OBVIOUS
<1>3. r \in Rng /\ r.live = live /\ r.len = m
  BY <1>2 DEF RangeOf, Rng
<1>4. PICK x : x = Maybe(other, u) \o <<r>>
  OBVIOUS
<1>5. /\ x \in Seq(Rng) /\ x # << >> /\ Alternates(x) /\ x[Len(x)] = r
      /\ IF u > 0 THEN x[1].live # live ELSE x[1].live = live
      /\ \A e \in BOOLEAN : Extents(x, e) = ShapeLen(e, live, u, m, 0)
  <2>1. PICK s : s = <<r>>
    OBVIOUS
  <2>2. /\ s \in Seq(Rng) /\ Len(s) = 1 /\ s[1] = r /\ s # << >> /\ Alternates(s)
        /\ \A e : Extents(s, e) = Extent(r, e)
    BY <1>3, <2>1, Singleton
  <2>3. CASE u = 0
    <3>1. Maybe(other, u) = << >>
      BY <2>3 DEF Maybe
    <3>2. x = s
      BY <1>4, <2>1, <2>2, <3>1, ConcatEmptySeq
    <3>3. ASSUME NEW e \in BOOLEAN PROVE Extents(s, e) = ShapeLen(e, live, u, m, 0)
      <4>1. Extents(s, e) = IF e /\ ~live THEN 0 ELSE m
        BY <1>3, <2>2 DEF Extent
      <4>2. ShapeLen(e, live, u, m, 0) = IF e THEN (IF live THEN m ELSE 0) ELSE m
        BY <2>3 DEF ShapeLen
      <4> QED BY <4>1, <4>2
    <3>4. s[Len(s)] = r /\ s[1].live = live
      BY <1>3, <2>2
    <3>5. ~(u > 0)
      BY <2>3
    <3> QED BY <2>2, <3>2, <3>3, <3>4, <3>5
  <2>4. CASE u # 0
    <3>1. u > 0
      BY <2>4
    <3>2. Maybe(other, u) = <<o>>
      BY <1>2, <3>1 DEF Maybe
    <3>3. o \in Rng /\ o.live = other /\ o.len = u
      BY <1>2, <3>1 DEF RangeOf, Rng
    <3>4. PICK p : p = <<o>>
      OBVIOUS
    <3>5. /\ p \in Seq(Rng) /\ Len(p) = 1 /\ p[1] = o /\ p # << >> /\ Alternates(p)
          /\ \A e : Extents(p, e) = Extent(o, e)
      BY <3>3, <3>4, Singleton
    <3>6. x = Append(p, r)
      BY <1>3, <1>4, <3>2, <3>4, <3>5, AppendIsConcat
    <3>7. p[Len(p)].live # r.live
      BY <1>1, <1>3, <3>3, <3>5
    <3>8. PICK n : n = Len(p) + 1
      OBVIOUS
    <3>9. /\ Append(p, r) \in Seq(Rng) /\ Len(Append(p, r)) = n
          /\ Append(p, r)[1] = p[1] /\ Append(p, r)[n] = r
          /\ Alternates(Append(p, r)) /\ Append(p, r) # << >>
      BY <1>3, <3>5, <3>7, <3>8, OneMore
    <3>10. \A e : Extents(Append(p, r), e) = Extents(p, e) + Extent(r, e)
      BY <1>3, <3>5, <3>7, OneMore
    <3>11. /\ x \in Seq(Rng) /\ x # << >> /\ Alternates(x) /\ x[Len(x)] = r
      BY <3>6, <3>9
    <3>12. x[1].live # live
      BY <1>1, <3>3, <3>5, <3>6, <3>9
    <3>13. ASSUME NEW e \in BOOLEAN PROVE Extents(x, e) = ShapeLen(e, live, u, m, 0)
      <4>1. Extents(x, e) = Extent(o, e) + Extent(r, e)
        BY <3>5, <3>6, <3>10
      <4>2. Extent(o, e) = IF e /\ ~other THEN 0 ELSE u
        BY <3>3 DEF Extent
      <4>3. Extent(r, e) = IF e /\ ~live THEN 0 ELSE m
        BY <1>3 DEF Extent
      <4>4. (~other) <=> live
        BY <1>1
      <4>5. CASE e /\ live
        BY <4>1, <4>2, <4>3, <4>4, <4>5 DEF ShapeLen
      <4>6. CASE e /\ ~live
        BY <4>1, <4>2, <4>3, <4>4, <4>6 DEF ShapeLen
      <4>7. CASE ~e
        BY <4>1, <4>2, <4>3, <4>7 DEF ShapeLen
      <4> QED BY <4>5, <4>6, <4>7
    <3> QED BY <3>1, <3>11, <3>12, <3>13
  <2> QED BY <2>3, <2>4
<1>6. PICK mid : mid = x \o Maybe(other, v)
  OBVIOUS
<1>7. Shape(mid, live, u, m, v)
  <2>1. CASE v = 0
    <3>1. Maybe(other, v) = << >>
      BY <2>1 DEF Maybe
    <3>2. mid = x
      BY <1>5, <1>6, <3>1, ConcatEmptySeq
    <3>3. x[Len(x)].live = live /\ ~(v > 0)
      BY <1>3, <1>5, <2>1
    <3>4. \A e \in BOOLEAN : Extents(x, e) = ShapeLen(e, live, u, m, v)
      BY <1>5, <2>1
    <3> QED BY <1>5, <3>2, <3>3, <3>4 DEF Shape
  <2>2. CASE v # 0
    <3>1. v > 0
      BY <2>2
    <3>2. Maybe(other, v) = <<a>>
      BY <1>2, <3>1 DEF Maybe
    <3>3. a \in Rng /\ a.live = other /\ a.len = v
      BY <1>2, <3>1 DEF RangeOf, Rng
    <3>4. mid = Append(x, a)
      BY <1>5, <1>6, <3>2, <3>3, AppendIsConcat
    <3>5. x[Len(x)].live # a.live
      BY <1>1, <1>3, <1>5, <3>3
    <3>6. PICK n : n = Len(x) + 1
      OBVIOUS
    <3>7. /\ Append(x, a) \in Seq(Rng) /\ Len(Append(x, a)) = n
          /\ Append(x, a)[1] = x[1] /\ Append(x, a)[n] = a
          /\ Alternates(Append(x, a)) /\ Append(x, a) # << >>
      BY <1>5, <3>3, <3>5, <3>6, OneMore
    <3>8. \A e : Extents(Append(x, a), e) = Extents(x, e) + Extent(a, e)
      BY <1>5, <3>3, <3>5, OneMore
    <3>9. /\ mid \in Seq(Rng) /\ mid # << >> /\ Alternates(mid) /\ mid[Len(mid)] = a
          /\ mid[1] = x[1]
      BY <3>4, <3>7
    <3>10. mid[Len(mid)].live # live
      BY <1>1, <3>3, <3>9
    <3>11. ASSUME NEW e \in BOOLEAN PROVE Extents(mid, e) = ShapeLen(e, live, u, m, v)
      <4>1. Extents(mid, e) = Extents(x, e) + Extent(a, e)
        BY <3>4, <3>8
      <4>2. Extent(a, e) = IF e /\ ~other THEN 0 ELSE v
        BY <3>3 DEF Extent
      <4>3. Extents(x, e) = ShapeLen(e, live, u, m, 0)
        BY <1>5
      <4>4. (~other) <=> live
        BY <1>1
      <4>5. CASE e /\ live
        BY <4>1, <4>2, <4>3, <4>4, <4>5 DEF ShapeLen
      <4>6. CASE e /\ ~live
        BY <4>1, <4>2, <4>3, <4>4, <4>6 DEF ShapeLen
      <4>7. CASE ~e
        BY <4>1, <4>2, <4>3, <4>7 DEF ShapeLen
      <4> QED BY <4>5, <4>6, <4>7
    <3> QED BY <1>5, <3>1, <3>9, <3>10, <3>11 DEF Shape
  <2> QED BY <2>1, <2>2
<1> QED BY <1>1, <1>2, <1>4, <1>6, <1>7

\* What is left of the first and of the last range, and the new range.
Ahead(rs, at, pos, live, lo) == IF Is(rs, lo, live) THEN 0 ELSE pos - at[lo]
Behind(rs, at, end, live, last) == IF Is(rs, last, live) THEN 0 ELSE at[last + 1] - end
Joins(rs, at, pos, live, lo) == Is(rs, lo, live) /\ at[lo] < pos
NewBeg(rs, at, pos, live, lo) == IF Joins(rs, at, pos, live, lo) THEN at[lo] ELSE pos
NewEnd(rs, at, end, live, hi) == IF Is(rs, hi, live) THEN Max({at[hi + 1], end}) ELSE end

\* They fill the place of the ranges, and alternate with their neighbours.
LEMMA MarkFits ==
    ASSUME NEW rs, NEW at, Ats(rs, at), Alternates(rs), NEW live \in BOOLEAN,
           NEW pos \in Nat, NEW end \in Nat, pos < end,
           NEW i, NEW lo, NEW last, NEW hi, Area(rs, at, pos, end, live, i, lo, last, hi),
           NEW u, u = Ahead(rs, at, pos, live, lo), NEW v, v = Behind(rs, at, end, live, last),
           NEW m, m = NewEnd(rs, at, end, live, hi) - NewBeg(rs, at, pos, live, lo)
    PROVE  /\ u \in Nat /\ v \in Nat /\ m \in Nat /\ m > 0
           /\ at[lo] + u + m + v = at[hi + 1]
           /\ u > 0 <=> (~Is(rs, lo, live) /\ at[lo] < pos)
           /\ v > 0 <=> (~Is(rs, last, live) /\ at[last + 1] > end)
           /\ lo > 1 => (u > 0 <=> Is(rs, lo - 1, live))
           /\ hi < Len(rs) => (v > 0 <=> Is(rs, hi + 1, live))
<1>1. PICK l : l = Len(rs) /\ l \in Nat
  BY DEF Ats
<1>2. /\ \A k \in 1..(l + 1) : at[k] \in Nat
      /\ \A k \in 1..l : at[k + 1] = at[k] + rs[k].len /\ rs[k].len \in Nat /\ rs[k].len > 0
      /\ \A j \in 1..(l + 1) : \A k \in 1..j : at[k] <= at[j]
      /\ rs \in Seq(Rng)
  BY <1>1 DEF Ats
<1>3. /\ \A k \in 1..(l - 1) : Is(rs, k, live) <=> ~Is(rs, k + 1, live)
      /\ \A k \in 2..l : Is(rs, k, live) <=> ~Is(rs, k - 1, live)
  BY <1>1, <1>2, Turns
<1>4. lo \in 1..l /\ last \in lo..l /\ hi \in last..l
  BY <1>1 DEF Area
<1>5. /\ at[lo] <= pos /\ pos <= at[lo + 1]
      /\ (pos = at[lo + 1] => Is(rs, lo, live))
      /\ (at[lo] = pos /\ lo > 1 => ~Is(rs, lo - 1, live))
  BY DEF Area, Left
<1>6. /\ at[last] < end /\ end <= at[last + 1]
      /\ (hi = last \/ (hi = last + 1 /\ end = at[hi] /\ Is(rs, hi, live)))
      /\ (end = at[last + 1] /\ last < l /\ Is(rs, last + 1, live) => hi = last + 1)
  BY <1>1 DEF Area, Right
<1>7. /\ at[lo] \in Nat /\ at[lo + 1] \in Nat /\ at[last] \in Nat /\ at[last + 1] \in Nat
      /\ at[hi + 1] \in Nat /\ at[hi] \in Nat
  <2>1. /\ lo \in 1..(l + 1) /\ lo + 1 \in 1..(l + 1) /\ last \in 1..(l + 1)
        /\ last + 1 \in 1..(l + 1) /\ hi + 1 \in 1..(l + 1) /\ hi \in 1..(l + 1)
    BY <1>1, <1>4
  <2> QED BY <1>2, <2>1
<1>8. at[hi + 1] = at[hi] + rs[hi].len /\ rs[hi].len \in Nat /\ rs[hi].len > 0 /\ hi \in Nat
  <2>1. hi \in 1..l
    BY <1>1, <1>4
  <2> QED BY <1>2, <2>1
<1>9. PICK b, f : b = NewBeg(rs, at, pos, live, lo) /\ f = NewEnd(rs, at, end, live, hi)
  OBVIOUS
<1>10. u \in Nat /\ b \in Nat /\ at[lo] + u = b /\ b <= pos
  <2>1. CASE Is(rs, lo, live)
    BY <1>5, <1>7, <1>9, <2>1 DEF Ahead, NewBeg, Joins
  <2>2. CASE ~Is(rs, lo, live)
    BY <1>5, <1>7, <1>9, <2>2 DEF Ahead, NewBeg, Joins
  <2> QED BY <2>1, <2>2
<1>11. v \in Nat
  BY <1>6, <1>7 DEF Behind
<1>12. u > 0 <=> (~Is(rs, lo, live) /\ at[lo] < pos)
  BY <1>5, <1>7 DEF Ahead
<1>13. v > 0 <=> (~Is(rs, last, live) /\ at[last + 1] > end)
  BY <1>6, <1>7 DEF Behind
<1>14. hi = last + 1 => ~Is(rs, last, live) /\ v = 0
  <2>1. SUFFICES ASSUME hi = last + 1 PROVE ~Is(rs, last, live) /\ v = 0
    OBVIOUS
  <2>2. last # hi /\ last \in 1..(l - 1)
    BY <1>1, <1>4, <2>1
  <2>3. end = at[last + 1] /\ Is(rs, last + 1, live)
    BY <1>6, <2>1, <2>2
  <2>4. ~Is(rs, last, live)
    BY <1>3, <2>2, <2>3
  <2> QED BY <1>7, <2>3, <2>4 DEF Behind
<1>15. f \in Nat /\ end <= f /\ f + v = at[hi + 1]
  <2>1. Max({at[hi + 1], end}) = IF at[hi + 1] <= end THEN end ELSE at[hi + 1]
    <3>1. PICK w \in Int : w = at[hi + 1]
      BY <1>7
    <3>2. end \in Int
      OBVIOUS
    <3>3. Max({w, end}) = IF w <= end THEN end ELSE w
      BY <3>2, OfTwo
    <3> QED BY <3>1, <3>3
  <2>2. CASE hi = last + 1
    <3>1. hi # last
      BY <1>1, <1>4, <2>2
    <3>2. end = at[hi] /\ Is(rs, hi, live) /\ v = 0
      BY <1>6, <1>14, <2>2, <3>1
    <3>3. f = at[hi + 1]
      BY <1>7, <1>8, <1>9, <2>1, <3>2 DEF NewEnd
    <3> QED BY <1>7, <1>8, <3>2, <3>3
  <2>3. CASE hi = last /\ Is(rs, hi, live)
    <3>1. f = at[hi + 1]
      BY <1>6, <1>7, <1>9, <2>1, <2>3 DEF NewEnd
    <3>2. v = 0
      BY <2>3 DEF Behind
    <3> QED BY <1>6, <1>7, <2>3, <3>1, <3>2
  <2>4. CASE hi = last /\ ~Is(rs, hi, live)
    <3>1. f = end
      BY <1>9, <2>4 DEF NewEnd
    <3>2. v = at[hi + 1] - end
      BY <2>4 DEF Behind
    <3> QED BY <1>7, <3>1, <3>2
  <2> QED BY <1>6, <2>2, <2>3, <2>4
<1>16. m \in Nat /\ m > 0 /\ at[lo] + u + m + v = at[hi + 1]
  <2>1. m = f - b
    BY <1>9
  <2> QED BY <1>7, <1>10, <1>11, <1>15, <2>1
<1>17. lo > 1 => (u > 0 <=> Is(rs, lo - 1, live))
  <2>1. SUFFICES ASSUME lo > 1 PROVE u > 0 <=> Is(rs, lo - 1, live)
    OBVIOUS
  <2>2. lo \in 2..l
    BY <1>1, <1>4, <2>1
  <2>3. Is(rs, lo, live) <=> ~Is(rs, lo - 1, live)
    BY <1>3, <2>2
  <2>4. at[lo] = pos => ~Is(rs, lo - 1, live)
    BY <1>5, <2>1
  <2>5. at[lo] = pos \/ at[lo] < pos
    BY <1>5, <1>7
  <2> QED BY <1>12, <2>3, <2>4, <2>5
<1>18. hi < l => (v > 0 <=> Is(rs, hi + 1, live))
  <2>1. SUFFICES ASSUME hi < l PROVE v > 0 <=> Is(rs, hi + 1, live)
    OBVIOUS
  <2>2. hi \in 1..(l - 1)
    BY <1>1, <1>4, <2>1
  <2>3. Is(rs, hi, live) <=> ~Is(rs, hi + 1, live)
    BY <1>3, <2>2
  <2>4. CASE hi = last + 1
    <3>1. hi # last
      BY <1>1, <1>4, <2>4
    <3>2. Is(rs, hi, live) /\ v = 0
      BY <1>6, <1>14, <2>4, <3>1
    <3> QED BY <2>3, <3>2
  <2>5. CASE hi = last
    <3>1. hi # last + 1
      BY <1>1, <1>4, <2>5
    <3>2. end = at[last + 1] => ~Is(rs, hi + 1, live)
      BY <1>6, <2>1, <2>5, <3>1
    <3>3. end = at[last + 1] \/ at[last + 1] > end
      BY <1>6, <1>7
    <3> QED BY <1>13, <2>3, <2>5, <3>2, <3>3
  <2> QED BY <1>6, <2>4, <2>5
<1> QED BY <1>1, <1>10, <1>11, <1>12, <1>13, <1>16, <1>17, <1>18

-----------------------------------------------------------------------------
(* What a mark changes *)

\* The text before range k that does not have the liveness of the mark.
Apart(rs, live, k) ==
    IF live THEN Start(rs, k, FALSE) - Start(rs, k, TRUE) ELSE Start(rs, k, TRUE)

LEMMA ApartIs ==
    ASSUME NEW rs \in Seq(Rng), NEW live \in BOOLEAN
    PROVE  /\ \A k \in 1..(Len(rs) + 1) : Apart(rs, live, k) \in Int
           /\ \A k \in 1..Len(rs) : Apart(rs, live, k + 1) =
                Apart(rs, live, k) + (IF Is(rs, k, live) THEN 0 ELSE rs[k].len)
<1>1. PICK l : l = Len(rs) /\ l \in Nat
  <2>1. Len(rs) \in Nat
    BY LenProperties
  <2> QED BY <2>1
<1>2. ASSUME NEW k \in 1..(l + 1)
      PROVE  Start(rs, k, FALSE) \in Nat /\ Start(rs, k, TRUE) \in Nat
  BY <1>1, StartIs
<1>3. ASSUME NEW k \in 1..(l + 1) PROVE Apart(rs, live, k) \in Int
  <2>1. PICK a, b : a = Start(rs, k, FALSE) /\ b = Start(rs, k, TRUE)
    OBVIOUS
  <2>2. a \in Nat /\ b \in Nat
    BY <1>2, <2>1
  <2>3. Apart(rs, live, k) = IF live THEN a - b ELSE b
    BY <2>1 DEF Apart
  <2> QED BY <2>2, <2>3
<1>4. ASSUME NEW k \in 1..l
      PROVE  Apart(rs, live, k + 1) =
                Apart(rs, live, k) + (IF Is(rs, k, live) THEN 0 ELSE rs[k].len)
  <2>1. PICK a, b : a = Start(rs, k, FALSE) /\ b = Start(rs, k, TRUE)
    OBVIOUS
  <2>2. PICK c, d : c = Start(rs, k + 1, FALSE) /\ d = Start(rs, k + 1, TRUE)
    OBVIOUS
  <2>3. rs[k] \in Rng /\ k \in 1..(l + 1)
    BY <1>1
  <2>4. PICK n, b1 : n = rs[k].len /\ b1 = rs[k].live /\ n \in Nat /\ b1 \in BOOLEAN
    BY <2>3, ExtentIs
  <2>5. c = a + n
    <3>1. Extent(rs[k], FALSE) = n
      BY <2>3, <2>4, ExtentIs
    <3>2. Start(rs, k + 1, FALSE) = Start(rs, k, FALSE) + Extent(rs[k], FALSE)
      BY <1>1, StartIs
    <3> QED BY <2>1, <2>2, <3>1, <3>2
  <2>6. d = b + (IF b1 THEN n ELSE 0)
    <3>1. Extent(rs[k], TRUE) = IF b1 THEN n ELSE 0
      BY <2>3, <2>4, ExtentIs
    <3>2. Start(rs, k + 1, TRUE) = Start(rs, k, TRUE) + Extent(rs[k], TRUE)
      BY <1>1, StartIs
    <3> QED BY <2>1, <2>2, <3>1, <3>2
  <2>7. a \in Nat /\ b \in Nat
    BY <1>2, <2>1, <2>3
  <2>8. Apart(rs, live, k) = IF live THEN a - b ELSE b
    BY <2>1 DEF Apart
  <2>9. Apart(rs, live, k + 1) = IF live THEN c - d ELSE d
    BY <2>2 DEF Apart
  <2>10. Is(rs, k, live) <=> b1 = live
    BY <2>4 DEF Is
  <2>11. CASE live
    <3>1. Is(rs, k, live) <=> b1
      BY <2>4, <2>10, <2>11
    <3>2. CASE b1
      <4>1. d = b + n /\ c = a + n /\ Is(rs, k, live)
        BY <2>5, <2>6, <3>1, <3>2
      <4>2. c - d = a - b + 0
        BY <2>4, <2>7, <4>1
      <4> QED BY <2>8, <2>9, <2>11, <4>1, <4>2
    <3>3. CASE ~b1
      <4>1. d = b + 0 /\ c = a + n /\ ~Is(rs, k, live)
        BY <2>5, <2>6, <3>1, <3>3
      <4>2. c - d = a - b + n
        BY <2>4, <2>7, <4>1
      <4> QED BY <2>4, <2>8, <2>9, <2>11, <4>1, <4>2
    <3> QED BY <3>2, <3>3
  <2>12. CASE ~live
    <3>1. Is(rs, k, live) <=> ~b1
      BY <2>4, <2>10, <2>12
    <3> QED BY <2>4, <2>5, <2>6, <2>7, <2>8, <2>9, <2>12, <3>1
  <2> QED BY <2>11, <2>12
<1> QED BY <1>1, <1>3, <1>4

\* Segments, how many characters they have, and whether they are apart.
Segs == [pos : Nat, len : Nat]
SegSum == INSTANCE FoldLemmas WITH Op <- LAMBDA p, x, y : x + y.len
SegsLen(parts) == FoldLeft(LAMBDA n, s : n + s.len, 0, parts)
NoTouch(parts) ==
    \A k \in 1..(Len(parts) - 1) : parts[k].pos + parts[k].len < parts[k + 1].pos

LEMMA SegsLenIs ==
    ASSUME NEW parts
    PROVE  SegsLen(parts) = SegSum!Fold(0, 0, parts)
BY DEF SegsLen, SegSum!Fold, FoldLeft, MapThenFoldSet, SegSum!FoldLeft,
   SegSum!MapThenFoldSet, Max, SegSum!Max

LEMMA SegsLenNext ==
    /\ SegsLen(<< >>) = 0
    /\ \A parts \in Seq(Segs) : \A s \in Segs :
         SegsLen(Append(parts, s)) = SegsLen(parts) + s.len
<1>1. SegsLen(<< >>) = 0
  <2>1. PICK s : s = << >>
    OBVIOUS
  <2>2. SegSum!Fold(0, 0, s) = 0
    BY <2>1, SegSum!FoldEmpty
  <2> QED BY <2>1, <2>2, SegsLenIs
<1>2. ASSUME NEW parts \in Seq(Segs), NEW s \in Segs
      PROVE  SegsLen(Append(parts, s)) = SegsLen(parts) + s.len
  <2>1. SegSum!Fold(0, 0, Append(parts, s)) = SegSum!Fold(0, 0, parts) + s.len
    BY SegSum!FoldAppend
  <2> QED BY <2>1, SegsLenIs
<1> QED BY <1>1, <1>2

\* The part of range i that a mark changes; p is <<rs, at, pos, end, live>>.
FlipPart(p, i) ==
    LET b == Max({p[2][i], p[3]}) IN Seg(b, Min({p[2][i + 1], p[4]}) - b)
FlipStep(p, parts, i) ==
    IF p[1][i].live # p[5] /\ p[2][i] < p[4] /\ p[2][i + 1] > p[3]
    THEN Append(parts, FlipPart(p, i)) ELSE parts
Flips == INSTANCE FoldLemmas WITH Op <- LAMBDA p, x, y : FlipStep(p, x, y)
Indices(lo, n) == [k \in 1..n |-> lo + k - 1]

LEMMA FlippedIs ==
    ASSUME NEW p, NEW lo, NEW hi
    PROVE  Flipped(p[1], p[2], lo, hi, p[3], p[4], p[5])
             = Flips!Fold(p, << >>, Indices(lo, hi - lo + 1))
BY DEF Flipped, FlipStep, FlipPart, Indices, Flips!Fold, FoldLeft, MapThenFoldSet,
   Flips!FoldLeft, Flips!MapThenFoldSet, Max, Flips!Max

LEMMA IndicesNext ==
    ASSUME NEW lo \in Nat
    PROVE  /\ Indices(lo, 0) = << >>
           /\ \A n \in Nat : Indices(lo, n) \in Seq(Nat)
                             /\ Indices(lo, n + 1) = Append(Indices(lo, n), lo + n)
<1>1. Indices(lo, 0) = << >>
  BY DEF Indices
<1>2. ASSUME NEW n \in Nat
      PROVE  Indices(lo, n) \in Seq(Nat) /\ Len(Indices(lo, n)) = n
             /\ \A k \in 1..n : Indices(lo, n)[k] = lo + k - 1
  <2>1. \A k \in 1..n : lo + k - 1 \in Nat
    OBVIOUS
  <2> QED BY <2>1 DEF Indices
<1>3. ASSUME NEW n \in Nat PROVE Indices(lo, n + 1) = Append(Indices(lo, n), lo + n)
  <2>1. PICK m, s, t, w : m = n + 1 /\ s = Indices(lo, n) /\ t = Indices(lo, m) /\ w = lo + n
    OBVIOUS
  <2>2. m \in Nat /\ w \in Nat
    BY <2>1
  <2>3. t \in Seq(Nat) /\ Len(t) = m /\ \A k \in 1..m : t[k] = lo + k - 1
    BY <1>2, <2>1, <2>2
  <2>4. s \in Seq(Nat) /\ Len(s) = n /\ \A k \in 1..n : s[k] = lo + k - 1
    BY <1>2, <2>1
  <2>5. PICK r : r = Append(s, w)
    OBVIOUS
  <2>6. r \in Seq(Nat) /\ Len(r) = m /\ r[m] = w /\ \A k \in 1..n : r[k] = s[k]
    BY <2>1, <2>2, <2>4, <2>5, AppendProperties
  <2>7. ASSUME NEW k \in 1..m PROVE t[k] = r[k]
    <3>1. CASE k = m
      <4>1. lo + m - 1 = w
        BY <2>1
      <4> QED BY <2>3, <2>6, <3>1, <4>1
    <3>2. CASE k # m
      <4>1. k \in 1..n
        BY <2>1, <3>2
      <4> QED BY <2>3, <2>4, <2>6, <4>1
    <3> QED BY <3>1, <3>2
  <2>8. t = r
    BY <2>3, <2>6, <2>7, SeqEqual
  <2> QED BY <2>1, <2>5, <2>8
<1> QED BY <1>1, <1>2, <1>3

LastEnd(parts) == parts[Len(parts)].pos + parts[Len(parts)].len

\* The parts of the ranges before k.
FlipInv(rs, at, live, lo, last, u, v, k, parts) ==
    /\ parts \in Seq(Segs) /\ NoTouch(parts)
    /\ k = lo => parts = << >>
    /\ k > lo => SegsLen(parts) = Apart(rs, live, k) - Apart(rs, live, lo) - u
                                     - (IF k = last + 1 THEN v ELSE 0)
    /\ parts # << >> => LastEnd(parts) <= at[k]
                        /\ (Is(rs, k - 1, live) => LastEnd(parts) < at[k])

LEMMA FlipNext ==
    ASSUME NEW rs, NEW at, Ats(rs, at), Alternates(rs), NEW live \in BOOLEAN,
           NEW pos \in Nat, NEW end \in Nat, pos < end,
           NEW i, NEW lo, NEW last, NEW hi, Area(rs, at, pos, end, live, i, lo, last, hi),
           NEW u, u = Ahead(rs, at, pos, live, lo), NEW v, v = Behind(rs, at, end, live, last),
           NEW p, p[1] = rs, p[2] = at, p[3] = pos, p[4] = end, p[5] = live,
           NEW k \in lo..last, NEW parts, FlipInv(rs, at, live, lo, last, u, v, k, parts)
    PROVE  FlipInv(rs, at, live, lo, last, u, v, k + 1, FlipStep(p, parts, k))
<1>1. PICK l : l = Len(rs) /\ l \in Nat
  BY DEF Ats
<1>2. /\ \A j \in 1..(l + 1) : at[j] \in Nat
      /\ \A j \in 1..l : at[j + 1] = at[j] + rs[j].len /\ rs[j].len \in Nat /\ rs[j].len > 0
      /\ \A j \in 1..(l + 1) : \A h \in 1..j : at[h] <= at[j]
      /\ rs \in Seq(Rng)
  BY <1>1 DEF Ats
<1>3. lo \in 1..l /\ last \in lo..l /\ k \in 1..l /\ last \in Nat /\ lo \in Nat /\ k \in Nat
  <2>1. lo \in 1..l /\ last \in lo..l
    BY <1>1 DEF Area
  <2> QED BY <1>1, <2>1
<1>4. at[lo] <= pos /\ pos <= at[lo + 1] /\ (pos = at[lo + 1] => Is(rs, lo, live))
  BY DEF Area, Left
<1>5. at[last] < end /\ end <= at[last + 1]
  BY DEF Area, Right
<1>6. PICK n : n = k + 1
  OBVIOUS
<1>7. /\ n \in 1..(l + 1) /\ n \in Nat /\ n # lo /\ n > lo /\ n - 1 = k
      /\ (n = last + 1 <=> k = last) /\ k # last + 1
  BY <1>1, <1>3, <1>6
<1>8. PICK a, b, g : a = at[k] /\ b = at[n] /\ g = rs[k].len
  OBVIOUS
<1>9. a \in Nat /\ b \in Nat /\ g \in Nat /\ g > 0 /\ b = a + g
  <2>1. k \in 1..(l + 1) /\ k \in 1..l
    BY <1>1, <1>3
  <2> QED BY <1>2, <1>6, <1>7, <1>8, <2>1
<1>10. PICK x, y, z : x = Apart(rs, live, k) /\ y = Apart(rs, live, lo) /\ z = Apart(rs, live, n)
  OBVIOUS
<1>11. x \in Int /\ y \in Int /\ z = x + (IF Is(rs, k, live) THEN 0 ELSE g)
  <2>1. k \in 1..(l + 1) /\ lo \in 1..(l + 1) /\ k \in 1..l
    BY <1>1, <1>3
  <2> QED BY <1>1, <1>2, <1>6, <1>8, <1>10, <2>1, ApartIs
<1>12. /\ parts \in Seq(Segs) /\ NoTouch(parts)
       /\ (k = lo => parts = << >>)
       /\ (k > lo => SegsLen(parts) = x - y - u - (IF k = last + 1 THEN v ELSE 0))
       /\ (parts # << >> => LastEnd(parts) <= a /\ (Is(rs, k - 1, live) => LastEnd(parts) < a))
  BY <1>8, <1>10 DEF FlipInv
<1>13. k = lo \/ k > lo
  BY <1>3
<1>14. at[lo] \in Nat /\ at[lo + 1] \in Nat /\ at[last] \in Nat /\ at[last + 1] \in Nat
  <2>1. lo \in 1..(l + 1) /\ lo + 1 \in 1..(l + 1) /\ last \in 1..(l + 1) /\ last + 1 \in 1..(l + 1)
    BY <1>1, <1>3
  <2> QED BY <1>2, <2>1
<1>15. u \in Nat /\ v \in Nat
  BY <1>4, <1>5, <1>14 DEF Ahead, Behind
<1>16. CASE Is(rs, k, live)
  <2>1. FlipStep(p, parts, k) = parts
    BY <1>16 DEF FlipStep, Is
  <2>2. SegsLen(parts) = z - y - u - (IF n = last + 1 THEN v ELSE 0)
    <3>1. k = last => v = 0
      BY <1>16 DEF Behind
    <3>2. z = x
      BY <1>11, <1>16
    <3>3. CASE k = lo
      <4>1. SegsLen(parts) = 0 /\ u = 0 /\ x = y
        BY <1>10, <1>12, <1>16, <3>3, SegsLenNext DEF Ahead
      <4> QED BY <1>7, <1>11, <1>15, <3>1, <3>2, <4>1
    <3>4. CASE k > lo
      <4>1. SegsLen(parts) = x - y - u - 0
        BY <1>7, <1>12, <3>4
      <4> QED BY <1>7, <1>11, <1>15, <3>1, <3>2, <4>1
    <3> QED BY <1>13, <3>3, <3>4
  <2>3. parts # << >> => LastEnd(parts) < at[n]
    <3>1. SUFFICES ASSUME parts # << >> PROVE LastEnd(parts) < b
      BY <1>8
    <3>2. LastEnd(parts) <= a
      BY <1>12, <3>1
    <3>3. PICK e : e = Len(parts) /\ e \in 1..Len(parts)
      <4>1. Len(parts) \in Nat \ {0}
        BY <1>12, <3>1, LenProperties, EmptySeq
      <4> QED BY <4>1
    <3>4. parts[e] \in Segs
      BY <1>12, <3>3
    <3>5. LastEnd(parts) \in Nat
      BY <3>3, <3>4 DEF LastEnd, Segs
    <3> QED BY <1>9, <3>2, <3>5
  <2>4. parts # << >> => LastEnd(parts) <= at[n]
    <3>1. SUFFICES ASSUME parts # << >> PROVE LastEnd(parts) <= b
      BY <1>8
    <3>2. PICK e : e = Len(parts) /\ e \in 1..Len(parts)
      <4>1. Len(parts) \in Nat \ {0}
        BY <1>12, <3>1, LenProperties, EmptySeq
      <4> QED BY <4>1
    <3>3. parts[e] \in Segs
      BY <1>12, <3>2
    <3>4. LastEnd(parts) \in Nat
      BY <3>2, <3>3 DEF LastEnd, Segs
    <3>5. LastEnd(parts) < b
      BY <1>8, <2>3, <3>1
    <3> QED BY <1>9, <3>4, <3>5
  <2>5. FlipInv(rs, at, live, lo, last, u, v, n, parts)
    BY <1>7, <1>10, <1>12, <2>2, <2>3, <2>4 DEF FlipInv
  <2> QED BY <1>6, <2>1, <2>5
<1>17. CASE ~Is(rs, k, live)
  <2>1. a < end /\ b > pos
    <3>1. at[k] <= at[last] /\ at[lo + 1] <= at[n]
      <4>1. last \in 1..(l + 1) /\ k \in 1..last /\ lo + 1 \in 1..n
        BY <1>1, <1>3, <1>6
      <4> QED BY <1>2, <1>7, <4>1
    <3>2. a < end
      BY <1>5, <1>8, <1>9, <1>14, <3>1
    <3>3. CASE k = lo
      <4>1. pos # at[lo + 1] /\ n = lo + 1
        BY <1>4, <1>6, <1>17, <3>3
      <4> QED BY <1>4, <1>8, <1>14, <3>2, <4>1
    <3>4. CASE k > lo
      <4>1. lo + 1 \in 1..k /\ k \in 1..(l + 1)
        BY <1>1, <1>3, <3>4
      <4>2. at[lo + 1] <= a
        BY <1>2, <1>8, <4>1
      <4> QED BY <1>4, <1>9, <1>14, <3>2, <4>2
    <3> QED BY <1>13, <3>3, <3>4
  <2>2. PICK s, f : s = Max({a, pos}) /\ f = Min({b, end})
    OBVIOUS
  <2>3. s = IF a <= pos THEN pos ELSE a
    <3>1. a \in Int /\ pos \in Int
      BY <1>9
    <3> QED BY <2>2, <3>1, OfTwo
  <2>4. f = IF b <= end THEN b ELSE end
    <3>1. b \in Int /\ end \in Int
      BY <1>9
    <3> QED BY <2>2, <3>1, OfTwo
  <2>5. PICK w : w = Seg(s, f - s)
    OBVIOUS
  <2>6. s \in Nat /\ f \in Nat /\ a <= s /\ s < f /\ f <= b /\ f - s \in Nat /\ s + (f - s) = f
    BY <1>9, <2>1, <2>3, <2>4
  <2>7. w \in Segs /\ w.pos = s /\ w.len = f - s
    BY <2>5, <2>6 DEF Seg, Segs
  <2>8. FlipPart(p, k) = w
    BY <1>6, <1>8, <2>2, <2>5 DEF FlipPart
  <2>9. FlipStep(p, parts, k) = Append(parts, w)
    BY <1>6, <1>8, <1>17, <2>1, <2>8 DEF FlipStep, Is
  <2>10. PICK parts1, e, h : parts1 = Append(parts, w) /\ e = Len(parts) /\ h = e + 1
    OBVIOUS
  <2>11. /\ parts1 \in Seq(Segs) /\ Len(parts1) = h /\ parts1[h] = w /\ e \in Nat
         /\ \A j \in 1..e : parts1[j] = parts[j]
    <3>1. e \in Nat
      BY <1>12, <2>10, LenProperties
    <3> QED BY <1>12, <2>7, <2>10, <3>1, AppendProperties
  <2>12. SegsLen(parts1) = SegsLen(parts) + (f - s)
    BY <1>12, <2>7, <2>10, SegsLenNext
  <2>13. s = (IF k = lo THEN pos ELSE a) /\ (k = lo => u = pos - a)
    <3>1. CASE k = lo
      BY <1>4, <1>8, <1>17, <2>3, <3>1 DEF Ahead
    <3>2. CASE k > lo
      <4>1. lo + 1 \in 1..k /\ k \in 1..(l + 1) /\ k # lo
        BY <1>1, <1>3, <3>2
      <4>2. at[lo + 1] <= a
        BY <1>2, <1>8, <4>1
      <4> QED BY <1>4, <1>9, <1>14, <2>3, <4>1, <4>2
    <3> QED BY <1>13, <3>1, <3>2
  <2>14. f = (IF k = last THEN end ELSE b) /\ (k = last => v = b - end)
    <3>1. CASE k = last
      <4>1. v = b - end
        BY <1>6, <1>8, <1>17, <3>1 DEF Behind
      <4>2. end <= b
        BY <1>5, <1>6, <1>8, <3>1
      <4> QED BY <1>9, <2>4, <3>1, <4>1, <4>2
    <3>2. CASE k # last
      <4>1. n \in 1..last /\ last \in 1..(l + 1)
        BY <1>1, <1>3, <1>6, <3>2
      <4>2. b <= at[last]
        BY <1>2, <1>8, <4>1
      <4> QED BY <1>5, <1>9, <1>14, <2>4, <3>2, <4>2
    <3> QED BY <3>1, <3>2
  <2>15. SegsLen(parts1) = z - y - u - (IF n = last + 1 THEN v ELSE 0)
    <3>1. z = x + g
      BY <1>11, <1>17
    <3>2. CASE k = lo
      <4>1. SegsLen(parts) = 0 /\ x = y
        BY <1>10, <1>12, <3>2, SegsLenNext
      <4> QED BY <1>7, <1>9, <1>11, <1>15, <2>6, <2>12, <2>13, <2>14, <3>1, <3>2, <4>1
    <3>3. CASE k > lo
      <4>1. SegsLen(parts) = x - y - u /\ k # lo
        BY <1>3, <1>7, <1>11, <1>12, <1>15, <3>3
      <4> QED BY <1>7, <1>9, <1>11, <1>15, <2>6, <2>12, <2>13, <2>14, <3>1, <4>1
    <3> QED BY <1>13, <3>2, <3>3
  <2>16. NoTouch(parts1)
    <3>1. ASSUME NEW j \in 1..(h - 1)
          PROVE  parts1[j].pos + parts1[j].len < parts1[j + 1].pos
      <4>1. CASE j = e
        <5>1. parts # << >> /\ k > lo
          <6>1. parts # << >>
            BY <1>12, <2>10, <2>11, <4>1
          <6> QED BY <1>12, <1>13, <6>1
        <5>2. Is(rs, k - 1, live)
          <6>1. k \in 2..l
            BY <1>3, <5>1
          <6> QED BY <1>1, <1>2, <1>17, <6>1, Turns
        <5>3. LastEnd(parts) < a
          BY <1>12, <5>1, <5>2
        <5>4. LastEnd(parts) = parts1[j].pos + parts1[j].len
          <6>1. j \in 1..e
            BY <2>11, <4>1
          <6> QED BY <2>10, <2>11, <4>1, <6>1 DEF LastEnd
        <5>5. LastEnd(parts) \in Int
          <6>1. j \in 1..Len(parts)
            BY <2>10, <2>11, <4>1
          <6>2. parts[j] \in Segs
            BY <1>12, <6>1
          <6> QED BY <2>10, <4>1, <6>2 DEF LastEnd, Segs
        <5>6. parts1[j + 1] = w
          BY <2>10, <2>11, <4>1
        <5> QED BY <1>9, <2>6, <2>7, <5>3, <5>4, <5>5, <5>6
      <4>2. CASE j # e
        <5>1. PICK q : q = j + 1
          OBVIOUS
        <5>2. j \in 1..(Len(parts) - 1) /\ j \in 1..e /\ q \in 1..e
          BY <2>10, <2>11, <4>2, <5>1
        <5>3. parts[j].pos + parts[j].len < parts[q].pos
          BY <1>12, <5>1, <5>2 DEF NoTouch
        <5> QED BY <2>11, <5>1, <5>2, <5>3
      <4> QED BY <4>1, <4>2
    <3> QED BY <2>11, <3>1 DEF NoTouch
  <2>17. LastEnd(parts1) <= at[n]
    BY <1>8, <2>6, <2>7, <2>11 DEF LastEnd
  <2>18. ~Is(rs, n - 1, live)
    BY <1>7, <1>17
  <2>19. FlipInv(rs, at, live, lo, last, u, v, n, parts1)
    BY <1>7, <1>10, <2>11, <2>15, <2>16, <2>17, <2>18 DEF FlipInv
  <2> QED BY <1>6, <2>9, <2>10, <2>19
<1> QED BY <1>16, <1>17

\* Everything a mark changes: segments apart from each other, as long in
\* total as what it takes away from the editor's text or gives back to it.
Changes(rs, live, lo, last, u, v, parts) ==
    /\ parts \in Seq(Segs) /\ NoTouch(parts)
    /\ SegsLen(parts) = Apart(rs, live, last + 1) - Apart(rs, live, lo) - u - v

LEMMA FlippedOk ==
    ASSUME NEW rs, NEW at, Ats(rs, at), Alternates(rs), NEW live \in BOOLEAN,
           NEW pos \in Nat, NEW end \in Nat, pos < end,
           NEW i, NEW lo, NEW last, NEW hi, Area(rs, at, pos, end, live, i, lo, last, hi),
           NEW u, u = Ahead(rs, at, pos, live, lo), NEW v, v = Behind(rs, at, end, live, last),
           NEW parts, parts = Flipped(rs, at, lo, last, pos, end, live)
    PROVE  Changes(rs, live, lo, last, u, v, parts)
<1>1. PICK p : p = <<rs, at, pos, end, live>>
  OBVIOUS
<1>2. p[1] = rs /\ p[2] = at /\ p[3] = pos /\ p[4] = end /\ p[5] = live
  BY <1>1
<1>3. lo \in Nat /\ last \in Nat /\ lo <= last /\ last - lo + 1 \in Nat
  <2>1. PICK l : l = Len(rs) /\ l \in Nat
    BY DEF Ats
  <2>2. lo \in 1..l /\ last \in lo..l
    BY <2>1 DEF Area
  <2> QED BY <2>1, <2>2
<1>4. Indices(lo, 0) = << >>
      /\ \A n \in Nat : Indices(lo, n) \in Seq(Nat)
                        /\ Indices(lo, n + 1) = Append(Indices(lo, n), lo + n)
  BY <1>3, IndicesNext
<1> DEFINE Part(n) == Flips!Fold(p, << >>, Indices(lo, n))
<1> DEFINE G == {n \in Nat : lo + n <= last + 1 =>
                               FlipInv(rs, at, live, lo, last, u, v, lo + n, Part(n))}
<1>5. 0 \in G
  <2>1. Part(0) = << >>
    BY <1>4, Flips!FoldEmpty
  <2>2. lo + 0 = lo /\ ~(lo > lo)
    BY <1>3
  <2>3. PICK z : z = << >>
    OBVIOUS
  <2>4. z \in Seq(Segs) /\ NoTouch(z)
    BY <2>3 DEF NoTouch
  <2>5. FlipInv(rs, at, live, lo, last, u, v, lo, z)
    BY <2>2, <2>3, <2>4 DEF FlipInv
  <2> HIDE DEF Part
  <2> QED BY <2>1, <2>2, <2>3, <2>5
<1>6. ASSUME NEW n \in G PROVE n + 1 \in G
  <2> HIDE DEF Part
  <2>1. n \in Nat /\ (lo + n <= last + 1 => FlipInv(rs, at, live, lo, last, u, v, lo + n, Part(n)))
    OBVIOUS
  <2>2. SUFFICES ASSUME lo + (n + 1) <= last + 1
                 PROVE  FlipInv(rs, at, live, lo, last, u, v, lo + (n + 1), Part(n + 1))
    BY <2>1
  <2>3. PICK k : k = lo + n
    OBVIOUS
  <2>4. k \in lo..last /\ lo + (n + 1) = k + 1 /\ lo + n <= last + 1 /\ k \in Nat
    BY <1>3, <2>1, <2>2, <2>3
  <2>5. FlipInv(rs, at, live, lo, last, u, v, k, Part(n))
    BY <2>1, <2>3, <2>4
  <2>6. FlipInv(rs, at, live, lo, last, u, v, k + 1, FlipStep(p, Part(n), k))
    BY <1>2, <2>4, <2>5, FlipNext
  <2>7. Part(n + 1) = FlipStep(p, Part(n), k)
    <3>1. Indices(lo, n) \in Seq(Nat) /\ Indices(lo, n + 1) = Append(Indices(lo, n), k)
      BY <1>4, <2>1, <2>3
    <3>2. PICK s : s = Indices(lo, n)
      OBVIOUS
    <3>3. Flips!Fold(p, << >>, Append(s, k)) = FlipStep(p, Flips!Fold(p, << >>, s), k)
      BY <2>4, <3>1, <3>2, Flips!FoldAppend
    <3> QED BY <3>1, <3>2, <3>3 DEF Part
  <2> QED BY <2>4, <2>6, <2>7
<1>7. G \in SUBSET Nat
  OBVIOUS
<1> HIDE DEF G
<1>8. G = Nat
  BY <1>5, <1>6, <1>7, Flips!Induction
<1>9. PICK n : n = last - lo + 1
  OBVIOUS
<1>10. n \in Nat /\ lo + n = last + 1 /\ lo + n <= last + 1
  BY <1>3, <1>9
<1>11. FlipInv(rs, at, live, lo, last, u, v, last + 1, Part(n))
  <2> HIDE DEF Part
  <2> QED BY <1>8, <1>10 DEF G
<1>12. Flipped(p[1], p[2], lo, last, p[3], p[4], p[5]) = Part(n)
  BY <1>9, FlippedIs
<1>13. parts = Part(n)
  <2> HIDE DEF Part
  <2> QED BY <1>2, <1>12
<1> HIDE DEF Part
<1>14. last + 1 > lo
  BY <1>3
<1> QED BY <1>11, <1>13, <1>14 DEF FlipInv, Changes

\* What becomes of a cursor.
MarkCursor(c, lo, hi, newCur, live, delta, n) ==
    IF c.idx \in lo..hi THEN newCur
    ELSE IF c.idx > hi
    THEN Cursor(IF live THEN c.editor + delta ELSE c.editor - delta, c.internal,
                c.idx + n - (hi - lo + 1))
    ELSE c

LEMMA MarkCursorOk ==
    ASSUME NEW rs \in Seq(Rng), NEW ns, NEW lo, NEW hi, NEW mid, Spliced(rs, ns, lo, hi, mid),
           mid # << >>, NEW live \in BOOLEAN, NEW delta \in Int,
           NEW x, x = (IF live THEN delta ELSE 0 - delta), Growths(rs, lo, hi, mid, x, 0),
           NEW newCur \in CursorsOf(ns), NEW c \in CursorsOf(rs), NEW n, n = Len(mid)
    PROVE  MarkCursor(c, lo, hi, newCur, live, delta, n) \in CursorsOf(ns)
<1>1. PICK l : l = Len(rs) /\ l \in Nat /\ n \in Nat
  <2>1. mid \in Seq(Rng)
    BY DEF Spliced
  <2>2. Len(rs) \in Nat /\ Len(mid) \in Nat
    BY <2>1, LenProperties
  <2> QED BY <2>2
<1>2. lo \in 1..(l + 1) /\ hi \in (lo - 1)..l
  BY <1>1 DEF Spliced
<1>3. PICK i \in 0..l : c = CursorAt(rs, i)
  BY <1>1 DEF CursorsOf
<1>4. c.idx = i
  <2>1. CASE i = 0
    BY <1>3, <2>1, NoCursor
  <2>2. CASE i # 0
    <3>1. i \in Nat
      BY <1>1
    <3> QED BY <1>3, <2>2, <3>1, CursorAtIs
  <2> QED BY <2>1, <2>2
<1>5. CASE i \in lo..hi
  BY <1>4, <1>5 DEF MarkCursor
<1>6. CASE i > hi
  <2>1. i \in (hi + 1)..l /\ i \in Nat /\ i # 0 /\ ~(i \in lo..hi) /\ i \in 1..(l + 1)
    BY <1>1, <1>2, <1>6
  <2>2. PICK by, j : by = n - (hi - lo + 1) /\ j = i + by
    OBVIOUS
  <2>3. Gap(lo, hi, mid, by) /\ j = i + n - (hi - lo + 1)
    <3>1. j = i + n - (hi - lo + 1)
      BY <1>1, <1>2, <2>1, <2>2
    <3> QED BY <2>2, <3>1 DEF Gap
  <2>4. PICK zero : zero = 0
    OBVIOUS
  <2>5. CursorAt(ns, j) = CursorBy(rs, i, x, zero, j) /\ CursorAt(ns, j) \in CursorsOf(ns)
    BY <1>1, <2>1, <2>2, <2>3, <2>4, CursorMoves
  <2>6. c.editor = Start(rs, i, TRUE) /\ c.internal = Start(rs, i, FALSE)
    BY <1>3, <2>1, CursorAtIs
  <2>7. c.editor \in Nat /\ c.internal \in Nat
    <3>1. Start(rs, i, TRUE) \in Nat
      BY <1>1, <2>1, StartIs
    <3>2. Start(rs, i, FALSE) \in Nat
      BY <1>1, <2>1, StartIs
    <3> QED BY <2>6, <3>1, <3>2
  <2>8. (IF live THEN c.editor + delta ELSE c.editor - delta) = c.editor + x
        /\ c.internal = c.internal + zero
    BY <2>4, <2>7
  <2>9. MarkCursor(c, lo, hi, newCur, live, delta, n) = Cursor(c.editor + x, c.internal + zero, j)
    BY <1>4, <1>6, <2>1, <2>3, <2>8 DEF MarkCursor
  <2> QED BY <2>5, <2>6, <2>9 DEF CursorBy
<1>7. CASE ~(i \in lo..hi) /\ ~(i > hi)
  <2>1. i \in 0..lo
    BY <1>1, <1>2, <1>7
  <2>2. c \in CursorsOf(ns)
    BY <1>3, <2>1, CursorStays
  <2> QED BY <1>4, <1>7, <2>2 DEF MarkCursor
<1> QED BY <1>5, <1>6, <1>7

\* Ranges that end as a mark's do fit in.
LEMMA MarkAlternates ==
    ASSUME NEW rs, NEW ns, NEW lo, NEW hi, NEW mid, NEW live, NEW u, NEW v,
           rs \in Seq(Rng), lo \in 1..Len(rs), Spliced(rs, ns, lo, hi, mid), live \in BOOLEAN,
           Alternates(rs), mid \in Seq(Rng), mid # << >>, Alternates(mid),
           lo > 1 => (u > 0 <=> Is(rs, lo - 1, live)),
           hi < Len(rs) => (v > 0 <=> Is(rs, hi + 1, live)),
           IF u > 0 THEN mid[1].live # live ELSE mid[1].live = live,
           IF v > 0 THEN mid[Len(mid)].live # live ELSE mid[Len(mid)].live = live
    PROVE  Alternates(ns)
<1>1. PICK l : l = Len(rs) /\ l \in Nat
  BY LenProperties
<1>2. mid[1].live \in BOOLEAN /\ mid[Len(mid)].live \in BOOLEAN
  <2>1. PICK n, o : n = Len(mid) /\ o = 1 /\ n \in 1..Len(mid) /\ o \in 1..Len(mid)
    <3>1. Len(mid) \in Nat \ {0}
      BY LenProperties, EmptySeq
    <3> QED BY <3>1
  <2>2. mid[n] \in Rng /\ mid[o] \in Rng
    BY <2>1
  <2>3. mid[n].live \in BOOLEAN /\ mid[o].live \in BOOLEAN
    BY <2>2, ExtentIs
  <2> QED BY <2>1, <2>3
<1>3. ASSUME NEW k \in 1..l PROVE rs[k].live \in BOOLEAN
  <2>1. rs[k] \in Rng
    BY <1>1
  <2> QED BY <2>1, ExtentIs
<1>4. lo > 1 => rs[lo - 1].live # mid[1].live
  <2>1. SUFFICES ASSUME lo > 1 PROVE rs[lo - 1].live # mid[1].live
    OBVIOUS
  <2>2. PICK k : k = lo - 1
    OBVIOUS
  <2>3. rs[k].live \in BOOLEAN
    <3>1. l \in Nat
      BY <1>1
    <3>2. k \in 1..l
      BY <1>1, <2>1, <2>2, <3>1
    <3> QED BY <1>3, <3>2
  <2>4. u > 0 <=> rs[k].live = live
    BY <2>1, <2>2 DEF Is
  <2>5. CASE u > 0
    <3>1. rs[k].live = live /\ mid[1].live # live
      BY <2>4, <2>5
    <3> QED BY <2>2, <3>1
  <2>6. CASE ~(u > 0)
    <3>1. rs[k].live # live /\ mid[1].live = live
      BY <2>4, <2>6
    <3> QED BY <2>2, <3>1
  <2> QED BY <2>5, <2>6
<1>5. hi < Len(rs) => mid[Len(mid)].live # rs[hi + 1].live
  <2>1. SUFFICES ASSUME hi < Len(rs) PROVE mid[Len(mid)].live # rs[hi + 1].live
    OBVIOUS
  <2>2. PICK k : k = hi + 1
    OBVIOUS
  <2>3. v > 0 <=> rs[k].live = live
    BY <2>1, <2>2 DEF Is
  <2>4. CASE v > 0
    <3>1. rs[k].live = live /\ mid[Len(mid)].live # live
      BY <2>3, <2>4
    <3> QED BY <2>2, <3>1
  <2>5. CASE ~(v > 0)
    <3>1. rs[k].live # live /\ mid[Len(mid)].live = live
      BY <2>3, <2>5
    <3> QED BY <2>2, <3>1
  <2> QED BY <2>4, <2>5
<1> QED BY <1>4, <1>5, SplicedAlternates, Zenon

\* What the ranges in between add up to, and how far what is behind them
\* moves.
LEMMA MarkGrowths ==
    ASSUME NEW rs, NEW at, Ats(rs, at), NEW live \in BOOLEAN,
           NEW lo \in 1..Len(rs), NEW last \in lo..Len(rs), NEW hi \in last..Len(rs),
           hi = last \/ (hi = last + 1 /\ Is(rs, hi, live)),
           NEW u \in Nat, NEW v \in Nat, NEW m \in Nat, at[lo] + u + m + v = at[hi + 1],
           NEW mid, \A e \in BOOLEAN : Extents(mid, e) = ShapeLen(e, live, u, m, v)
    PROVE  LET delta == Apart(rs, live, last + 1) - Apart(rs, live, lo) - u - v
           IN  Growths(rs, lo, hi, mid, IF live THEN delta ELSE 0 - delta, 0) /\ delta \in Int
<1>1. PICK l : l = Len(rs) /\ l \in Nat /\ rs \in Seq(Rng)
  BY DEF Ats
<1>2. lo \in 1..l /\ last \in lo..l /\ hi \in last..l
  BY <1>1
<1>3. PICK delta, x : /\ delta = Apart(rs, live, last + 1) - Apart(rs, live, lo) - u - v
                      /\ x = (IF live THEN delta ELSE 0 - delta)
  OBVIOUS
<1>4. PICK h : h = hi + 1
  OBVIOUS
<1>5. h \in 1..(l + 1) /\ lo \in 1..(l + 1) /\ last + 1 \in 1..(l + 1)
  BY <1>1, <1>2, <1>4
<1>6. PICK a, b, c, d : /\ a = Start(rs, lo, FALSE) /\ b = Start(rs, h, FALSE)
                        /\ c = Start(rs, lo, TRUE) /\ d = Start(rs, h, TRUE)
  OBVIOUS
<1>7. a = at[lo] /\ b = at[h]
  BY <1>1, <1>5, <1>6 DEF Ats
<1>8. a \in Nat /\ b \in Nat
  BY <1>1, <1>5, <1>7 DEF Ats
<1>9. c \in Nat /\ d \in Nat
  <2>1. Start(rs, lo, TRUE) \in Nat
    BY <1>1, <1>5, StartIs
  <2>2. Start(rs, h, TRUE) \in Nat
    BY <1>1, <1>5, StartIs
  <2> QED BY <1>6, <2>1, <2>2
<1>10. Apart(rs, live, lo) = IF live THEN a - c ELSE c
  BY <1>6 DEF Apart
<1>11. Apart(rs, live, last + 1) = IF live THEN b - d ELSE d
  <2>1. Apart(rs, live, h) = IF live THEN b - d ELSE d
    BY <1>6 DEF Apart
  <2>2. CASE hi = last
    BY <1>4, <2>1, <2>2
  <2>3. CASE hi = last + 1 /\ Is(rs, hi, live)
    <3>1. hi \in 1..l /\ hi \in 1..(l + 1)
      BY <1>1, <1>2
    <3>2. Apart(rs, live, hi + 1) = Apart(rs, live, hi) + 0 /\ Apart(rs, live, hi) \in Int
      BY <1>1, <2>3, <3>1, ApartIs
    <3> QED BY <1>4, <2>1, <2>3, <3>2
  <2>4. hi = last \/ (hi = last + 1 /\ Is(rs, hi, live))
    OBVIOUS
  <2> QED BY <2>2, <2>3, <2>4
<1>12. delta \in Int
  BY <1>3, <1>8, <1>9, <1>10, <1>11
<1>13. a + u + m + v = b
  BY <1>4, <1>7
<1>14. Growth(rs, lo, hi, mid, TRUE, x)
  <2>1. PICK q : q = Extents(mid, TRUE)
    OBVIOUS
  <2>2. TRUE \in BOOLEAN
    OBVIOUS
  <2>3. Extents(mid, TRUE) = ShapeLen(TRUE, live, u, m, v)
    BY <2>2, Zenon
  <2>4. ShapeLen(TRUE, live, u, m, v) = IF live THEN m ELSE u + v
    BY DEF ShapeLen
  <2>5. q = IF live THEN m ELSE u + v
    BY <2>1, <2>3, <2>4
  <2>6. x = c + q - d
    <3>1. CASE live
      <4>1. delta = (b - d) - (a - c) - u - v /\ x = delta /\ q = m
        BY <1>3, <1>10, <1>11, <2>5, <3>1
      <4>2. (b - d) - (a - c) - u - v = c + m - d
        BY <1>8, <1>9, <1>13
      <4> QED BY <4>1, <4>2, Zenon
    <3>2. CASE ~live
      <4>1. delta = d - c - u - v /\ x = 0 - delta /\ q = u + v
        BY <1>3, <1>10, <1>11, <2>5, <3>2
      <4>2. 0 - (d - c - u - v) = c + (u + v) - d
        BY <1>8, <1>9, <1>13
      <4> QED BY <4>1, <4>2, Zenon
    <3> QED BY <3>1, <3>2
  <2> QED BY <1>4, <1>6, <2>1, <2>6 DEF Growth
<1>15. Growth(rs, lo, hi, mid, FALSE, 0)
  <2>1. PICK q : q = Extents(mid, FALSE)
    OBVIOUS
  <2>2. FALSE \in BOOLEAN
    OBVIOUS
  <2>3. Extents(mid, FALSE) = ShapeLen(FALSE, live, u, m, v)
    BY <2>2, Zenon
  <2>4. ShapeLen(FALSE, live, u, m, v) = u + m + v
    BY DEF ShapeLen
  <2>5. q = u + m + v
    BY <2>1, <2>3, <2>4
  <2>6. 0 = a + q - b
    <3>1. 0 = a + (u + m + v) - b
      BY <1>8, <1>9, <1>13
    <3> QED BY <2>5, <3>1, Zenon
  <2> QED BY <1>4, <1>6, <2>1, <2>6 DEF Growth
<1>16. Growths(rs, lo, hi, mid, x, 0)
  BY <1>14, <1>15 DEF Growths
<1> QED BY <1>3, <1>12, <1>16

\* How long the parts of the replacement are.
Fits(rs, at, live, lo, last, hi, u, v, m) ==
    /\ lo \in 1..Len(rs) /\ last \in lo..Len(rs) /\ hi \in last..Len(rs)
    /\ hi = last \/ (hi = last + 1 /\ Is(rs, hi, live))
    /\ u \in Nat /\ v \in Nat /\ m \in Nat /\ m > 0
    /\ at[lo] + u + m + v = at[hi + 1]
    /\ lo > 1 => (u > 0 <=> Is(rs, lo - 1, live))
    /\ hi < Len(rs) => (v > 0 <=> Is(rs, hi + 1, live))

\* What follows the replacement has moved as far as the mark took away or
\* gave back.
Settles(rs, ns, lo, hi, mid, live, delta) ==
    /\ mid # << >> /\ Alternates(ns) /\ delta \in Int
    /\ Growths(rs, lo, hi, mid, IF live THEN delta ELSE 0 - delta, 0)

\* What a mark puts in their place fits in, and moves what is behind it in
\* the editor by what it takes away or gives back.
LEMMA MarkSpliced ==
    ASSUME NEW rs, NEW at, Ats(rs, at), Alternates(rs), NEW live \in BOOLEAN,
           NEW lo, NEW last, NEW hi, NEW u, NEW v, NEW m, Fits(rs, at, live, lo, last, hi, u, v, m),
           NEW mid, Shape(mid, live, u, m, v), NEW ns, Spliced(rs, ns, lo, hi, mid),
           NEW delta, delta = Apart(rs, live, last + 1) - Apart(rs, live, lo) - u - v
    PROVE  Settles(rs, ns, lo, hi, mid, live, delta)
<1>1. /\ lo \in 1..Len(rs) /\ last \in lo..Len(rs) /\ hi \in last..Len(rs)
      /\ hi = last \/ (hi = last + 1 /\ Is(rs, hi, live))
      /\ u \in Nat /\ v \in Nat /\ m \in Nat /\ at[lo] + u + m + v = at[hi + 1]
      /\ lo > 1 => (u > 0 <=> Is(rs, lo - 1, live))
      /\ hi < Len(rs) => (v > 0 <=> Is(rs, hi + 1, live))
  BY DEF Fits
<1>2. /\ mid \in Seq(Rng) /\ mid # << >> /\ Alternates(mid)
      /\ (IF u > 0 THEN mid[1].live # live ELSE mid[1].live = live)
      /\ (IF v > 0 THEN mid[Len(mid)].live # live ELSE mid[Len(mid)].live = live)
  BY DEF Shape
<1>3. \A e \in BOOLEAN : Extents(mid, e) = ShapeLen(e, live, u, m, v)
  BY DEF Shape
<1>4. rs \in Seq(Rng)
  BY DEF Ats
<1>5. Alternates(ns)
  BY <1>1, <1>2, <1>4, MarkAlternates, Zenon
<1>6. Growths(rs, lo, hi, mid, IF live THEN delta ELSE 0 - delta, 0) /\ delta \in Int
  BY <1>1, <1>3, MarkGrowths, Zenon
<1> QED BY <1>2, <1>5, <1>6 DEF Settles

\* The parts of a replacement, of a mark from pos to end.
Marked(rs, at, pos, end, live, i, lo, last, hi, u, v, m, mid) ==
    /\ Ats(rs, at) /\ Alternates(rs) /\ live \in BOOLEAN
    /\ pos \in Nat /\ end \in Nat /\ pos < end
    /\ Area(rs, at, pos, end, live, i, lo, last, hi)
    /\ u = Ahead(rs, at, pos, live, lo) /\ v = Behind(rs, at, end, live, last)
    /\ m = NewEnd(rs, at, end, live, hi) - NewBeg(rs, at, pos, live, lo)
    /\ mid = Maybe(~live, u) \o <<RangeOf(live, m)>> \o Maybe(~live, v)

Replaced(d, rs, lo, hi, mid, live, delta, newCur, res) ==
    /\ res.doc = [ranges |-> SubSeq(rs, 1, lo - 1) \o mid \o SubSeq(rs, hi + 1, Len(rs)),
                  cursors |-> [s \in DOMAIN d.cursors |->
                     MarkCursor(d.cursors[s], lo, hi, newCur, live, delta, Len(mid))],
                  panicked |-> FALSE]
    /\ res.cur = newCur

\* The replacement, in the terms of the lemmas above.
LEMMA ReplaceIs ==
    ASSUME NEW d, NEW rs, rs = d.ranges, d.panicked = FALSE, NEW at, NEW pos, NEW end, NEW live,
           NEW i, NEW lo, NEW last, NEW hi, NEW u, NEW v, NEW m, NEW mid,
           Marked(rs, at, pos, end, live, i, lo, last, hi, u, v, m, mid),
           NEW parts, parts \in Seq(Segs), NoTouch(parts), NEW cur
    PROVE  LET newCur == IF Joins(rs, at, pos, live, lo) THEN MovedTo(rs, cur, lo) ELSE cur
           IN  Replaced(d, rs, lo, hi, mid, live, SegsLen(parts), newCur,
                        Replace(d, at, cur, pos, end, live, lo, last, hi, parts))
<1>1. /\ Ats(rs, at) /\ Alternates(rs) /\ live \in BOOLEAN
      /\ pos \in Nat /\ end \in Nat /\ pos < end
      /\ Area(rs, at, pos, end, live, i, lo, last, hi)
      /\ u = Ahead(rs, at, pos, live, lo) /\ v = Behind(rs, at, end, live, last)
      /\ m = NewEnd(rs, at, end, live, hi) - NewBeg(rs, at, pos, live, lo)
      /\ mid = Maybe(~live, u) \o <<RangeOf(live, m)>> \o Maybe(~live, v)
  BY DEF Marked
<1>2. PICK delta, newCur : /\ delta = SegsLen(parts)
                          /\ newCur = IF Joins(rs, at, pos, live, lo) THEN MovedTo(rs, cur, lo)
                                      ELSE cur
  OBVIOUS
<1>3. PICK res : res = Replace(d, at, cur, pos, end, live, lo, last, hi, parts)
  OBVIOUS
<1>4. PICK before : before = IF rs[lo].live # live /\ at[lo] < pos
                             THEN <<RangeOf(~live, pos - at[lo])>> ELSE << >>
  OBVIOUS
<1>5. before = Maybe(~live, u)
  <2>1. u > 0 <=> (~Is(rs, lo, live) /\ at[lo] < pos)
    BY <1>1, MarkFits
  <2>2. CASE ~Is(rs, lo, live) /\ at[lo] < pos
    <3>1. u = pos - at[lo] /\ u > 0
      BY <1>1, <2>1, <2>2 DEF Ahead
    <3> QED BY <1>4, <2>2, <3>1 DEF Maybe, Is
  <2>3. CASE ~(~Is(rs, lo, live) /\ at[lo] < pos)
    <3>1. ~(u > 0)
      BY <2>1, <2>3
    <3> QED BY <1>4, <2>3, <3>1 DEF Maybe, Is
  <2> QED BY <2>2, <2>3
<1>6. PICK after : after = IF rs[last].live # live /\ at[last + 1] > end
                           THEN <<RangeOf(~live, at[last + 1] - end)>> ELSE << >>
  OBVIOUS
<1>7. after = Maybe(~live, v)
  <2>1. v > 0 <=> (~Is(rs, last, live) /\ at[last + 1] > end)
    BY <1>1, MarkFits
  <2>2. CASE ~Is(rs, last, live) /\ at[last + 1] > end
    <3>1. v = at[last + 1] - end /\ v > 0
      BY <1>1, <2>1, <2>2 DEF Behind
    <3> QED BY <1>6, <2>2, <3>1 DEF Maybe, Is
  <2>3. CASE ~(~Is(rs, last, live) /\ at[last + 1] > end)
    <3>1. ~(v > 0)
      BY <2>1, <2>3
    <3> QED BY <1>6, <2>3, <3>1 DEF Maybe, Is
  <2> QED BY <2>2, <2>3
<1>8. PICK beg, fin : /\ beg = IF rs[lo].live = live /\ at[lo] < pos THEN at[lo] ELSE pos
                      /\ fin = IF rs[hi].live = live THEN Max({at[hi + 1], end}) ELSE end
  OBVIOUS
<1>9. m = fin - beg
  BY <1>1, <1>8 DEF NewEnd, NewBeg, Joins, Is
<1>10. before \o <<RangeOf(live, fin - beg)>> \o after = mid
  BY <1>1, <1>5, <1>7, <1>9
<1>11. ~\E k \in 1..(Len(parts) - 1) : parts[k].pos + parts[k].len >= parts[k + 1].pos
  <2>1. SUFFICES ASSUME NEW k \in 1..(Len(parts) - 1)
                 PROVE  ~(parts[k].pos + parts[k].len >= parts[k + 1].pos)
    OBVIOUS
  <2>2. PICK j : j = k + 1
    OBVIOUS
  <2>3. k \in 1..Len(parts) /\ j \in 1..Len(parts)
    <3>1. Len(parts) \in Nat
      BY LenProperties
    <3> QED BY <2>2, <3>1
  <2>4. parts[k] \in Segs /\ parts[j] \in Segs
    BY <2>3
  <2>5. parts[k].pos \in Nat /\ parts[k].len \in Nat /\ parts[j].pos \in Nat
    BY <2>4 DEF Segs
  <2>6. parts[k].pos + parts[k].len < parts[j].pos
    BY <2>2 DEF NoTouch
  <2> QED BY <2>2, <2>5, <2>6
<1>12. delta = FoldLeft(LAMBDA n, s : n + s.len, 0, parts)
  BY <1>2 DEF SegsLen
<1>13. newCur = IF rs[lo].live = live /\ at[lo] < pos THEN MovedTo(rs, cur, lo) ELSE cur
  BY <1>2 DEF Joins, Is
<1>14. res.doc.ranges = SubSeq(rs, 1, lo - 1) \o mid \o SubSeq(rs, hi + 1, Len(rs))
  BY <1>3, <1>4, <1>6, <1>8, <1>10 DEF Replace
<1>15. res.cur = newCur
  BY <1>3, <1>13 DEF Replace
<1>16. res.doc.cursors = [s \in DOMAIN d.cursors |->
                            MarkCursor(d.cursors[s], lo, hi, newCur, live, delta, Len(mid))]
  BY <1>3, <1>4, <1>6, <1>8, <1>10, <1>12, <1>13, ZenonT(20) DEF Replace, MarkCursor
<1>17. res.doc.panicked = FALSE
  BY <1>3, <1>11 DEF Replace
<1>18. res.doc = [ranges |-> res.doc.ranges, cursors |-> res.doc.cursors,
                  panicked |-> res.doc.panicked]
  BY <1>3 DEF Replace
<1> QED BY <1>2, <1>3, <1>14, <1>15, <1>16, <1>17, <1>18 DEF Replaced

\* The cursor a mark leaves is the one it came with or, if the mark joins
\* text before it, the one of the first affected range.
LEMMA MarkNewCur ==
    ASSUME NEW rs \in Seq(Rng), NEW at, Ats(rs, at), NEW i \in 1..Len(rs),
           NEW cur, cur = CursorAt(rs, i), NEW pos \in Nat, NEW end, NEW live,
           NEW lo, NEW last, NEW hi, Area(rs, at, pos, end, live, i, lo, last, hi),
           NEW ns, NEW mid, Spliced(rs, ns, lo, hi, mid), mid # << >>
    PROVE  (IF Joins(rs, at, pos, live, lo) THEN MovedTo(rs, cur, lo) ELSE cur) \in CursorsOf(ns)
<1>1. PICK l : l = Len(rs) /\ l \in Nat
  BY LenProperties
<1>2. lo \in 1..l /\ lo \in 1..(l + 1) /\ lo \in Nat /\ lo # 0 /\ i \in 1..l
  BY <1>1 DEF Area
<1>3. CASE Joins(rs, at, pos, live, lo)
  <2>1. TRUE \in BOOLEAN /\ FALSE \in BOOLEAN
    OBVIOUS
  <2>2. \A e \in BOOLEAN : \A k \in 1..(Len(rs) + 1) : BegOf(rs, cur, k, e) = Start(rs, k, e)
    BY SeenFrom
  <2>3. BegOf(rs, cur, lo, TRUE) = Start(rs, lo, TRUE)
    BY <1>1, <1>2, <2>1, <2>2, Zenon
  <2>4. BegOf(rs, cur, lo, FALSE) = Start(rs, lo, FALSE)
    BY <1>1, <1>2, <2>1, <2>2, Zenon
  <2>5. MovedTo(rs, cur, lo) = CursorAt(rs, lo)
    BY <1>2, <2>3, <2>4, Zenon DEF MovedTo, CursorAt, None
  <2>6. lo \in 0..lo
    BY <1>2
  <2>7. CursorAt(ns, lo) = CursorAt(rs, lo) /\ CursorAt(ns, lo) \in CursorsOf(ns)
    BY <2>6, CursorStays
  <2> QED BY <1>3, <2>5, <2>7
<1>4. CASE ~Joins(rs, at, pos, live, lo)
  <2>1. i \in 0..lo
    <3>1. SUFFICES ASSUME i > lo PROVE FALSE
      BY <1>2
    <3>2. Is(rs, lo, live) /\ pos = at[lo + 1]
      BY <3>1 DEF Area, Left
    <3>3. at[lo + 1] = at[lo] + rs[lo].len /\ rs[lo].len \in Nat /\ rs[lo].len > 0
      BY <1>1, <1>2 DEF Ats
    <3>4. at[lo] \in Nat
      BY <1>1, <1>2 DEF Ats
    <3>5. at[lo] < pos
      BY <3>2, <3>3, <3>4
    <3> QED BY <1>4, <3>2, <3>5 DEF Joins
  <2>2. CursorAt(ns, i) = CursorAt(rs, i) /\ CursorAt(ns, i) \in CursorsOf(ns)
    BY <2>1, CursorStays
  <2> QED BY <1>4, <2>2
<1> QED BY <1>3, <1>4

LEMMA ReplaceOk ==
    ASSUME NEW d, DocOk(d), NEW rs, rs = d.ranges, NEW at, Ats(rs, at), NEW live \in BOOLEAN,
           NEW pos \in Nat, NEW end \in Nat, pos < end,
           NEW i \in 1..Len(rs), NEW cur, cur = CursorAt(rs, i),
           NEW lo, NEW last, NEW hi, Area(rs, at, pos, end, live, i, lo, last, hi),
           NEW parts, parts = Flipped(rs, at, lo, last, pos, end, live)
    PROVE  ResultOk(rs, Replace(d, at, cur, pos, end, live, lo, last, hi, parts), 0)
<1>1. /\ rs \in Seq(Rng) /\ Alternates(rs) /\ d.panicked = FALSE
      /\ d.cursors \in [Sites -> CursorsOf(rs)]
  <2>1. d.ranges \in Seq(Rng) /\ Alternates(d.ranges) /\ d.cursors \in [Sites -> CursorsOf(d.ranges)]
    BY DEF DocOk
  <2>2. d.panicked = FALSE
    BY DEF DocOk
  <2> QED BY <2>1, <2>2
<1>2. PICK u, v : u = Ahead(rs, at, pos, live, lo) /\ v = Behind(rs, at, end, live, last)
  OBVIOUS
<1>3. PICK m : m = NewEnd(rs, at, end, live, hi) - NewBeg(rs, at, pos, live, lo)
  OBVIOUS
<1>4. Fits(rs, at, live, lo, last, hi, u, v, m)
  <2>1. /\ u \in Nat /\ v \in Nat /\ m \in Nat /\ m > 0
        /\ at[lo] + u + m + v = at[hi + 1]
        /\ lo > 1 => (u > 0 <=> Is(rs, lo - 1, live))
        /\ hi < Len(rs) => (v > 0 <=> Is(rs, hi + 1, live))
    BY <1>1, <1>2, <1>3, MarkFits
  <2>2. lo \in 1..Len(rs) /\ last \in lo..Len(rs) /\ hi \in last..Len(rs)
        /\ (hi = last \/ (hi = last + 1 /\ Is(rs, hi, live)))
    BY DEF Area, Right
  <2> QED BY <2>1, <2>2 DEF Fits
<1>5. PICK mid : mid = Maybe(~live, u) \o <<RangeOf(live, m)>> \o Maybe(~live, v)
  OBVIOUS
<1>6. Shape(mid, live, u, m, v)
  <2>1. u \in Nat /\ v \in Nat /\ m \in Nat /\ m > 0
    BY <1>4 DEF Fits
  <2> QED BY <1>5, <2>1, ShapeIs
<1>7. lo \in 1..Len(rs) /\ last \in lo..Len(rs) /\ hi \in last..Len(rs)
  BY DEF Area
<1>8. PICK ns : ns = SubSeq(rs, 1, lo - 1) \o mid \o SubSeq(rs, hi + 1, Len(rs))
  OBVIOUS
<1>9. Spliced(rs, ns, lo, hi, mid)
  <2>1. mid \in Seq(Rng)
    BY <1>6 DEF Shape
  <2>2. Len(rs) \in Nat
    BY <1>1, LenProperties
  <2>3. lo \in 1..(Len(rs) + 1) /\ hi \in (lo - 1)..Len(rs)
    BY <1>7, <2>2
  <2> QED BY <1>1, <1>8, <2>1, <2>3, SpliceIs
<1>10. PICK delta : delta = SegsLen(parts)
  OBVIOUS
<1>11. /\ parts \in Seq(Segs) /\ NoTouch(parts)
       /\ delta = Apart(rs, live, last + 1) - Apart(rs, live, lo) - u - v
  <2>1. Changes(rs, live, lo, last, u, v, parts)
    BY <1>1, <1>2, FlippedOk
  <2> QED BY <1>10, <2>1 DEF Changes
<1>12. PICK x : x = IF live THEN delta ELSE 0 - delta
  OBVIOUS
<1>13. mid # << >> /\ Alternates(ns) /\ delta \in Int /\ Growths(rs, lo, hi, mid, x, 0)
  <2>1. delta = Apart(rs, live, last + 1) - Apart(rs, live, lo) - u - v
    BY <1>11
  <2>2. Settles(rs, ns, lo, hi, mid, live, delta)
    BY <1>1, <1>4, <1>6, <1>9, <2>1, MarkSpliced
  <2> QED BY <1>12, <2>2 DEF Settles
<1>14. PICK newCur : newCur = IF Joins(rs, at, pos, live, lo) THEN MovedTo(rs, cur, lo) ELSE cur
  OBVIOUS
<1>15. newCur \in CursorsOf(ns)
  BY <1>1, <1>9, <1>13, <1>14, MarkNewCur
<1>16. PICK res : res = Replace(d, at, cur, pos, end, live, lo, last, hi, parts)
  OBVIOUS
<1>17. PICK cs : cs = [s \in DOMAIN d.cursors |->
                         MarkCursor(d.cursors[s], lo, hi, newCur, live, delta, Len(mid))]
  OBVIOUS
<1>18. res.doc = [ranges |-> ns, cursors |-> cs, panicked |-> FALSE] /\ res.cur = newCur
  <2>1. Marked(rs, at, pos, end, live, i, lo, last, hi, u, v, m, mid)
    BY <1>1, <1>2, <1>3, <1>5 DEF Marked
  <2>2. LET to == IF Joins(rs, at, pos, live, lo) THEN MovedTo(rs, cur, lo) ELSE cur
        IN  Replaced(d, rs, lo, hi, mid, live, SegsLen(parts), to,
                     Replace(d, at, cur, pos, end, live, lo, last, hi, parts))
    BY <1>1, <1>11, <2>1, ReplaceIs
  <2>3. Replaced(d, rs, lo, hi, mid, live, delta, newCur, res)
    BY <1>10, <1>14, <1>16, <2>2
  <2> QED BY <1>8, <1>17, <2>3 DEF Replaced
<1>19. cs \in [Sites -> CursorsOf(ns)]
  <2>1. ASSUME NEW s \in Sites
        PROVE  MarkCursor(d.cursors[s], lo, hi, newCur, live, delta, Len(mid)) \in CursorsOf(ns)
    <3>1. PICK c, n : c = d.cursors[s] /\ n = Len(mid) /\ c \in CursorsOf(rs)
      BY <1>1
    <3>2. MarkCursor(c, lo, hi, newCur, live, delta, n) \in CursorsOf(ns)
      BY <1>1, <1>9, <1>12, <1>13, <1>15, <3>1, MarkCursorOk
    <3> QED BY <3>1, <3>2
  <2>2. DOMAIN d.cursors = Sites
    BY <1>1
  <2> QED BY <1>17, <2>1, <2>2
<1>20. PICK doc : doc = res.doc /\ doc.ranges = ns /\ doc.cursors = cs
                  /\ doc = [ranges |-> ns, cursors |-> cs, panicked |-> FALSE]
  BY <1>18
<1>21. DocOk(doc)
  <2>1. ns \in Seq(Rng)
    BY <1>9 DEF Spliced
  <2> QED BY <1>13, <1>19, <1>20, <2>1 DEF DocOk
<1>22. LengthOf(ns) = LengthOf(rs) + 0
  BY <1>1, <1>9, <1>13, SplicedExtents
<1> QED BY <1>15, <1>16, <1>18, <1>20, <1>21, <1>22 DEF ResultOk

\* A mark of len characters from pos, which is in range i.
MarkAt(d, rs, i, pos, len, cur) ==
    /\ DocOk(d) /\ rs = d.ranges /\ InRange(rs, i, pos, FALSE) /\ cur = CursorAt(rs, i)
    /\ pos \in Nat /\ len \in Nat \ {0} /\ pos + len <= LengthOf(rs)

LEMMA MarkOk ==
    ASSUME NEW d, NEW rs, NEW i, NEW pos, NEW len, NEW cur, MarkAt(d, rs, i, pos, len, cur),
           NEW live \in BOOLEAN
    PROVE  ResultOk(rs, ApplyMark(d, pos, len, cur, live), 0)
<1>1. /\ DocOk(d) /\ rs = d.ranges /\ cur = CursorAt(rs, i) /\ i \in 1..Len(rs)
      /\ pos \in Nat /\ len \in Nat /\ len > 0
  BY DEF MarkAt, InRange
<1>2. rs \in Seq(Rng)
  BY <1>1 DEF DocOk
<1>3. PICK at : at = Bounds(rs, cur)
  OBVIOUS
<1>4. Ats(rs, at) /\ Len(at) = Len(rs) + 1
  BY <1>1, <1>2, <1>3, BoundsAre
<1>5. PICK end : end = pos + len
  OBVIOUS
<1>6. end \in Nat /\ pos < end
  BY <1>1, <1>5
<1>7. PICK l, n : l = Len(rs) /\ l \in Nat /\ n = l + 1
  BY <1>2, LenProperties
<1>8. i \in 1..l /\ i \in 1..(l + 1) /\ i + 1 \in 1..(l + 1) /\ i \in Nat /\ i # 0
  BY <1>1, <1>7
<1>9. cur.idx = i
  BY <1>1, <1>8, CursorAtIs
<1>10. at[i] <= pos /\ pos <= at[i + 1]
  <2>1. at[i] = Start(rs, i, FALSE) /\ at[i + 1] = Start(rs, i + 1, FALSE)
    BY <1>4, <1>7, <1>8 DEF Ats
  <2>2. Start(rs, i, FALSE) <= pos /\ pos <= Start(rs, i + 1, FALSE)
    BY DEF MarkAt, InRange
  <2> QED BY <2>1, <2>2
<1>11. end <= at[n]
  <2>1. at[Len(rs) + 1] = LengthOf(rs)
    BY <1>4 DEF Ats
  <2>2. end <= LengthOf(rs)
    BY <1>5 DEF MarkAt
  <2> QED BY <1>7, <2>1, <2>2
<1>12. at[i] \in Nat /\ at[n] \in Nat
  BY <1>4, <1>7, <1>8 DEF Ats
<1>13. ~(at[cur.idx] > pos \/ at[Len(at)] < end)
  <2>1. ~(at[i] > pos) /\ ~(at[n] < end)
    BY <1>1, <1>6, <1>10, <1>11, <1>12
  <2> QED BY <1>4, <1>7, <1>9, <2>1
<1>14. PICK a : a = Affected(rs, at, cur, pos, end, live)
  OBVIOUS
<1>15. PICK lo, last, hi : lo = a.lo /\ last = a.last /\ hi = a.hi
  OBVIOUS
<1>16. Area(rs, at, pos, end, live, i, lo, last, hi)
  <2>1. end <= at[Len(rs) + 1]
    BY <1>7, <1>11
  <2> QED BY <1>1, <1>4, <1>6, <1>9, <1>10, <1>14, <1>15, <2>1, AffectedIs
<1>17. PICK parts : parts = Flipped(rs, at, lo, last, pos, end, live)
  OBVIOUS
<1>18. ResultOk(rs, Replace(d, at, cur, pos, end, live, lo, last, hi, parts), 0)
  BY <1>1, <1>4, <1>6, <1>16, <1>17, ReplaceOk
<1>19. ApplyMark(d, pos, len, cur, live) = Replace(d, at, cur, pos, end, live, lo, last, hi, parts)
  BY <1>1, <1>3, <1>5, <1>13, <1>14, <1>15, <1>17 DEF ApplyMark
<1> QED BY <1>18, <1>19

-----------------------------------------------------------------------------
(* Ops *)

\* What a result is stored as.
LEMMA SetCursor ==
    ASSUME NEW rs, NEW res, NEW y, ResultOk(rs, res, y), NEW site \in Sites
    PROVE  LET doc == [res.doc EXCEPT !.cursors[site] = res.cur]
           IN  DocOk(doc) /\ doc.ranges = res.doc.ranges
<1>1. PICK d, cur : d = res.doc /\ cur = res.cur
  OBVIOUS
<1>2. DocOk(d) /\ cur \in CursorsOf(d.ranges)
  BY <1>1 DEF ResultOk
<1>3. PICK ns, cs, p : ns = d.ranges /\ cs = d.cursors /\ p = FALSE
  OBVIOUS
<1>4. d = [ranges |-> ns, cursors |-> cs, panicked |-> p]
  BY <1>2, <1>3 DEF DocOk
<1>5. ns \in Seq(Rng) /\ Alternates(ns) /\ cs \in [Sites -> CursorsOf(ns)]
  BY <1>2, <1>3 DEF DocOk
<1>6. PICK ks : ks = [cs EXCEPT ![site] = cur]
  OBVIOUS
<1>7. [d EXCEPT !.cursors[site] = cur] = [ranges |-> ns, cursors |-> ks, panicked |-> p]
  BY <1>4, <1>6
<1>8. ks \in [Sites -> CursorsOf(ns)]
  BY <1>2, <1>3, <1>5, <1>6
<1>9. PICK doc : doc = [ranges |-> ns, cursors |-> ks, panicked |-> p]
  OBVIOUS
<1>10. doc.ranges = ns /\ doc.cursors = ks
  BY <1>9
<1>11. DocOk(doc)
  <2>1. doc = [ranges |-> doc.ranges, cursors |-> doc.cursors, panicked |-> FALSE]
    BY <1>3, <1>9, <1>10
  <2> QED BY <1>5, <1>8, <1>10, <2>1 DEF DocOk
<1> QED BY <1>1, <1>3, <1>7, <1>9, <1>11, <1>10

\* In an empty document every position is 0.
LEMMA NoRanges ==
    ASSUME NEW pos \in Nat, NEW e, pos <= Extents(<< >>, e), NEW cur
    PROVE  ConvertPos(<< >>, pos, cur, e) = [pos |-> 0, cur |-> cur]
<1>1. pos = 0
  BY ExtentsEmpty
<1> QED BY <1>1 DEF ConvertPos

\* A position found holds an insertion.
LEMMA FoundHolds ==
    ASSUME NEW rs \in Seq(Rng), NEW i \in 1..Len(rs), NEW e \in BOOLEAN, NEW pos \in Nat,
           InRange(rs, i, pos, e), NEW p, IF e THEN InternalIs(rs, i, pos, p) ELSE p = pos
    PROVE  Holds(rs, i, p)
<1>1. i \in 1..(Len(rs) + 1) /\ rs[i] \in Rng
  <2>1. Len(rs) \in Nat
    BY LenProperties
  <2> QED BY <2>1
<1>2. PICK a, b, c, d, g : /\ a = Start(rs, i, FALSE) /\ b = Start(rs, i, TRUE)
                           /\ c = Start(rs, i + 1, FALSE) /\ d = Start(rs, i + 1, TRUE)
                           /\ g = rs[i].len
  OBVIOUS
<1>3. a \in Nat /\ c = a + g
  <2>1. \A k \in 1..(Len(rs) + 1) : Start(rs, k, FALSE) \in Nat
    BY StartIs
  <2>2. Start(rs, i + 1, FALSE) = Start(rs, i, FALSE) + Extent(rs[i], FALSE)
    BY StartIs
  <2>3. Extent(rs[i], FALSE) = rs[i].len
    BY <1>1, ExtentIs
  <2> QED BY <1>1, <1>2, <2>1, <2>2, <2>3
<1>4. b \in Nat /\ d \in Nat /\ d <= b + g
  <2>1. \A k \in 1..(Len(rs) + 1) : Start(rs, k, TRUE) \in Nat
    BY StartIs
  <2>2. Start(rs, i + 1, TRUE) = Start(rs, i, TRUE) + Extent(rs[i], TRUE)
    BY StartIs
  <2>3. Extent(rs[i], TRUE) \in Nat /\ Extent(rs[i], TRUE) <= rs[i].len
    BY <1>1, ExtentIs
  <2>4. g \in Nat
    BY <1>1, <1>2, ExtentIs
  <2>5. b \in Nat
    BY <1>1, <1>2, <2>1
  <2>6. PICK x : x = Extent(rs[i], TRUE)
    OBVIOUS
  <2>7. d = b + x /\ x \in Nat /\ x <= g
    BY <1>2, <2>2, <2>3, <2>6
  <2> QED BY <2>4, <2>5, <2>7
<1>5. g \in Nat
  BY <1>1, <1>2, ExtentIs
<1>6. p \in Nat /\ a <= p /\ p <= a + g
  <2>1. CASE e
    <3>1. e = TRUE
      BY <2>1
    <3>2. InRange(rs, i, pos, TRUE)
      BY <3>1, Zenon
    <3>3. b <= pos /\ pos <= d
      BY <1>2, <3>2 DEF InRange
    <3>4. p = a + (pos - b)
      BY <1>2, <2>1 DEF InternalIs
    <3> QED BY <1>3, <1>4, <1>5, <3>3, <3>4
  <2>2. CASE ~e
    <3>1. e = FALSE
      BY <2>2
    <3>2. InRange(rs, i, pos, FALSE)
      BY <3>1, Zenon
    <3>3. a <= pos /\ pos <= c
      BY <1>2, <3>2 DEF InRange
    <3>4. p = pos
      BY <2>2
    <3> QED BY <1>3, <1>5, <3>3, <3>4
  <2> QED BY <2>1, <2>2
<1> QED BY <1>2, <1>6 DEF Holds

\* An insertion at either kind of position.
LEMMA InsertOk ==
    ASSUME NEW d, DocOk(d), NEW rs, rs = d.ranges, NEW cur \in CursorsOf(rs), NEW e \in BOOLEAN,
           NEW pos \in Nat, pos <= Extents(rs, e), NEW at, at = ConvertPos(rs, pos, cur, e),
           NEW p, p = (IF e THEN at.pos ELSE pos), NEW len \in Nat, len > 0
    PROVE  ResultOk(rs, ApplyIns(d, p, len, at.cur), len)
<1>1. rs \in Seq(Rng)
  BY DEF DocOk
<1>2. CASE rs = << >>
  <2>1. at.cur = cur
    BY <1>2, NoRanges
  <2>2. cur \in CursorsOf(<< >>) /\ d.ranges = << >>
    BY <1>2
  <2>3. ResultOk(<< >>, ApplyIns(d, p, len, at.cur), len)
    BY <2>1, <2>2, FirstInsOk
  <2> QED BY <1>2, <2>3
<1>3. CASE rs # << >>
  <2>1. Found(rs, pos, e, at)
    BY <1>1, <1>3, ConvertPosIs
  <2>2. PICK i \in 1..Len(rs) : /\ at.cur = CursorAt(rs, i) /\ InRange(rs, i, pos, e)
                                /\ e => InternalIs(rs, i, pos, at.pos)
    BY <2>1 DEF Found
  <2>3. IF e THEN InternalIs(rs, i, pos, p) ELSE p = pos
    BY <2>2
  <2>4. Holds(rs, i, p)
    BY <1>1, <2>2, <2>3, FoundHolds
  <2>5. len \in Nat \ {0}
    OBVIOUS
  <2>6. InsAt(d, rs, i, p, len, at.cur)
    BY <2>2, <2>4, <2>5 DEF InsAt
  <2> QED BY <2>6, InsOk
<1> QED BY <1>2, <1>3

\* An insertion that arrives.
LEMMA InternalInsOk ==
    ASSUME NEW d, DocOk(d), NEW op, op.type = "Ins", NEW site \in Sites, op.site = site,
           NEW pos \in Nat, op.pos = pos, pos <= LengthOf(d.ranges),
           NEW len \in Nat, len > 0, Len(op.str) = len
    PROVE  LET doc == ConvertInternalOp(d, op).doc
           IN  DocOk(doc) /\ LengthOf(doc.ranges) = LengthOf(d.ranges) + len
<1>1. PICK rs, cur, e : rs = d.ranges /\ cur = d.cursors[site] /\ e = FALSE
  OBVIOUS
<1>2. cur \in CursorsOf(rs)
  BY <1>1 DEF DocOk
<1>3. PICK at : at = ConvertPos(rs, pos, cur, e)
  OBVIOUS
<1>4. pos <= Extents(rs, e)
  BY <1>1 DEF LengthOf
<1>5. PICK res : res = ApplyIns(d, pos, len, at.cur)
  OBVIOUS
<1>6. ResultOk(rs, res, len)
  <2>1. e \in BOOLEAN /\ pos = IF e THEN at.pos ELSE pos
    BY <1>1
  <2> QED BY <1>1, <1>2, <1>3, <1>4, <1>5, <2>1, InsertOk
<1>7. ConvertInternalOp(d, op).doc = [res.doc EXCEPT !.cursors[site] = res.cur]
  BY <1>1, <1>3, <1>5 DEF ConvertInternalOp
<1>8. PICK doc : doc = [res.doc EXCEPT !.cursors[site] = res.cur]
  OBVIOUS
<1>9. DocOk(doc) /\ doc.ranges = res.doc.ranges
  BY <1>6, <1>8, SetCursor
<1>10. LengthOf(doc.ranges) = LengthOf(rs) + len
  BY <1>6, <1>9 DEF ResultOk
<1> QED BY <1>1, <1>7, <1>8, <1>9, <1>10

\* A document that an insertion of len characters makes of d.
Lengthened(d, doc, len) == DocOk(doc) /\ LengthOf(doc.ranges) = LengthOf(d.ranges) + len

\* An insertion of the editor.
LEMMA EditorInsOk ==
    ASSUME NEW d, DocOk(d), NEW site \in Sites, NEW pos \in Nat, pos <= Extents(d.ranges, TRUE),
           NEW str, NEW len \in Nat, len > 0, Len(str) = len
    PROVE  Lengthened(d, ConvertEditorIns(d, pos, str, site).doc, len)
<1>1. PICK rs, cur, e : rs = d.ranges /\ cur = d.cursors[site] /\ e = TRUE
  OBVIOUS
<1>2. cur \in CursorsOf(rs)
  BY <1>1 DEF DocOk
<1>3. PICK at : at = ConvertPos(rs, pos, cur, e)
  OBVIOUS
<1>4. pos <= Extents(rs, e)
  BY <1>1
<1>5. PICK res : res = ApplyIns(d, at.pos, len, at.cur)
  OBVIOUS
<1>6. ResultOk(rs, res, len)
  <2>1. e \in BOOLEAN /\ at.pos = IF e THEN at.pos ELSE pos
    BY <1>1
  <2> QED BY <1>1, <1>2, <1>3, <1>4, <1>5, <2>1, InsertOk
<1>7. ConvertEditorIns(d, pos, str, site).doc = [res.doc EXCEPT !.cursors[site] = res.cur]
  BY <1>1, <1>3, <1>5 DEF ConvertEditorIns
<1>8. PICK doc : doc = [res.doc EXCEPT !.cursors[site] = res.cur]
  OBVIOUS
<1>9. DocOk(doc) /\ doc.ranges = res.doc.ranges
  BY <1>6, <1>8, SetCursor
<1>10. LengthOf(doc.ranges) = LengthOf(rs) + len
  BY <1>6, <1>9 DEF ResultOk
<1> QED BY <1>1, <1>7, <1>8, <1>9, <1>10 DEF Lengthened

\* Segments of a mark that lie within n characters.
Fitting(n) == {s \in [pos : Nat, len : Nat \ {0}] : s.pos + s.len <= n}

\* The cursor of a position in a document with text.
LEMMA FoundCursor ==
    ASSUME NEW rs \in Seq(Rng), NEW n, n = LengthOf(rs), NEW s \in Fitting(n),
           NEW cur \in CursorsOf(rs), NEW c, c = ConvertPos(rs, s.pos, cur, FALSE).cur
    PROVE  \E i \in 1..Len(rs) : c = CursorAt(rs, i) /\ InRange(rs, i, s.pos, FALSE)
<1>1. PICK pos, e : pos = s.pos /\ e = FALSE
  OBVIOUS
<1>2. pos \in Nat /\ s.len \in Nat /\ s.len > 0 /\ pos + s.len <= n
  BY <1>1 DEF Fitting
<1>3. n = Extents(rs, e) /\ n \in Nat
  BY <1>1, ExtentsType DEF LengthOf
<1>4. rs # << >>
  <2>1. SUFFICES ASSUME rs = << >> PROVE FALSE
    OBVIOUS
  <2>2. n = 0
    BY <1>3, <2>1, ExtentsEmpty
  <2> QED BY <1>2, <2>2
<1>5. pos <= Extents(rs, e) /\ e \in BOOLEAN
  <2>1. PICK m : m = s.len
    OBVIOUS
  <2>2. pos \in Nat /\ m \in Nat /\ pos + m <= n /\ n \in Nat
    BY <1>2, <1>3, <2>1
  <2>3. pos <= n
    BY <2>2
  <2> QED BY <1>1, <1>3, <2>3
<1>6. PICK res : res = ConvertPos(rs, pos, cur, e)
  OBVIOUS
<1>7. Found(rs, pos, e, res)
  BY <1>2, <1>4, <1>5, <1>6, ConvertPosIs
<1>8. res.cur = c
  BY <1>1, <1>6
<1> QED BY <1>1, <1>7, <1>8 DEF Found

\* The loops of convert_internal_op_and_apply, for p = <<document, op>>.
ConvertStep(p, x, y) ==
    LET c == ConvertPos(p[1].ranges, y.pos, x.cur, FALSE).cur
    IN  [cur |-> c, edits |-> x.edits \o MarkToInsOrDel(p[1].ranges, y, c, p[2].live)]
MarkStep(p, x, y) ==
    LET c == ConvertPos(x.doc.ranges, y.pos, x.cur, FALSE).cur
    IN  IF p[2].live THEN ApplyMarkLive(x.doc, y.pos, y.len, c)
                     ELSE ApplyMarkDead(x.doc, y.pos, y.len, c)
Converts == INSTANCE FoldLemmas WITH Op <- LAMBDA p, x, y : ConvertStep(p, x, y)
Marks    == INSTANCE FoldLemmas WITH Op <- LAMBDA p, x, y : MarkStep(p, x, y)

Converted(p) ==
    Converts!Fold(p, [cur |-> p[1].cursors[p[2].site], edits |-> << >>], p[2].segs)
AllMarked(p) == Marks!Fold(p, [doc |-> p[1], cur |-> Converted(p).cur], p[2].segs)

LEMMA InternalMarkIs ==
    ASSUME NEW p, p[2].type = "Mark"
    PROVE  ConvertInternalOp(p[1], p[2]).doc
             = [AllMarked(p).doc EXCEPT !.cursors[p[2].site] = AllMarked(p).cur]
<1>1. ~(p[2].type = "Ins")
  OBVIOUS
<1> QED
  BY <1>1 DEF ConvertInternalOp, AllMarked, Converted, ConvertStep, MarkStep, Converts!Fold,
     Marks!Fold, FoldLeft, MapThenFoldSet, Converts!FoldLeft, Converts!MapThenFoldSet,
     Marks!FoldLeft, Marks!MapThenFoldSet, Max, Converts!Max, Marks!Max

LEMMA ConvertedOk ==
    ASSUME NEW p, NEW rs, rs = p[1].ranges, rs \in Seq(Rng), NEW n, n = LengthOf(rs),
           NEW segs \in Seq(Fitting(n)), NEW cur \in CursorsOf(rs), NEW b, b.cur = cur
    PROVE  Converts!Fold(p, b, segs).cur \in CursorsOf(rs)
<1> DEFINE G == {s \in Seq(Fitting(n)) : Converts!Fold(p, b, s).cur \in CursorsOf(rs)}
<1>1. << >> \in G
  <2>1. Converts!Fold(p, b, << >>) = b
    BY Converts!FoldEmpty
  <2> QED BY <2>1, EmptySeq
<1>2. ASSUME NEW s \in G, NEW y \in Fitting(n) PROVE Append(s, y) \in G
  <2>1. s \in Seq(Fitting(n)) /\ Append(s, y) \in Seq(Fitting(n))
    OBVIOUS
  <2>2. PICK x : x = Converts!Fold(p, b, s)
    OBVIOUS
  <2>3. x.cur \in CursorsOf(rs)
    BY <2>2
  <2>4. Converts!Fold(p, b, Append(s, y)) = ConvertStep(p, x, y)
    BY <2>1, <2>2, Converts!FoldAppend
  <2>5. PICK c : c = ConvertPos(rs, y.pos, x.cur, FALSE).cur
    OBVIOUS
  <2>6. \E i \in 1..Len(rs) : c = CursorAt(rs, i) /\ InRange(rs, i, y.pos, FALSE)
    BY <2>3, <2>5, FoundCursor
  <2>7. PICK i \in 1..Len(rs) : c = CursorAt(rs, i)
    BY <2>6
  <2>8. c \in CursorsOf(rs)
    BY <2>7 DEF CursorsOf
  <2>9. ConvertStep(p, x, y).cur = c
    BY <2>5 DEF ConvertStep
  <2> QED BY <2>1, <2>4, <2>8, <2>9
<1>3. G \in SUBSET Seq(Fitting(n))
  OBVIOUS
<1> HIDE DEF G
<1>4. segs \in G
  BY <1>1, <1>2, <1>3, Converts!SeqInduction
<1> QED BY <1>4 DEF G

\* A document of n characters and a cursor of its.
Kept(acc, n) ==
    /\ DocOk(acc.doc) /\ acc.cur \in CursorsOf(acc.doc.ranges)
    /\ LengthOf(acc.doc.ranges) = n

LEMMA AllMarkedOk ==
    ASSUME NEW p, p[2].live \in BOOLEAN, NEW n \in Nat,
           NEW segs \in Seq(Fitting(n)), NEW b, Kept(b, n)
    PROVE  Kept(Marks!Fold(p, b, segs), n)
<1> DEFINE G == {s \in Seq(Fitting(n)) : Kept(Marks!Fold(p, b, s), n)}
<1>1. << >> \in G
  <2>1. Marks!Fold(p, b, << >>) = b
    BY Marks!FoldEmpty
  <2> QED BY <2>1, EmptySeq
<1>2. ASSUME NEW s \in G, NEW y \in Fitting(n) PROVE Append(s, y) \in G
  <2>1. s \in Seq(Fitting(n)) /\ Append(s, y) \in Seq(Fitting(n))
    OBVIOUS
  <2>2. PICK x : x = Marks!Fold(p, b, s) /\ Kept(x, n)
    OBVIOUS
  <2>3. Marks!Fold(p, b, Append(s, y)) = MarkStep(p, x, y)
    BY <2>1, <2>2, Marks!FoldAppend
  <2>4. PICK d, rs, live : d = x.doc /\ rs = d.ranges /\ live = p[2].live
    OBVIOUS
  <2>5. DocOk(d) /\ x.cur \in CursorsOf(rs) /\ LengthOf(rs) = n
    BY <2>2, <2>4 DEF Kept
  <2>6. rs \in Seq(Rng)
    BY <2>4, <2>5 DEF DocOk
  <2>7. PICK c : c = ConvertPos(rs, y.pos, x.cur, FALSE).cur
    OBVIOUS
  <2>8. \E i \in 1..Len(rs) : c = CursorAt(rs, i) /\ InRange(rs, i, y.pos, FALSE)
    BY <2>5, <2>6, <2>7, FoundCursor
  <2>9. PICK i \in 1..Len(rs) : c = CursorAt(rs, i) /\ InRange(rs, i, y.pos, FALSE)
    BY <2>8
  <2>10. y.pos \in Nat /\ y.len \in Nat \ {0} /\ y.pos + y.len <= n
    BY DEF Fitting
  <2>11. MarkAt(d, rs, i, y.pos, y.len, c)
    BY <2>4, <2>5, <2>9, <2>10 DEF MarkAt
  <2>12. PICK res : res = ApplyMark(d, y.pos, y.len, c, live)
    OBVIOUS
  <2>13. ResultOk(rs, res, 0)
    BY <2>4, <2>11, <2>12, MarkOk
  <2>14. MarkStep(p, x, y) = res
    <3>1. CASE live
      <4>1. live = TRUE
        BY <2>4, <3>1
      <4>2. res = ApplyMark(d, y.pos, y.len, c, TRUE)
        BY <2>12, <4>1, Zenon
      <4>3. MarkStep(p, x, y) = ApplyMarkLive(d, y.pos, y.len, c)
        BY <2>4, <2>7, <3>1 DEF MarkStep
      <4> QED BY <4>2, <4>3, Zenon DEF ApplyMarkLive
    <3>2. CASE ~live
      <4>1. live = FALSE
        BY <2>4, <3>2
      <4>2. res = ApplyMark(d, y.pos, y.len, c, FALSE)
        BY <2>12, <4>1, Zenon
      <4>3. MarkStep(p, x, y) = ApplyMarkDead(d, y.pos, y.len, c)
        BY <2>4, <2>7, <3>2 DEF MarkStep
      <4> QED BY <4>2, <4>3, Zenon DEF ApplyMarkDead
    <3> QED BY <3>1, <3>2
  <2>15. Kept(res, n)
    <3>1. LengthOf(res.doc.ranges) = n + 0
      BY <2>5, <2>13 DEF ResultOk
    <3> QED BY <2>13, <3>1 DEF Kept, ResultOk
  <2> QED BY <2>1, <2>3, <2>14, <2>15
<1>3. G \in SUBSET Seq(Fitting(n))
  OBVIOUS
<1> HIDE DEF G
<1>4. segs \in G
  BY <1>1, <1>2, <1>3, Marks!SeqInduction
<1> QED BY <1>4 DEF G

\* A mark that arrives.
LEMMA InternalMarkOk ==
    ASSUME NEW d, DocOk(d), NEW op, op.type = "Mark", op.live \in BOOLEAN,
           NEW site \in Sites, op.site = site,
           NEW n, n = LengthOf(d.ranges), op.segs \in Seq(Fitting(n))
    PROVE  LET doc == ConvertInternalOp(d, op).doc
           IN  DocOk(doc) /\ LengthOf(doc.ranges) = n
<1>1. PICK p : p = <<d, op>>
  OBVIOUS
<1>2. p[1] = d /\ p[2] = op
  BY <1>1
<1>3. PICK rs, cur, segs : rs = d.ranges /\ cur = d.cursors[site] /\ segs = op.segs
  OBVIOUS
<1>4. rs \in Seq(Rng) /\ cur \in CursorsOf(rs)
  BY <1>3 DEF DocOk
<1>5. n \in Nat
  BY <1>3, <1>4, ExtentsType DEF LengthOf
<1>6. Converted(p).cur \in CursorsOf(rs)
  <2>1. PICK b : b = [cur |-> p[1].cursors[p[2].site], edits |-> << >>]
    OBVIOUS
  <2>2. b.cur = cur
    BY <1>2, <1>3, <2>1
  <2>3. Converts!Fold(p, b, segs).cur \in CursorsOf(rs)
    BY <1>2, <1>3, <1>4, <2>2, ConvertedOk
  <2> QED BY <1>2, <1>3, <2>1, <2>3 DEF Converted
<1>7. PICK b : b = [doc |-> p[1], cur |-> Converted(p).cur]
  OBVIOUS
<1>8. Kept(b, n)
  BY <1>2, <1>3, <1>6, <1>7 DEF Kept
<1>9. PICK res : res = AllMarked(p)
  OBVIOUS
<1>10. Kept(res, n)
  <2>1. p[2].live \in BOOLEAN /\ segs \in Seq(Fitting(n))
    BY <1>2, <1>3
  <2>2. Kept(Marks!Fold(p, b, segs), n)
    BY <1>5, <1>8, <2>1, AllMarkedOk
  <2> QED BY <1>2, <1>3, <1>7, <1>9, <2>2 DEF AllMarked
<1>11. ResultOk(rs, res, 0)
  <2>1. LengthOf(res.doc.ranges) = LengthOf(rs) + 0
    BY <1>3, <1>5, <1>10 DEF Kept
  <2> QED BY <1>10, <2>1 DEF Kept, ResultOk
<1>12. PICK doc : doc = [res.doc EXCEPT !.cursors[site] = res.cur]
  OBVIOUS
<1>13. ConvertInternalOp(d, op).doc = doc
  BY <1>2, <1>9, <1>12, InternalMarkIs
<1>14. DocOk(doc) /\ doc.ranges = res.doc.ranges
  BY <1>11, <1>12, SetCursor
<1>15. LengthOf(doc.ranges) = n
  BY <1>10, <1>14 DEF Kept
<1> QED BY <1>13, <1>14, <1>15

\* A deletion of the editor: what it covers internally is at least as long.
LEMMA EditorSpan ==
    ASSUME NEW rs \in Seq(Rng), NEW i \in 1..Len(rs), NEW j \in 1..Len(rs),
           NEW pos \in Nat, NEW len \in Nat, len > 0,
           InRange(rs, i, pos, TRUE), InRange(rs, j, pos + len, TRUE),
           NEW p, InternalIs(rs, i, pos, p), NEW q, InternalIs(rs, j, pos + len, q)
    PROVE  p \in Nat /\ q - p \in Nat \ {0} /\ p + (q - p) <= LengthOf(rs) /\ InRange(rs, i, p, FALSE)
<1>1. PICK l : l = Len(rs) /\ l \in Nat
  BY LenProperties
<1>2. PICK a, b, a2, b2 : /\ a = Start(rs, i, FALSE) /\ b = Start(rs, i, TRUE)
                          /\ a2 = Start(rs, i + 1, FALSE) /\ b2 = Start(rs, i + 1, TRUE)
  OBVIOUS
<1>3. PICK c, d, c2, d2 : /\ c = Start(rs, j, FALSE) /\ d = Start(rs, j, TRUE)
                          /\ c2 = Start(rs, j + 1, FALSE) /\ d2 = Start(rs, j + 1, TRUE)
  OBVIOUS
<1>4. PICK n : n = LengthOf(rs) /\ n = Start(rs, l + 1, FALSE)
  BY <1>1, StartIs DEF LengthOf
<1>5. i \in 1..(l + 1) /\ j \in 1..(l + 1) /\ i + 1 \in 1..(l + 1) /\ j + 1 \in 1..(l + 1)
  BY <1>1
<1>6. TRUE \in BOOLEAN
  OBVIOUS
<1>7. Holds(rs, i, p)
  <2>1. IF TRUE THEN InternalIs(rs, i, pos, p) ELSE p = pos
    OBVIOUS
  <2> QED BY <1>6, <2>1, FoundHolds, Zenon
<1>8. Holds(rs, j, q)
  <2>1. IF TRUE THEN InternalIs(rs, j, pos + len, q) ELSE q = pos + len
    OBVIOUS
  <2>2. pos + len \in Nat
    OBVIOUS
  <2> QED BY <1>6, <2>1, <2>2, FoundHolds, Zenon
<1>9. a \in Nat /\ b \in Nat /\ p \in Nat /\ a <= p /\ p <= a2
  <2>1. Start(rs, i + 1, FALSE) = Start(rs, i, FALSE) + rs[i].len
    BY <1>7, HoldsIs
  <2>2. Start(rs, i, FALSE) \in Nat /\ Start(rs, i, TRUE) \in Nat
    BY <1>7, HoldsIs
  <2>3. p \in Nat /\ Start(rs, i, FALSE) <= p /\ p <= Start(rs, i, FALSE) + rs[i].len
    BY <1>7 DEF Holds
  <2> QED BY <1>2, <2>1, <2>2, <2>3
<1>10. c \in Nat /\ d \in Nat /\ q \in Nat /\ q <= c2
  <2>1. Start(rs, j + 1, FALSE) = Start(rs, j, FALSE) + rs[j].len
    BY <1>8, HoldsIs
  <2>2. Start(rs, j, FALSE) \in Nat /\ Start(rs, j, TRUE) \in Nat
    BY <1>8, HoldsIs
  <2>3. q \in Nat /\ q <= Start(rs, j, FALSE) + rs[j].len
    BY <1>8 DEF Holds
  <2> QED BY <1>3, <2>1, <2>2, <2>3
<1>11. c2 \in Nat /\ d2 \in Nat /\ b2 \in Nat /\ n \in Nat
  <2>1. \A k \in 1..(l + 1) : Start(rs, k, FALSE) \in Nat
    BY <1>1, StartIs
  <2>2. \A k \in 1..(l + 1) : Start(rs, k, TRUE) \in Nat
    BY <1>1, StartIs
  <2>3. l + 1 \in 1..(l + 1)
    BY <1>1
  <2> QED BY <1>2, <1>3, <1>4, <1>5, <2>1, <2>2, <2>3
<1>12. q <= n
  <2>1. PICK k, m : k = j + 1 /\ m = l + 1
    OBVIOUS
  <2>2. k \in 1..(Len(rs) + 1) /\ m \in k..(Len(rs) + 1) /\ m - k \in Nat
    BY <1>1, <1>5, <2>1
  <2>3. Start(rs, k, FALSE) + (m - k) <= Start(rs, m, FALSE)
    BY <2>2, StartsGrow
  <2>4. c2 + (m - k) <= n
    BY <1>3, <1>4, <2>1, <2>3
  <2>5. PICK x : x = m - k /\ x \in Nat
    BY <2>2
  <2> QED BY <1>10, <1>11, <2>4, <2>5
<1>13. b <= pos /\ pos + len <= d2
  BY <1>2, <1>3 DEF InRange
<1>14. i <= j
  <2>1. SUFFICES ASSUME j < i PROVE FALSE
    BY <1>1
  <2>2. PICK k : k = j + 1
    OBVIOUS
  <2>3. k \in 1..(Len(rs) + 1) /\ i \in k..(Len(rs) + 1)
    BY <1>1, <1>5, <2>1, <2>2
  <2>4. Start(rs, k, TRUE) <= Start(rs, i, TRUE)
    BY <2>3, StartsGrow
  <2>5. d2 <= b
    BY <1>2, <1>3, <2>2, <2>4
  <2> QED BY <1>9, <1>11, <1>13, <2>5
<1>15. d - b <= c - a
  <2>1. i \in 1..(Len(rs) + 1) /\ j \in i..(Len(rs) + 1)
    BY <1>1, <1>5, <1>14
  <2>2. Start(rs, j, TRUE) - Start(rs, i, TRUE) <= Start(rs, j, FALSE) - Start(rs, i, FALSE)
    BY <2>1, StartsGrow
  <2> QED BY <1>2, <1>3, <2>2
<1>16. p = a + (pos - b) /\ q = c + ((pos + len) - d)
  BY <1>2, <1>3 DEF InternalIs
<1>17. q - p \in Nat \ {0}
  BY <1>9, <1>10, <1>15, <1>16
<1>18. p + (q - p) = q
  BY <1>9, <1>10
<1>19. InRange(rs, i, p, FALSE)
  BY <1>2, <1>9 DEF InRange
<1> QED BY <1>4, <1>9, <1>12, <1>17, <1>18, <1>19

LEMMA EditorDelOk ==
    ASSUME NEW d, DocOk(d), NEW site \in Sites, NEW pos \in Nat, NEW len \in Nat, len > 0,
           pos + len <= Extents(d.ranges, TRUE)
    PROVE  LET doc == ConvertEditorDel(d, pos, len, site).doc
           IN  DocOk(doc) /\ LengthOf(doc.ranges) = LengthOf(d.ranges)
<1>1. PICK rs, cur, e : rs = d.ranges /\ cur = d.cursors[site] /\ e = TRUE
  OBVIOUS
<1>2. rs \in Seq(Rng) /\ cur \in CursorsOf(rs) /\ e \in BOOLEAN
  BY <1>1 DEF DocOk
<1>3. PICK fin : fin = pos + len
  OBVIOUS
<1>4. PICK x : x = Extents(rs, e) /\ x \in Nat
  BY <1>2, ExtentsType
<1>5. fin \in Nat /\ fin <= x /\ pos <= x /\ fin > 0
  <2>1. pos + len <= x
    BY <1>1, <1>4
  <2> QED BY <1>3, <1>4, <2>1
<1>6. rs # << >>
  <2>1. SUFFICES ASSUME rs = << >> PROVE FALSE
    OBVIOUS
  <2>2. x = 0
    BY <1>4, <2>1, ExtentsEmpty
  <2> QED BY <1>5, <2>2
<1>7. PICK at : at = ConvertPos(rs, pos, cur, e)
  OBVIOUS
<1>8. Found(rs, pos, e, at)
  BY <1>2, <1>4, <1>5, <1>6, <1>7, ConvertPosIs
<1>9. PICK i \in 1..Len(rs) : /\ at.cur = CursorAt(rs, i) /\ InRange(rs, i, pos, e)
                              /\ InternalIs(rs, i, pos, at.pos)
  BY <1>1, <1>8 DEF Found
<1>10. at.cur \in CursorsOf(rs)
  <2>1. i \in 0..Len(rs)
    OBVIOUS
  <2> QED BY <1>9, <2>1 DEF CursorsOf
<1>11. PICK end : end = ConvertPos(rs, fin, at.cur, e)
  OBVIOUS
<1>12. Found(rs, fin, e, end)
  BY <1>2, <1>4, <1>5, <1>6, <1>10, <1>11, ConvertPosIs
<1>13. PICK j \in 1..Len(rs) : InRange(rs, j, fin, e) /\ InternalIs(rs, j, fin, end.pos)
  BY <1>1, <1>12 DEF Found
<1>14. PICK p, q : p = at.pos /\ q = end.pos
  OBVIOUS
<1>15. p \in Nat /\ q - p \in Nat \ {0} /\ p + (q - p) <= LengthOf(rs) /\ InRange(rs, i, p, FALSE)
  <2>1. InRange(rs, i, pos, TRUE) /\ InRange(rs, j, pos + len, TRUE)
    BY <1>1, <1>3, <1>9, <1>13, Zenon
  <2>2. InternalIs(rs, i, pos, p) /\ InternalIs(rs, j, pos + len, q)
    BY <1>3, <1>9, <1>13, <1>14
  <2> QED BY <1>2, <2>1, <2>2, EditorSpan
<1>16. MarkAt(d, rs, i, p, q - p, at.cur)
  BY <1>1, <1>9, <1>15 DEF MarkAt
<1>17. PICK live, res : live = FALSE /\ res = ApplyMark(d, p, q - p, at.cur, live)
  OBVIOUS
<1>18. ResultOk(rs, res, 0)
  BY <1>16, <1>17, MarkOk
<1>19. ApplyMarkDead(d, p, q - p, at.cur) = res
  BY <1>17, Zenon DEF ApplyMarkDead
<1>20. ConvertEditorDel(d, pos, len, site).doc = [res.doc EXCEPT !.cursors[site] = res.cur]
  BY <1>1, <1>3, <1>7, <1>11, <1>14, <1>19 DEF ConvertEditorDel
<1>21. PICK doc : doc = [res.doc EXCEPT !.cursors[site] = res.cur]
  OBVIOUS
<1>22. DocOk(doc) /\ doc.ranges = res.doc.ranges
  BY <1>18, <1>21, SetCursor
<1>23. LengthOf(doc.ranges) = LengthOf(rs)
  <2>1. LengthOf(rs) \in Nat
    BY <1>2, ExtentsType DEF LengthOf
  <2>2. LengthOf(doc.ranges) = LengthOf(rs) + 0
    BY <1>18, <1>22 DEF ResultOk
  <2> QED BY <2>1, <2>2
<1> QED BY <1>1, <1>20, <1>21, <1>22, <1>23

-----------------------------------------------------------------------------
(* The ops of a difference with the file *)

\* The ops of the external site on a document of at least n characters.
DiskOp(op, n) ==
    /\ op.site = External
    /\ \/ op.type = "Ins" /\ op.pos \in Nat /\ op.pos <= n /\ Len(op.str) \in Nat \ {0}
       \/ op.type = "Mark" /\ op.live = FALSE /\ op.segs \in Seq(Fitting(n))

DiskIns(at, i, len) == Ins(at, NewChunk(i, len), External)
DiskDel(at, len) == Mark(<<Seg(at, len)>>, FALSE, External)
DiskOps(n) ==
    {DiskIns(at, i, len) : at \in 0..n, i \in Nat, len \in Nat \ {0}}
      \cup {DiskDel(s.pos, s.len) : s \in Fitting(n)}

\* What an op adds to the length of the document.
OpLen(op) == IF op.type = "Ins" THEN Len(op.str) ELSE 0

LEMMA NewChunkLen ==
    ASSUME NEW i, NEW len \in Nat
    PROVE  Len(NewChunk(i, len)) = len
<1>1. \A k \in 1..len : <<External, i, k>> \in {<<External, i, j>> : j \in 1..len}
  OBVIOUS
<1>2. NewChunk(i, len) \in Seq({<<External, i, j>> : j \in 1..len})
  BY <1>1 DEF NewChunk
<1>3. DOMAIN NewChunk(i, len) = 1..len
  BY DEF NewChunk
<1> QED BY <1>2, <1>3

LEMMA FittingGrows ==
    ASSUME NEW n \in Nat, NEW m \in Nat, n <= m
    PROVE  Fitting(n) \subseteq Fitting(m) /\ DiskOps(n) \subseteq DiskOps(m)
<1>1. ASSUME NEW s \in Fitting(n) PROVE s \in Fitting(m)
  <2>1. s \in [pos : Nat, len : Nat \ {0}] /\ s.pos + s.len <= n
    BY DEF Fitting
  <2>2. PICK a, b : a = s.pos /\ b = s.len
    OBVIOUS
  <2>3. a \in Nat /\ b \in Nat /\ a + b <= n
    BY <2>1, <2>2
  <2>4. a + b <= m
    BY <2>3
  <2> QED BY <2>1, <2>2, <2>4 DEF Fitting
<1>2. 0..n \subseteq 0..m
  OBVIOUS
<1>3. ASSUME NEW op \in DiskOps(n) PROVE op \in DiskOps(m)
  <2>1. CASE op \in {DiskIns(at, i, len) : at \in 0..n, i \in Nat, len \in Nat \ {0}}
    BY <1>2, <2>1 DEF DiskOps
  <2>2. CASE op \in {DiskDel(s.pos, s.len) : s \in Fitting(n)}
    BY <1>1, <2>2 DEF DiskOps
  <2> QED BY <2>1, <2>2 DEF DiskOps
<1> QED BY <1>1, <1>3

LEMMA DiskOpsAre ==
    ASSUME NEW n \in Nat, NEW op \in DiskOps(n)
    PROVE  DiskOp(op, n) /\ OpLen(op) \in Nat
<1>1. ASSUME NEW at \in 0..n, NEW i \in Nat, NEW len \in Nat \ {0}, op = DiskIns(at, i, len)
      PROVE  DiskOp(op, n) /\ OpLen(op) \in Nat
  <2>1. op.site = External /\ op.type = "Ins" /\ op.pos = at /\ op.str = NewChunk(i, len)
    BY <1>1 DEF DiskIns, Ins
  <2>2. Len(op.str) = len
    BY <2>1, NewChunkLen
  <2> QED BY <2>1, <2>2 DEF DiskOp, OpLen
<1>2. ASSUME NEW s \in Fitting(n), op = DiskDel(s.pos, s.len)
      PROVE  DiskOp(op, n) /\ OpLen(op) \in Nat
  <2>1. op.site = External /\ op.type = "Mark" /\ op.live = FALSE
    BY <1>2 DEF DiskDel, Mark
  <2>2. op.segs = <<Seg(s.pos, s.len)>>
    BY <1>2 DEF DiskDel, Mark
  <2>3. Seg(s.pos, s.len) \in Fitting(n)
    BY DEF Seg, Fitting
  <2>4. op.segs \in Seq(Fitting(n))
    BY <2>2, <2>3
  <2> QED BY <2>1, <2>4 DEF DiskOp, OpLen
<1> QED BY <1>1, <1>2 DEF DiskOps

\* One of them.
LEMMA DiskOpOk ==
    ASSUME NEW d, DocOk(d), NEW n \in Nat, n <= LengthOf(d.ranges), NEW op \in DiskOps(n)
    PROVE  LET doc == ConvertInternalOp(d, op).doc
           IN  DocOk(doc) /\ LengthOf(doc.ranges) = LengthOf(d.ranges) + OpLen(op)
<1>1. PICK l : l = LengthOf(d.ranges)
  OBVIOUS
<1>2. l \in Nat
  <2>1. d.ranges \in Seq(Rng)
    BY DEF DocOk
  <2> QED BY <1>1, <2>1, ExtentsType DEF LengthOf
<1>3. op \in DiskOps(l)
  BY <1>1, <1>2, FittingGrows
<1>4. DiskOp(op, l)
  BY <1>2, <1>3, DiskOpsAre
<1>5. External \in Sites
  BY ResetAssumption
<1>6. CASE op.type = "Ins"
  <2>1. op.pos \in Nat /\ op.pos <= l /\ Len(op.str) \in Nat \ {0} /\ op.site = External
    BY <1>4, <1>6 DEF DiskOp
  <2>2. PICK pos, len : pos = op.pos /\ len = Len(op.str)
    OBVIOUS
  <2>3. pos \in Nat /\ pos <= LengthOf(d.ranges) /\ len \in Nat /\ len > 0
    BY <1>1, <2>1, <2>2
  <2>4. LET doc == ConvertInternalOp(d, op).doc
        IN  DocOk(doc) /\ LengthOf(doc.ranges) = LengthOf(d.ranges) + len
    BY <1>5, <1>6, <2>1, <2>2, <2>3, InternalInsOk
  <2> QED BY <1>6, <2>2, <2>4 DEF OpLen
<1>7. CASE op.type # "Ins"
  <2>1. op.type = "Mark" /\ op.live = FALSE /\ op.segs \in Seq(Fitting(l)) /\ op.site = External
    BY <1>4, <1>7 DEF DiskOp
  <2>2. op.live \in BOOLEAN
    BY <2>1
  <2>3. LET doc == ConvertInternalOp(d, op).doc
        IN  DocOk(doc) /\ LengthOf(doc.ranges) = l
    BY <1>1, <1>5, <2>1, <2>2, InternalMarkOk
  <2> QED BY <1>1, <1>2, <1>7, <2>3 DEF OpLen
<1> QED BY <1>6, <1>7

\* What they add together.
OpSum == INSTANCE FoldLemmas WITH Op <- LAMBDA p, x, y : x + OpLen(y)
OpsLen(ops) == OpSum!Fold(0, 0, ops)

LEMMA OpsLenNext ==
    /\ OpsLen(<< >>) = 0
    /\ \A S : \A ops \in Seq(S) : \A op \in S : OpsLen(Append(ops, op)) = OpsLen(ops) + OpLen(op)
<1>1. OpsLen(<< >>) = 0
  BY OpSum!FoldEmpty DEF OpsLen
<1>2. ASSUME NEW S, NEW ops \in Seq(S), NEW op \in S
      PROVE  OpsLen(Append(ops, op)) = OpsLen(ops) + OpLen(op)
  BY OpSum!FoldAppend DEF OpsLen
<1> QED BY <1>1, <1>2

LEMMA OpsLenType ==
    ASSUME NEW n \in Nat, NEW ops \in Seq(DiskOps(n))
    PROVE  OpsLen(ops) \in Nat
<1> DEFINE G == {s \in Seq(DiskOps(n)) : OpsLen(s) \in Nat}
<1>1. << >> \in G
  BY OpsLenNext, EmptySeq
<1>2. ASSUME NEW s \in G, NEW op \in DiskOps(n) PROVE Append(s, op) \in G
  <2>1. s \in Seq(DiskOps(n)) /\ Append(s, op) \in Seq(DiskOps(n)) /\ OpsLen(s) \in Nat
    OBVIOUS
  <2>2. OpsLen(Append(s, op)) = OpsLen(s) + OpLen(op)
    BY <2>1, OpsLenNext
  <2>3. OpLen(op) \in Nat
    BY DiskOpsAre
  <2> QED BY <2>1, <2>2, <2>3
<1>3. G \in SUBSET Seq(DiskOps(n))
  OBVIOUS
<1> HIDE DEF G
<1>4. ops \in G
  BY <1>1, <1>2, <1>3, OpSum!SeqInduction
<1> QED BY <1>4 DEF G

\* In whatever order.
LEMMA OpsLenFirst ==
    ASSUME NEW n \in Nat, NEW op \in DiskOps(n), NEW ops \in Seq(DiskOps(n))
    PROVE  OpsLen(<<op>> \o ops) = OpsLen(ops) + OpLen(op)
<1> DEFINE G == {s \in Seq(DiskOps(n)) : OpsLen(<<op>> \o s) = OpsLen(s) + OpLen(op)}
<1>1. << >> \in G
  <2>1. PICK e, s : e = << >> /\ s = <<op>>
    OBVIOUS
  <2>2. e = << >> /\ s = <<op>> /\ e \in Seq(DiskOps(n)) /\ s \in Seq(DiskOps(n))
    BY <2>1, EmptySeq
  <2>3. Append(e, op) = e \o <<op>>
    BY <2>2, AppendIsConcat
  <2>4. e \o s = s /\ s \o e = s
    BY <2>2, ConcatEmptySeq
  <2>5. s \o e = Append(e, op)
    BY <2>2, <2>3, <2>4
  <2>6. OpsLen(Append(e, op)) = OpsLen(e) + OpLen(op)
    BY <2>2, OpsLenNext
  <2> QED BY <2>2, <2>5, <2>6
<1>2. ASSUME NEW s \in G, NEW y \in DiskOps(n) PROVE Append(s, y) \in G
  <2>1. /\ s \in Seq(DiskOps(n)) /\ Append(s, y) \in Seq(DiskOps(n))
        /\ OpsLen(<<op>> \o s) = OpsLen(s) + OpLen(op)
    OBVIOUS
  <2>2. PICK a, b, c : a = <<op>> /\ b = <<y>> /\ c = a \o s
    OBVIOUS
  <2>3. a \in Seq(DiskOps(n)) /\ b \in Seq(DiskOps(n)) /\ c \in Seq(DiskOps(n))
    BY <2>1, <2>2, ConcatProperties
  <2>4. Append(s, y) = s \o b /\ Append(c, y) = c \o b
    BY <2>1, <2>2, <2>3, AppendIsConcat
  <2>5. (a \o s) \o b = a \o (s \o b)
    BY <2>1, <2>3, ConcatAssociative, SMTT(20)
  <2>6. a \o Append(s, y) = Append(c, y)
    BY <2>2, <2>4, <2>5
  <2>7. OpsLen(Append(c, y)) = OpsLen(c) + OpLen(y)
    BY <2>3, OpsLenNext
  <2>8. OpsLen(Append(s, y)) = OpsLen(s) + OpLen(y)
    BY <2>1, OpsLenNext
  <2>9. OpsLen(s) \in Nat /\ OpLen(op) \in Nat /\ OpLen(y) \in Nat
    BY <2>1, OpsLenType, DiskOpsAre
  <2>10. OpsLen(c) = OpsLen(s) + OpLen(op)
    BY <2>1, <2>2
  <2>11. OpsLen(Append(c, y)) = OpsLen(Append(s, y)) + OpLen(op)
    BY <2>7, <2>8, <2>9, <2>10
  <2> QED BY <2>1, <2>2, <2>6, <2>11
<1>3. G \in SUBSET Seq(DiskOps(n))
  OBVIOUS
<1> HIDE DEF G
<1>4. ops \in G
  BY <1>1, <1>2, <1>3, OpSum!SeqInduction
<1> QED BY <1>4 DEF G

LEMMA ReverseNext ==
    ASSUME NEW S, NEW s \in Seq(S), NEW e \in S
    PROVE  /\ Reverse(s) \in Seq(S)
           /\ Reverse(Append(s, e)) = <<e>> \o Reverse(s)
<1>1. ASSUME NEW t \in Seq(S)
      PROVE  /\ Reverse(t) \in Seq(S) /\ Len(Reverse(t)) = Len(t)
             /\ \A k \in 1..Len(t) : Reverse(t)[k] = t[(Len(t) - k) + 1]
  <2>1. PICK l : l = Len(t) /\ l \in Nat
    BY LenProperties
  <2>2. \A k \in 1..l : t[(l - k) + 1] \in S
    BY <2>1
  <2>3. Reverse(t) = [k \in 1..l |-> t[(l - k) + 1]]
    BY <2>1 DEF Reverse
  <2> QED BY <2>1, <2>2, <2>3
<1>2. PICK t, r, q, f, c : /\ t = Append(s, e) /\ r = Reverse(t) /\ q = Reverse(s)
                           /\ f = <<e>> /\ c = f \o q
  OBVIOUS
<1>3. PICK l, m : l = Len(s) /\ l \in Nat /\ m = l + 1
  BY LenProperties
<1>4. t \in Seq(S) /\ Len(t) = m /\ t[m] = e /\ \A k \in 1..l : t[k] = s[k]
  BY <1>2, <1>3, AppendProperties
<1>5. r \in Seq(S) /\ Len(r) = m /\ \A k \in 1..m : r[k] = t[(m - k) + 1]
  BY <1>1, <1>2, <1>4
<1>6. q \in Seq(S) /\ Len(q) = l /\ \A k \in 1..l : q[k] = s[(l - k) + 1]
  BY <1>1, <1>2, <1>3
<1>7. f \in Seq(S) /\ Len(f) = 1 /\ f[1] = e
  BY <1>2
<1>8. /\ c \in Seq(S) /\ Len(c) = 1 + l
      /\ \A k \in 1..(1 + l) : c[k] = IF k <= 1 THEN f[k] ELSE q[k - 1]
  BY <1>2, <1>6, <1>7, ConcatProperties
<1>9. ASSUME NEW k \in 1..m PROVE r[k] = c[k]
  <2>1. CASE k = 1
    <3>1. (m - k) + 1 = m /\ k \in 1..(1 + l) /\ k <= 1
      BY <1>3, <2>1
    <3> QED BY <1>4, <1>5, <1>7, <1>8, <2>1, <3>1
  <2>2. CASE k # 1
    <3>1. PICK j, i : j = k - 1 /\ i = (m - k) + 1
      OBVIOUS
    <3>2. j \in 1..l /\ i \in 1..l /\ (l - j) + 1 = i /\ k \in 1..(1 + l) /\ ~(k <= 1)
      BY <1>3, <2>2, <3>1
    <3>3. c[k] = q[j] /\ r[k] = t[i]
      BY <1>5, <1>8, <3>1, <3>2
    <3> QED BY <1>4, <1>6, <3>2, <3>3
  <2> QED BY <2>1, <2>2
<1>10. r = c
  <2>1. Len(c) = m
    BY <1>3, <1>8
  <2> QED BY <1>5, <1>8, <1>9, <2>1, SeqEqual
<1> QED BY <1>2, <1>6, <1>10

LEMMA OpsLenReverse ==
    ASSUME NEW n \in Nat, NEW ops \in Seq(DiskOps(n))
    PROVE  Reverse(ops) \in Seq(DiskOps(n)) /\ OpsLen(Reverse(ops)) = OpsLen(ops)
<1> DEFINE G == {s \in Seq(DiskOps(n)) : Reverse(s) \in Seq(DiskOps(n))
                                         /\ OpsLen(Reverse(s)) = OpsLen(s)}
<1>1. << >> \in G
  <2>1. Reverse(<< >>) = << >>
    BY DEF Reverse
  <2> QED BY <2>1, EmptySeq
<1>2. ASSUME NEW s \in G, NEW y \in DiskOps(n) PROVE Append(s, y) \in G
  <2>1. /\ s \in Seq(DiskOps(n)) /\ Append(s, y) \in Seq(DiskOps(n))
        /\ Reverse(s) \in Seq(DiskOps(n)) /\ OpsLen(Reverse(s)) = OpsLen(s)
    OBVIOUS
  <2>2. Reverse(Append(s, y)) = <<y>> \o Reverse(s) /\ Reverse(Append(s, y)) \in Seq(DiskOps(n))
    BY <2>1, ReverseNext
  <2>3. OpsLen(<<y>> \o Reverse(s)) = OpsLen(Reverse(s)) + OpLen(y)
    BY <2>1, OpsLenFirst
  <2>4. OpsLen(Append(s, y)) = OpsLen(s) + OpLen(y)
    BY <2>1, OpsLenNext
  <2> QED BY <2>1, <2>2, <2>3, <2>4
<1>3. G \in SUBSET Seq(DiskOps(n))
  OBVIOUS
<1> HIDE DEF G
<1>4. ops \in G
  BY <1>1, <1>2, <1>3, OpSum!SeqInduction
<1> QED BY <1>4 DEF G

\* What a chunk takes and adds.
Takes == INSTANCE FoldLemmas WITH
    Op <- LAMBDA p, x, y : IF y.kind = "Insert" THEN x ELSE x + y.len
Adds  == INSTANCE FoldLemmas WITH
    Op <- LAMBDA p, x, y : IF y.kind = "Insert" THEN x + y.len ELSE x

LEMMA TakenIs ==
    ASSUME NEW chunks
    PROVE  Taken(chunks) = Takes!Fold(0, 0, chunks)
BY DEF Taken, Takes!Fold, FoldLeft, MapThenFoldSet, Takes!FoldLeft, Takes!MapThenFoldSet,
   Max, Takes!Max

LEMMA AddedIs ==
    ASSUME NEW chunks
    PROVE  Added(chunks) = Adds!Fold(0, 0, chunks)
BY DEF Added, Adds!Fold, FoldLeft, MapThenFoldSet, Adds!FoldLeft, Adds!MapThenFoldSet,
   Max, Adds!Max

LEMMA TakenNext ==
    ASSUME NEW S, NEW chunks \in Seq(S), NEW c \in S
    PROVE  /\ Taken(<< >>) = 0 /\ Added(<< >>) = 0
           /\ Taken(Append(chunks, c)) =
                IF c.kind = "Insert" THEN Taken(chunks) ELSE Taken(chunks) + c.len
           /\ Added(Append(chunks, c)) =
                IF c.kind = "Insert" THEN Added(chunks) + c.len ELSE Added(chunks)
<1>1. PICK e : e = << >>
  OBVIOUS
<1>2. Takes!Fold(0, 0, e) = 0 /\ Adds!Fold(0, 0, e) = 0
  BY <1>1, Takes!FoldEmpty, Adds!FoldEmpty
<1>3. Takes!Fold(0, 0, Append(chunks, c)) =
        IF c.kind = "Insert" THEN Takes!Fold(0, 0, chunks) ELSE Takes!Fold(0, 0, chunks) + c.len
  BY Takes!FoldAppend
<1>4. Adds!Fold(0, 0, Append(chunks, c)) =
        IF c.kind = "Insert" THEN Adds!Fold(0, 0, chunks) + c.len ELSE Adds!Fold(0, 0, chunks)
  BY Adds!FoldAppend
<1> QED BY <1>1, <1>2, <1>3, <1>4, TakenIs, AddedIs

\* The loop of chunks_to_ops.
ChunkStep(p, ops, i) ==
    LET at == Taken(SubSeq(p, 1, i - 1))
    IN  IF p[i].kind = "Equal" THEN ops
        ELSE Append(ops, IF p[i].kind = "Insert"
                         THEN Ins(at, NewChunk(i, p[i].len), External)
                         ELSE Mark(<<Seg(at, p[i].len)>>, FALSE, External))
ChunkOps == INSTANCE FoldLemmas WITH Op <- LAMBDA p, x, y : ChunkStep(p, x, y)

LEMMA ChunksToOpsIs ==
    ASSUME NEW p
    PROVE  ChunksToOps(p) = Reverse(ChunkOps!Fold(p, << >>, [i \in DOMAIN p |-> i]))
BY DEF ChunksToOps, BackToFront, ChunkStep, ChunkOps!Fold, FoldLeft, MapThenFoldSet,
   ChunkOps!FoldLeft, ChunkOps!MapThenFoldSet, Max, ChunkOps!Max

\* The ops of the first k chunks.
ChunkInv(diff, k, ops) ==
    LET n == Taken(SubSeq(diff, 1, k))
    IN  n \in Nat /\ ops \in Seq(DiskOps(n)) /\ OpsLen(ops) = Added(SubSeq(diff, 1, k))

LEMMA ChunkNext ==
    ASSUME NEW diff \in Seq(Chunks), NEW k \in Nat, k < Len(diff), NEW ops, ChunkInv(diff, k, ops)
    PROVE  ChunkInv(diff, k + 1, ChunkStep(diff, ops, k + 1))
<1>1. PICK i : i = k + 1
  OBVIOUS
<1>2. i \in 1..Len(diff) /\ k \in 0..Len(diff) /\ i - 1 = k /\ i \in Nat
  <2>1. Len(diff) \in Nat
    BY LenProperties
  <2> QED BY <1>1, <2>1
<1>3. PICK c, kind, len : c = diff[i] /\ kind = c.kind /\ len = c.len
  OBVIOUS
<1>4. c \in Chunks /\ len \in Nat \ {0}
  <2>1. c \in Chunks
    BY <1>2, <1>3
  <2>2. len \in 1..MaxLen
    BY <1>3, <2>1 DEF Chunks
  <2> QED BY <2>1, <2>2, DocAssumption
<1>5. PICK s, t : s = SubSeq(diff, 1, k) /\ t = SubSeq(diff, 1, i)
  OBVIOUS
<1>6. s \in Seq(Chunks) /\ t = Append(s, c)
  BY <1>1, <1>2, <1>3, <1>5, PrefixNext
<1>7. PICK n, m : n = Taken(s) /\ m = Taken(t)
  OBVIOUS
<1>8. n \in Nat /\ ops \in Seq(DiskOps(n)) /\ OpsLen(ops) = Added(s)
  BY <1>5, <1>7 DEF ChunkInv
<1>9. OpsLen(ops) \in Nat
  BY <1>8, OpsLenType
<1>10. m = IF kind = "Insert" THEN n ELSE n + len
  BY <1>3, <1>4, <1>6, <1>7, TakenNext
<1>11. Added(t) = IF kind = "Insert" THEN Added(s) + len ELSE Added(s)
  BY <1>3, <1>4, <1>6, TakenNext
<1>12. m \in Nat /\ n <= m
  BY <1>4, <1>8, <1>10
<1>13. ops \in Seq(DiskOps(m))
  BY <1>8, <1>12, FittingGrows, SeqMonotonic
<1>14. PICK new : new = ChunkStep(diff, ops, i)
  OBVIOUS
<1>15. CASE kind = "Equal"
  <2>1. new = ops
    BY <1>3, <1>14, <1>15 DEF ChunkStep
  <2>2. OpsLen(new) = Added(t)
    BY <1>8, <1>9, <1>11, <1>15, <2>1
  <2> QED BY <1>1, <1>5, <1>7, <1>12, <1>13, <1>14, <2>1, <2>2 DEF ChunkInv
<1>16. CASE kind = "Insert"
  <2>1. PICK op : op = DiskIns(n, i, len)
    OBVIOUS
  <2>2. new = Append(ops, op)
    BY <1>2, <1>3, <1>5, <1>7, <1>14, <1>16, <2>1 DEF ChunkStep, DiskIns
  <2>3. op \in DiskOps(m)
    <3>1. n \in 0..m
      BY <1>8, <1>12
    <3> QED BY <1>2, <1>4, <2>1, <3>1 DEF DiskOps
  <2>4. OpLen(op) = len
    BY <1>4, <2>1, NewChunkLen DEF OpLen, DiskIns, Ins
  <2>5. OpsLen(new) = OpsLen(ops) + OpLen(op)
    BY <1>13, <2>2, <2>3, OpsLenNext
  <2>6. OpsLen(new) = Added(t) /\ new \in Seq(DiskOps(m))
    BY <1>8, <1>11, <1>13, <1>16, <2>2, <2>3, <2>4, <2>5
  <2> QED BY <1>1, <1>5, <1>7, <1>12, <1>14, <2>6 DEF ChunkInv
<1>17. CASE kind = "Delete"
  <2>1. PICK op : op = DiskDel(n, len)
    OBVIOUS
  <2>2. new = Append(ops, op)
    BY <1>2, <1>3, <1>5, <1>7, <1>14, <1>17, <2>1 DEF ChunkStep, DiskDel
  <2>3. op \in DiskOps(m)
    <3>1. PICK g : g = [pos |-> n, len |-> len]
      OBVIOUS
    <3>2. n + len <= m
      BY <1>4, <1>8, <1>10, <1>17
    <3>3. g \in Fitting(m) /\ g.pos = n /\ g.len = len
      BY <1>4, <1>8, <3>1, <3>2 DEF Fitting
    <3> QED BY <2>1, <3>3 DEF DiskOps
  <2>4. OpLen(op) = 0
    BY <2>1 DEF OpLen, DiskDel, Mark
  <2>5. OpsLen(new) = OpsLen(ops) + OpLen(op)
    BY <1>13, <2>2, <2>3, OpsLenNext
  <2>6. OpsLen(new) = Added(t) /\ new \in Seq(DiskOps(m))
    BY <1>8, <1>9, <1>11, <1>13, <1>17, <2>2, <2>3, <2>4, <2>5
  <2> QED BY <1>1, <1>5, <1>7, <1>12, <1>14, <2>6 DEF ChunkInv
<1>18. kind \in {"Equal", "Delete", "Insert"}
  BY <1>3, <1>4 DEF Chunks
<1> QED BY <1>15, <1>16, <1>17, <1>18

LEMMA ChunkOpsOk ==
    ASSUME NEW diff \in Seq(Chunks)
    PROVE  /\ Taken(diff) \in Nat
           /\ ChunksToOps(diff) \in Seq(DiskOps(Taken(diff)))
           /\ OpsLen(ChunksToOps(diff)) = Added(diff)
<1> DEFINE Ops(k) == ChunkOps!Fold(diff, << >>, Indices(1, k))
           G == {k \in Nat : k <= Len(diff) => ChunkInv(diff, k, Ops(k))}
<1>1. Len(diff) \in Nat
  BY LenProperties
<1>2. 0 \in G
  <2>1. PICK o, z : o = 1 /\ z = 0
    OBVIOUS
  <2>2. o \in Nat /\ z \in Int /\ o \in Int /\ z < o
    BY <2>1
  <2>3. Indices(o, z) = << >>
    BY <2>1, <2>2, IndicesNext
  <2>4. Ops(z) = << >>
    BY <2>1, <2>3, ChunkOps!FoldEmpty
  <2>5. SubSeq(diff, o, z) = << >>
    BY <2>2, SubSeqEmpty
  <2>6. PICK t, a : t = Taken(SubSeq(diff, o, z)) /\ a = Added(SubSeq(diff, o, z))
    OBVIOUS
  <2>7. t = 0 /\ a = 0
    <3>1. << >> \in Seq({0})
      BY EmptySeq
    <3>2. 0 \in {0}
      OBVIOUS
    <3>3. Taken(<< >>) = 0 /\ Added(<< >>) = 0
      BY <3>1, <3>2, TakenNext
    <3> QED BY <2>5, <2>6, <3>3
  <2>8. << >> \in Seq(DiskOps(t)) /\ OpsLen(<< >>) = 0
    BY EmptySeq, OpsLenNext
  <2>9. ChunkInv(diff, z, << >>)
    BY <2>1, <2>6, <2>7, <2>8 DEF ChunkInv
  <2>10. ChunkInv(diff, z, Ops(z))
    BY <2>4, <2>9
  <2> QED BY <2>1, <2>10
<1>3. ASSUME NEW k \in G PROVE k + 1 \in G
  <2>1. k \in Nat /\ (k <= Len(diff) => ChunkInv(diff, k, Ops(k)))
    OBVIOUS
  <2>2. SUFFICES ASSUME k + 1 <= Len(diff) PROVE ChunkInv(diff, k + 1, Ops(k + 1))
    BY <2>1
  <2>3. k < Len(diff) /\ k <= Len(diff)
    BY <1>1, <2>1, <2>2
  <2>4. ChunkInv(diff, k + 1, ChunkStep(diff, Ops(k), k + 1))
    BY <2>1, <2>3, ChunkNext
  <2>5. Ops(k + 1) = ChunkStep(diff, Ops(k), k + 1)
    <3>1. PICK s, t, i, o : s = Indices(o, k) /\ t = Indices(o, k + 1) /\ i = k + 1 /\ o = 1
      OBVIOUS
    <3>2. o \in Nat /\ o + k = i /\ i \in Nat
      BY <2>1, <3>1
    <3>3. s \in Seq(Nat) /\ t = Append(s, o + k)
      BY <2>1, <3>1, <3>2, IndicesNext
    <3>4. ChunkOps!Fold(diff, << >>, Append(s, i)) = ChunkStep(diff, ChunkOps!Fold(diff, << >>, s), i)
      BY <3>2, <3>3, ChunkOps!FoldAppend
    <3> QED BY <3>1, <3>2, <3>3, <3>4
  <2> QED BY <2>4, <2>5
<1>4. G \in SUBSET Nat
  OBVIOUS
<1> HIDE DEF G
<1>5. G = Nat
  BY <1>2, <1>3, <1>4, ChunkOps!Induction
<1>6. PICK l, ops, n : l = Len(diff) /\ ops = Ops(l) /\ n = Taken(diff)
  OBVIOUS
<1>7. ChunkInv(diff, l, ops)
  <2>1. l \in G /\ l <= Len(diff)
    BY <1>1, <1>5, <1>6
  <2> QED BY <1>6, <2>1 DEF G
<1>8. SubSeq(diff, 1, l) = diff
  BY <1>6, SubSeqFull
<1>9. n \in Nat /\ ops \in Seq(DiskOps(n)) /\ OpsLen(ops) = Added(diff)
  BY <1>6, <1>7, <1>8 DEF ChunkInv
<1>10. ChunksToOps(diff) = Reverse(ops)
  <2>1. [i \in DOMAIN diff |-> i] = Indices(1, l)
    <3>1. DOMAIN diff = 1..l
      BY <1>6, LenProperties
    <3>2. \A i \in 1..l : 1 + i - 1 = i
      OBVIOUS
    <3>3. [i \in 1..l |-> i] = [i \in 1..l |-> 1 + i - 1]
      BY <3>2
    <3> QED BY <3>1, <3>3 DEF Indices
  <2> QED BY <1>6, <2>1, ChunksToOpsIs
<1>11. Reverse(ops) \in Seq(DiskOps(n)) /\ OpsLen(Reverse(ops)) = OpsLen(ops)
  BY <1>9, OpsLenReverse
<1> QED BY <1>6, <1>9, <1>10, <1>11

\* The loop of reset_doc_from_disk.
ResetStep(x, op) ==
    LET result == ConvertInternalOp(x.doc, op)
    IN  [doc |-> result.doc, buffer |-> ApplyEdits(x.buffer, result.live, result.edits)]
Resets == INSTANCE FoldLemmas WITH Op <- LAMBDA p, x, y : ResetStep(x, y)

LEMMA ResetIs ==
    ASSUME NEW diff
    PROVE  Reset(diff) = Resets!Fold(0, [doc |-> Doc, buffer |-> Buffer(Cells(ranges))],
                                     ChunksToOps(diff))
BY DEF Reset, ResetStep, Resets!Fold, FoldLeft, MapThenFoldSet, Resets!FoldLeft,
   Resets!MapThenFoldSet, Max, Resets!Max

LEMMA ResetsOk ==
    ASSUME NEW n \in Nat, NEW ops \in Seq(DiskOps(n)), NEW b, DocOk(b.doc),
           NEW l \in Nat, l = LengthOf(b.doc.ranges), n <= l
    PROVE  LET doc == Resets!Fold(0, b, ops).doc
           IN  DocOk(doc) /\ LengthOf(doc.ranges) = l + OpsLen(ops)
<1> DEFINE F(s) == Resets!Fold(0, b, s)
           G == {s \in Seq(DiskOps(n)) : DocOk(F(s).doc)
                                         /\ LengthOf(F(s).doc.ranges) = l + OpsLen(s)}
<1>1. << >> \in G
  <2>1. F(<< >>) = b
    BY Resets!FoldEmpty
  <2>2. OpsLen(<< >>) = 0
    BY OpsLenNext
  <2> QED BY <2>1, <2>2, EmptySeq
<1>2. ASSUME NEW s \in G, NEW op \in DiskOps(n) PROVE Append(s, op) \in G
  <2>1. /\ s \in Seq(DiskOps(n)) /\ Append(s, op) \in Seq(DiskOps(n))
        /\ DocOk(F(s).doc) /\ LengthOf(F(s).doc.ranges) = l + OpsLen(s)
    OBVIOUS
  <2>2. PICK x, d : x = F(s) /\ d = x.doc
    OBVIOUS
  <2>3. OpsLen(s) \in Nat /\ OpLen(op) \in Nat
    BY <2>1, OpsLenType, DiskOpsAre
  <2>4. DocOk(d) /\ LengthOf(d.ranges) = l + OpsLen(s) /\ n <= LengthOf(d.ranges)
    BY <2>1, <2>2, <2>3
  <2>5. PICK doc : doc = ConvertInternalOp(d, op).doc
    OBVIOUS
  <2>6. DocOk(doc) /\ LengthOf(doc.ranges) = LengthOf(d.ranges) + OpLen(op)
    BY <2>4, <2>5, DiskOpOk
  <2>7. F(Append(s, op)) = ResetStep(x, op)
    BY <2>1, <2>2, Resets!FoldAppend
  <2>8. ResetStep(x, op).doc = doc
    BY <2>2, <2>5 DEF ResetStep
  <2>9. OpsLen(Append(s, op)) = OpsLen(s) + OpLen(op)
    BY <2>1, OpsLenNext
  <2>10. LengthOf(doc.ranges) = l + OpsLen(Append(s, op))
    BY <2>3, <2>4, <2>6, <2>9
  <2> QED BY <2>1, <2>6, <2>7, <2>8, <2>10
<1>3. G \in SUBSET Seq(DiskOps(n))
  OBVIOUS
<1> HIDE DEF G
<1>4. ops \in G
  BY <1>1, <1>2, <1>3, Resets!SeqInduction
<1> QED BY <1>4 DEF G

-----------------------------------------------------------------------------
(* The inductive invariant *)

\* The document is sound, and within the bound of the model.
IInv == DocOk(Doc) /\ LengthOf(ranges) <= MaxLen

\* What every op leaves.
Sound(d) == DocOk(d) /\ LengthOf(d.ranges) <= MaxLen

LEMMA BecomesSound ==
    ASSUME NEW d, Sound(d), Becomes(d)
    PROVE  IInv'
<1>1. ranges' = d.ranges /\ cursors' = d.cursors /\ panicked' = d.panicked
  BY DEF Becomes
<1>2. Doc' = [ranges |-> d.ranges, cursors |-> d.cursors, panicked |-> d.panicked]
  BY <1>1 DEF Doc
<1>3. d = [ranges |-> d.ranges, cursors |-> d.cursors, panicked |-> FALSE]
  BY DEF Sound, DocOk
<1>4. d.panicked = FALSE
  BY <1>3
<1>5. Doc' = d
  BY <1>2, <1>3, <1>4
<1>6. DocOk(Doc') /\ LengthOf(ranges') <= MaxLen
  BY <1>1, <1>5 DEF Sound
<1>7. IInv' <=> (DocOk(Doc') /\ LengthOf(ranges') <= MaxLen)
  BY DEF IInv
<1> QED BY <1>6, <1>7

LEMMA InitSound == Init => IInv
<1>1. SUFFICES ASSUME Init PROVE IInv
  OBVIOUS
<1>2. InitLen \in Nat /\ InitLen <= MaxLen
  BY DocAssumption
<1>3. PICK rs, z : rs = ranges /\ z = 0
  OBVIOUS
<1>4. rs \in Seq(Rng) /\ Alternates(rs) /\ LengthOf(rs) <= MaxLen /\ Len(rs) \in Nat
  <2>1. CASE InitLen > 0
    <3>1. PICK r : r = RangeOf(TRUE, InitLen)
      OBVIOUS
    <3>2. r \in Rng /\ r.len = InitLen
      BY <1>2, <2>1, <3>1 DEF RangeOf, Rng
    <3>3. rs = <<r>>
      BY <1>1, <1>3, <2>1, <3>1 DEF Init
    <3>4. LengthOf(rs) = InitLen
      <4>1. PICK e : e = FALSE
        OBVIOUS
      <4>2. Extents(<<r>>, e) = Extent(r, e)
        BY <3>2, Singleton
      <4>3. Extent(r, FALSE) = r.len
        BY <3>2, ExtentIs
      <4> QED BY <3>2, <3>3, <4>1, <4>2, <4>3 DEF LengthOf
    <3>5. rs \in Seq(Rng) /\ Alternates(rs) /\ Len(rs) = 1
      BY <3>2, <3>3, Singleton
    <3> QED BY <1>2, <3>4, <3>5
  <2>2. CASE ~(InitLen > 0)
    <3>1. rs = << >>
      BY <1>1, <1>3, <2>2 DEF Init
    <3>2. LengthOf(rs) = 0
      BY <3>1, ExtentsEmpty DEF LengthOf
    <3>3. rs \in Seq(Rng) /\ Alternates(rs) /\ Len(rs) = 0
      BY <3>1 DEF Alternates
    <3> QED BY <3>2, <3>3, DocAssumption
  <2> QED BY <2>1, <2>2
<1>5. CursorAt(rs, z) \in CursorsOf(rs)
  BY <1>3, <1>4 DEF CursorsOf
<1>6. cursors = [s \in Sites |-> CursorAt(rs, z)] /\ panicked = FALSE
  BY <1>1, <1>3, NoCursor DEF Init, None
<1>7. cursors \in [Sites -> CursorsOf(rs)]
  BY <1>5, <1>6
<1>8. Doc = [ranges |-> rs, cursors |-> cursors, panicked |-> FALSE]
  BY <1>3, <1>6 DEF Doc
<1>9. Doc.ranges = rs /\ Doc.cursors = cursors
  BY <1>8
<1>10. DocOk(Doc)
  BY <1>4, <1>7, <1>8, <1>9 DEF DocOk
<1> QED BY <1>3, <1>4, <1>10 DEF IInv

\* The lengths of the two documents.
LEMMA Lengths ==
    ASSUME IInv
    PROVE  /\ DocOk(Doc) /\ Doc.ranges = ranges /\ ranges \in Seq(Rng)
           /\ InternalLen = LengthOf(ranges) /\ InternalLen \in Nat /\ InternalLen <= MaxLen
           /\ EditorLen = Extents(ranges, TRUE) /\ EditorLen \in Nat /\ EditorLen <= InternalLen
<1>1. DocOk(Doc) /\ Doc.ranges = ranges /\ LengthOf(ranges) <= MaxLen
  BY DEF IInv, Doc
<1>2. ranges \in Seq(Rng)
  BY <1>1 DEF DocOk
<1>3. InternalLen = LengthOf(ranges) /\ EditorLen = Extents(ranges, TRUE)
  BY DEF InternalLen, LengthOf, EditorLen
<1>4. PICK rs, e, f : rs = ranges /\ e = TRUE /\ f = FALSE
  OBVIOUS
<1>5. Extents(rs, e) \in Nat /\ Extents(rs, f) \in Nat
  BY <1>2, <1>4, ExtentsType
<1>6. Extents(rs, e) <= Extents(rs, f)
  <2>1. PICK i, j : i = 1 /\ j = Len(rs) + 1
    OBVIOUS
  <2>2. Len(rs) \in Nat
    BY <1>2, <1>4, LenProperties
  <2>3. i \in 1..(Len(rs) + 1) /\ j \in i..(Len(rs) + 1)
    BY <2>1, <2>2
  <2>4. Start(rs, j, e) - Start(rs, i, e) <= Start(rs, j, f) - Start(rs, i, f)
    BY <1>2, <1>4, <2>3, StartsGrow
  <2>5. /\ Start(rs, i, e) = 0 /\ Start(rs, j, e) = Extents(rs, e)
        /\ Start(rs, i, f) = 0 /\ Start(rs, j, f) = Extents(rs, f)
    BY <1>2, <1>4, <2>1, StartIs
  <2> QED BY <1>5, <2>4, <2>5
<1>7. EditorLen = Extents(rs, e) /\ InternalLen = Extents(rs, f)
  BY <1>3, <1>4 DEF LengthOf
<1> QED BY <1>1, <1>2, <1>3, <1>5, <1>6, <1>7

\* Text that is inserted fits.
LEMMA InsertableFits ==
    ASSUME IInv, NEW n \in Insertable
    PROVE  n \in Nat /\ n > 0 /\ InternalLen + n <= MaxLen
<1>1. MaxStr \in Int /\ MaxLen \in Int
  BY DocAssumption
<1>2. InternalLen \in Nat
  BY Lengths
<1>3. PICK room : room = MaxLen - InternalLen
  OBVIOUS
<1>4. room \in Int
  BY <1>1, <1>2, <1>3
<1>5. Min({MaxStr, room}) = IF MaxStr <= room THEN MaxStr ELSE room
  BY <1>1, <1>4, OfTwo
<1>6. n \in 1..Min({MaxStr, room})
  BY <1>3 DEF Insertable
<1> QED BY <1>1, <1>2, <1>3, <1>4, <1>5, <1>6

LEMMA NewTextLen ==
    ASSUME NEW site, NEW n \in Nat
    PROVE  Len(NewText(site, n)) = n
<1>1. \A k \in 1..n : <<site, k>> \in {<<site, j>> : j \in 1..n}
  OBVIOUS
<1>2. NewText(site, n) \in Seq({<<site, j>> : j \in 1..n})
  BY <1>1 DEF NewText
<1>3. DOMAIN NewText(site, n) = 1..n
  BY DEF NewText
<1> QED BY <1>2, <1>3

\* Segments of a mark that arrives lie within the document.
LEMMA SegListsFit ==
    ASSUME NEW n \in Nat, NEW segs \in SegLists(n)
    PROVE  segs \in Seq(Fitting(n))
<1>1. PICK m \in 1..MaxSegs : segs \in [1..m -> [pos : 0..(n - 1), len : 1..n]]
  BY DEF SegLists
<1>2. m \in Nat
  BY <1>1, DocAssumption
<1>3. PICK S : S = [pos : 0..(n - 1), len : 1..n]
  OBVIOUS
<1>4. segs \in Seq(S) /\ Len(segs) = m /\ DOMAIN segs = 1..m
  <2>1. segs \in [1..m -> S]
    BY <1>1, <1>3
  <2> QED BY <1>2, <2>1
<1>5. ASSUME NEW k \in 1..m PROVE segs[k] \in Fitting(n)
  <2>1. segs[k] \in [pos : 0..(n - 1), len : 1..n]
    BY <1>1
  <2>2. PICK s, a, b : s = segs[k] /\ a = s.pos /\ b = s.len
    OBVIOUS
  <2>3. a \in 0..(n - 1) /\ b \in 1..n
    BY <2>1, <2>2
  <2>4. a + b <= n
    <3>1. CASE k = Len(segs)
      <4>1. segs[k].pos + segs[k].len <= n
        BY <1>4, <3>1 DEF SegLists
      <4> QED BY <2>2, <4>1
    <3>2. CASE k # Len(segs)
      <4>1. segs[k].pos + segs[k].len < segs[k + 1].pos
        BY <1>4, <3>2 DEF SegLists
      <4>2. k + 1 \in 1..m
        BY <1>2, <1>4, <3>2
      <4>3. segs[k + 1].pos \in 0..(n - 1)
        BY <1>1, <4>2
      <4> QED BY <2>2, <2>3, <4>1, <4>3
    <3> QED BY <3>1, <3>2
  <2>5. s \in [pos : Nat, len : Nat \ {0}]
    BY <2>1, <2>2
  <2> QED BY <2>2, <2>4, <2>5 DEF Fitting
<1> QED BY <1>2, <1>4, <1>5

\* The difference with the file becomes ops within the document.
LEMMA ResetSound ==
    ASSUME IInv, NEW diff \in Diffs
    PROVE  Sound(Reset(diff).doc)
<1>1. PICK n \in 1..MaxChunks : diff \in [1..n -> Chunks]
  BY DEF Diffs
<1>2. n \in Nat
  BY <1>1, ResetAssumption
<1>3. diff \in Seq(Chunks)
  BY <1>1, <1>2
<1>4. Taken(diff) = EditorLen /\ InternalLen + Added(diff) <= MaxLen
  BY DEF Diffs
<1>5. PICK l, m, ops, b : /\ l = InternalLen /\ m = Taken(diff) /\ ops = ChunksToOps(diff)
                          /\ b = [doc |-> Doc, buffer |-> Buffer(Cells(ranges))]
  OBVIOUS
<1>6. m \in Nat /\ ops \in Seq(DiskOps(m)) /\ OpsLen(ops) = Added(diff)
  BY <1>3, <1>5, ChunkOpsOk
<1>7. b.doc = Doc
  BY <1>5
<1>8. DocOk(b.doc) /\ l \in Nat /\ l = LengthOf(b.doc.ranges) /\ m <= l
  BY <1>4, <1>5, <1>7, Lengths
<1>9. PICK doc : doc = Resets!Fold(0, b, ops).doc
  OBVIOUS
<1>10. DocOk(doc) /\ LengthOf(doc.ranges) = l + OpsLen(ops)
  BY <1>6, <1>8, <1>9, ResetsOk
<1>11. Reset(diff).doc = doc
  BY <1>5, <1>9, ResetIs
<1> QED BY <1>4, <1>5, <1>6, <1>10, <1>11 DEF Sound

LEMMA InternalOpSound ==
    ASSUME IInv, NEW site \in Sites, NEW op \in InternalOps(site)
    PROVE  Sound(ConvertInternalOp(Doc, op).doc)
<1>1. PICK d, l, doc : d = Doc /\ l = InternalLen /\ doc = ConvertInternalOp(d, op).doc
  OBVIOUS
<1>2. DocOk(d) /\ l \in Nat /\ l = LengthOf(d.ranges) /\ l <= MaxLen
  BY <1>1, Lengths
<1>3. CASE \E p \in 0..InternalLen, n \in Insertable : op = Ins(p, NewText(site, n), site)
  <2>1. PICK p \in 0..InternalLen, n \in Insertable : op = Ins(p, NewText(site, n), site)
    BY <1>3
  <2>2. n \in Nat /\ n > 0 /\ l + n <= MaxLen
    BY <1>1, InsertableFits
  <2>3. p \in Nat /\ p <= LengthOf(d.ranges)
    BY <1>1, <1>2
  <2>4. op.type = "Ins" /\ op.site = site /\ op.pos = p /\ op.str = NewText(site, n)
    BY <2>1 DEF Ins
  <2>5. Len(op.str) = n
    BY <2>2, <2>4, NewTextLen
  <2>6. DocOk(doc) /\ LengthOf(doc.ranges) = LengthOf(d.ranges) + n
    BY <1>1, <1>2, <2>2, <2>3, <2>4, <2>5, InternalInsOk
  <2> QED BY <1>1, <1>2, <2>2, <2>6 DEF Sound
<1>4. CASE \E segs \in SegLists(InternalLen), live \in BOOLEAN : op = Mark(segs, live, site)
  <2>1. PICK segs \in SegLists(InternalLen), live \in BOOLEAN : op = Mark(segs, live, site)
    BY <1>4
  <2>2. op.type = "Mark" /\ op.live \in BOOLEAN /\ op.site = site /\ op.segs = segs
    BY <2>1 DEF Mark
  <2>3. op.segs \in Seq(Fitting(l))
    BY <1>1, <1>2, <2>1, <2>2, SegListsFit
  <2>4. DocOk(doc) /\ LengthOf(doc.ranges) = l
    BY <1>1, <1>2, <2>2, <2>3, InternalMarkOk
  <2> QED BY <1>1, <1>2, <2>4 DEF Sound
<1> QED BY <1>3, <1>4 DEF InternalOps

LEMMA EditorInsSound ==
    ASSUME IInv, NEW site \in Sites, NEW p \in 0..EditorLen, NEW n \in Insertable
    PROVE  Sound(ConvertEditorIns(Doc, p, NewText(site, n), site).doc)
<1>1. PICK d, str, doc : /\ d = Doc /\ str = NewText(site, n)
                         /\ doc = ConvertEditorIns(d, p, str, site).doc
  OBVIOUS
<1>2. DocOk(d) /\ InternalLen = LengthOf(d.ranges) /\ InternalLen \in Nat
  BY <1>1, Lengths
<1>3. n \in Nat /\ n > 0 /\ InternalLen + n <= MaxLen
  BY InsertableFits
<1>4. Len(str) = n
  BY <1>1, <1>3, NewTextLen
<1>5. p \in Nat /\ p <= Extents(d.ranges, TRUE)
  <2>1. PICK m : m = EditorLen
    OBVIOUS
  <2>2. m \in Nat
    BY <2>1, Lengths
  <2>3. p \in 0..m
    BY <2>1
  <2>4. p \in Nat /\ p <= m
    BY <2>2, <2>3
  <2>5. m = Extents(d.ranges, TRUE)
    BY <1>1, <2>1, Lengths
  <2> QED BY <2>4, <2>5
<1>6. DocOk(doc) /\ LengthOf(doc.ranges) = LengthOf(d.ranges) + n
  <2>1. DocOk(d) /\ n \in Nat /\ n > 0
    BY <1>2, <1>3
  <2>2. doc = ConvertEditorIns(d, p, str, site).doc
    BY <1>1
  <2>3. Lengthened(d, doc, n)
    BY <1>4, <1>5, <2>1, <2>2, EditorInsOk
  <2> QED BY <2>3 DEF Lengthened
<1> QED BY <1>1, <1>2, <1>3, <1>6 DEF Sound

LEMMA EditorDelSound ==
    ASSUME IInv, NEW site \in Sites, NEW p \in 0..(EditorLen - 1), NEW n \in 1..(EditorLen - p)
    PROVE  Sound(ConvertEditorDel(Doc, p, n, site).doc)
<1>1. PICK d, doc : d = Doc /\ doc = ConvertEditorDel(d, p, n, site).doc
  OBVIOUS
<1>2. /\ DocOk(d) /\ EditorLen = Extents(d.ranges, TRUE) /\ EditorLen \in Nat
      /\ LengthOf(d.ranges) <= MaxLen
  BY <1>1, Lengths
<1>3. p \in Nat /\ n \in Nat /\ n > 0 /\ p + n <= EditorLen
  <2>1. PICK m : m = EditorLen
    OBVIOUS
  <2>2. m \in Nat /\ p \in 0..(m - 1) /\ n \in 1..(m - p)
    BY <1>2, <2>1
  <2>3. p \in Nat /\ n \in Nat /\ n > 0 /\ p + n <= m
    BY <2>2
  <2> QED BY <2>1, <2>3
<1>4. DocOk(doc) /\ LengthOf(doc.ranges) = LengthOf(d.ranges)
  BY <1>1, <1>2, <1>3, EditorDelOk
<1> QED BY <1>1, <1>2, <1>4 DEF Sound

\* The invariant is inductive.
LEMMA StepSound == IInv /\ [ResetNext]_vars => IInv'
<1>1. SUFFICES ASSUME IInv, [ResetNext]_vars PROVE IInv'
  OBVIOUS
<1>2. ASSUME NEW s \in Sites, ApplyInternalOp(s) PROVE IInv'
  <2>1. PICK op \in InternalOps(s) : Becomes(ConvertInternalOp(Doc, op).doc)
    BY <1>2 DEF ApplyInternalOp
  <2> QED BY <1>1, <2>1, InternalOpSound, BecomesSound
<1>3. ASSUME NEW s \in EditorSites, ApplyEditorIns(s) PROVE IInv'
  <2>1. PICK p \in 0..EditorLen, n \in Insertable :
            Becomes(ConvertEditorIns(Doc, p, NewText(s, n), s).doc)
    BY <1>3 DEF ApplyEditorIns
  <2>2. s \in Sites
    BY DocAssumption
  <2> QED BY <1>1, <2>1, <2>2, EditorInsSound, BecomesSound
<1>4. ASSUME NEW s \in EditorSites, ApplyEditorDel(s) PROVE IInv'
  <2>1. PICK p \in 0..(EditorLen - 1) : \E n \in 1..(EditorLen - p) :
            Becomes(ConvertEditorDel(Doc, p, n, s).doc)
    BY <1>4 DEF ApplyEditorDel
  <2>2. PICK n \in 1..(EditorLen - p) : Becomes(ConvertEditorDel(Doc, p, n, s).doc)
    BY <2>1
  <2>3. s \in Sites
    BY DocAssumption
  <2> QED BY <1>1, <2>1, <2>2, <2>3, EditorDelSound, BecomesSound
<1>5. CASE ResetDocFromDisk
  <2>1. PICK diff \in Diffs : Becomes(Reset(diff).doc)
    BY <1>5 DEF ResetDocFromDisk
  <2> QED BY <1>1, <2>1, ResetSound, BecomesSound
<1>6. CASE UNCHANGED vars
  <2>1. ranges' = ranges /\ Doc' = Doc
    BY <1>6 DEF vars, Doc
  <2> QED BY <1>1, <2>1 DEF IInv
<1> QED BY <1>1, <1>2, <1>3, <1>4, <1>5, <1>6 DEF ResetNext, Next

\* What the invariant says of the properties.
LEMMA IInvImplies == IInv => TypeOK /\ Coalesced /\ CursorsExact /\ NoPanic
<1>1. SUFFICES ASSUME IInv PROVE TypeOK /\ Coalesced /\ CursorsExact /\ NoPanic
  OBVIOUS
<1>2. PICK rs, l : rs = ranges /\ l = Len(ranges)
  OBVIOUS
<1>3. rs \in Seq(Rng) /\ l \in Nat /\ l = Len(rs) /\ LengthOf(rs) <= MaxLen /\ LengthOf(rs) \in Nat
  BY <1>1, <1>2, Lengths, LenProperties
<1>4. DocOk(Doc) /\ Doc = [ranges |-> ranges, cursors |-> cursors, panicked |-> panicked]
  BY <1>1, Lengths DEF Doc
<1>5. NoPanic /\ panicked = FALSE /\ Alternates(rs) /\ cursors \in [Sites -> CursorsOf(rs)]
  BY <1>2, <1>4 DEF DocOk, NoPanic
<1>6. ASSUME NEW i \in 1..(l + 1)
      PROVE  Start(rs, i, TRUE) \in 0..MaxLen /\ Start(rs, i, FALSE) \in 0..MaxLen
  <2>1. PICK e, f, o : e = TRUE /\ f = FALSE /\ o = 1
    OBVIOUS
  <2>2. o \in 1..(Len(rs) + 1) /\ i \in o..(Len(rs) + 1) /\ i \in 1..(Len(rs) + 1)
        /\ Len(rs) + 1 \in i..(Len(rs) + 1)
    BY <1>3, <2>1
  <2>3. Start(rs, i, e) \in Nat /\ Start(rs, i, f) \in Nat /\ Start(rs, o, e) = 0 /\ Start(rs, o, f) = 0
    BY <1>3, <2>1, <2>2, StartIs
  <2>4. Start(rs, i, e) - Start(rs, o, e) <= Start(rs, i, f) - Start(rs, o, f)
    BY <1>3, <2>1, <2>2, StartsGrow
  <2>5. PICK k : k = Len(rs) + 1
    OBVIOUS
  <2>6. k \in i..(Len(rs) + 1) /\ k - i >= 0
    BY <1>3, <2>2, <2>5
  <2>7. Start(rs, i, FALSE) + (k - i) <= Start(rs, k, FALSE)
    BY <1>3, <2>2, <2>6, StartsGrow
  <2>8. Start(rs, k, f) = LengthOf(rs)
    BY <1>3, <2>1, <2>5, StartIs DEF LengthOf
  <2>9. Start(rs, i, f) + (k - i) <= LengthOf(rs)
    BY <2>1, <2>7, <2>8
  <2>10. k - i \in Nat
    BY <1>3, <2>5, <2>6
  <2>11. Start(rs, i, e) \in 0..MaxLen /\ Start(rs, i, f) \in 0..MaxLen
    BY <1>3, <2>3, <2>4, <2>9, <2>10, DocAssumption
  <2> QED BY <2>1, <2>11
<1>7. ASSUME NEW i \in 1..l PROVE rs[i] \in [live : BOOLEAN, len : 1..MaxLen]
  <2>1. PICK e, f, r : e = TRUE /\ f = FALSE /\ r = rs[i]
    OBVIOUS
  <2>2. r \in Rng /\ i \in 1..(l + 1) /\ i + 1 \in 1..(l + 1)
    BY <1>3, <2>1
  <2>3. Start(rs, i, f) \in 0..MaxLen /\ Start(rs, i + 1, f) \in 0..MaxLen
    BY <1>6, <2>1, <2>2
  <2>4. Start(rs, i + 1, f) = Start(rs, i, f) + Extent(r, f)
    BY <1>3, <2>1, StartIs
  <2>5. Extent(r, f) = r.len /\ r.len \in Nat /\ r.len > 0
    BY <2>1, <2>2, ExtentIs
  <2>6. r.len \in 1..MaxLen
    BY <2>3, <2>4, <2>5, DocAssumption
  <2>7. r \in [live : BOOLEAN, len : 1..MaxLen]
    BY <2>2, <2>6 DEF Rng
  <2> QED BY <2>1, <2>7
<1>8. ASSUME NEW s \in Sites
      PROVE  /\ cursors[s] \in [editor : 0..MaxLen, internal : 0..MaxLen, idx : 0..l]
             /\ cursors[s].idx # None =>
                  cursors[s] = Cursor(Start(rs, cursors[s].idx, TRUE),
                                      Start(rs, cursors[s].idx, FALSE), cursors[s].idx)
  <2>1. PICK c : c = cursors[s]
    OBVIOUS
  <2>2. PICK i \in 0..l : c = CursorAt(rs, i)
    BY <1>3, <1>5, <2>1 DEF CursorsOf
  <2>3. CASE i = 0
    <3>1. c = Cursor(0, 0, 0) /\ c.idx = 0
      BY <2>2, <2>3, NoCursor
    <3>2. c \in [editor : 0..MaxLen, internal : 0..MaxLen, idx : 0..l]
      BY <1>3, <3>1, DocAssumption DEF Cursor
    <3> QED BY <2>1, <3>1, <3>2 DEF None
  <2>4. CASE i # 0
    <3>1. i \in Nat /\ i \in 1..(l + 1)
      BY <1>3, <2>4
    <3>2. c = Cursor(Start(rs, i, TRUE), Start(rs, i, FALSE), i) /\ c.idx = i
      BY <2>2, <2>4, <3>1, CursorAtIs
    <3>3. Start(rs, i, TRUE) \in 0..MaxLen /\ Start(rs, i, FALSE) \in 0..MaxLen
      BY <1>6, <3>1
    <3>4. c \in [editor : 0..MaxLen, internal : 0..MaxLen, idx : 0..l]
      BY <3>2, <3>3 DEF Cursor
    <3> QED BY <2>1, <3>2, <3>4
  <2> QED BY <2>3, <2>4
<1>9. TypeOK
  <2>1. rs \in Seq([live : BOOLEAN, len : 1..MaxLen])
    <3>1. PICK S : S = [live : BOOLEAN, len : 1..MaxLen]
      OBVIOUS
    <3>2. \A i \in 1..Len(rs) : rs[i] \in S
      BY <1>3, <1>7, <3>1
    <3>3. rs \in Seq(S)
      BY <1>3, <3>2
    <3> QED BY <3>1, <3>3
  <2>2. cursors \in [Sites -> [editor : 0..MaxLen, internal : 0..MaxLen, idx : 0..l]]
    BY <1>5, <1>8
  <2>3. panicked \in BOOLEAN
    BY <1>5
  <2> QED BY <1>2, <2>1, <2>2, <2>3 DEF TypeOK
<1>10. Coalesced
  BY <1>2, <1>5 DEF Alternates, Coalesced
<1>11. CursorsExact
  BY <1>2, <1>8 DEF CursorsExact
<1> QED BY <1>5, <1>9, <1>10, <1>11

-----------------------------------------------------------------------------
(* The theorems *)

LEMMA IInvHolds == ResetSpec => []IInv
<1>1. Init => IInv
  BY InitSound
<1>2. IInv /\ [ResetNext]_vars => IInv'
  BY StepSound
<1> QED BY <1>1, <1>2, PTL DEF ResetSpec

\* Positions, range indices and liveness keep the shape the conversions of
\* InternalDoc assume, whatever ops and differences with the file arrive.
THEOREM DocTypeCorrect == ResetSpec => []TypeOK
BY IInvHolds, IInvImplies, PTL

\* apply_ins, apply_mark_dead and apply_mark_live never leave two ranges of
\* the same liveness next to each other, which the next insertion asserts.
THEOREM RangesStayCoalesced == ResetSpec => []Coalesced
BY IInvHolds, IInvImplies, PTL

\* However the ops of all sites split, join and shift the ranges below the
\* cached cursors (shift_cursors_right and the loops of apply_mark_dead and
\* apply_mark_live), check_cursor_positions finds every one of them exact.
THEOREM CursorsStayExact == ResetSpec => []CursorsExact
BY IInvHolds, IInvImplies, PTL

\* No assertion of apply_ins, apply_mark_dead and apply_mark_live fails, and
\* no index is out of bounds, for any op that lies within the document.
THEOREM DocNeverPanics == ResetSpec => []NoPanic
BY IInvHolds, IInvImplies, PTL

=============================================================================
