---------------------------- MODULE TextOpProofs ----------------------------
(***************************************************************************)
(* What the operators of TextOp compute, for every document, every op and  *)
(* any number of sites: the types the transformation functions keep, the   *)
(* positions a transformed mark covers, and that two concurrent ops give   *)
(* the same document in either order.  The theorems behind the run on      *)
(* small documents come last.                                              *)
(***************************************************************************)
EXTENDS MCTextOp, SequenceTheorems, TLAPS

ApplyFold == INSTANCE FoldLemmas WITH Op <- LAMBDA p, x, y : ApplyOp(x, y)

-----------------------------------------------------------------------------
(* FlattenSeq: the value of a recursive function *)

Flattens(ss, n, h) ==
    h = [i \in 1..n |-> IF i = 1 THEN ss[i] ELSE h[i - 1] \o ss[i]]

LEMMA FlattensFirst ==
    ASSUME NEW ss, NEW n \in Nat, NEW h, Flattens(ss, n, h), n # 0
    PROVE  h[1] = ss[1]
BY DEF Flattens

LEMMA FlattensStep ==
    ASSUME NEW ss, NEW n \in Nat, NEW h, Flattens(ss, n, h),
           NEW j \in 1..n, j # 1
    PROVE  h[j] = h[j - 1] \o ss[j]
BY DEF Flattens

LEMMA FlattensExist ==
    ASSUME NEW ss, NEW n \in Nat
    PROVE  \E h : Flattens(ss, n, h)
<1> DEFINE G == {k \in Nat : \E h : Flattens(ss, k, h)}
<1>1. 0 \in G
  <2> DEFINE h == [i \in 1..0 |-> << >>]
  <2>1. Flattens(ss, 0, h)
    BY DEF Flattens
  <2> QED BY <2>1
<1>2. ASSUME NEW k \in G PROVE k + 1 \in G
  <2>1. k \in Nat
    OBVIOUS
  <2>2. PICK g : Flattens(ss, k, g)
    OBVIOUS
  <2> DEFINE h == [i \in 1..(k + 1) |->
                     IF i \in 1..k THEN g[i]
                     ELSE IF i = 1 THEN ss[i] ELSE g[i - 1] \o ss[i]]
  <2>3. ASSUME NEW i \in 1..(k + 1)
        PROVE  h[i] = IF i = 1 THEN ss[i] ELSE h[i - 1] \o ss[i]
    <3>1. CASE i \in 1..k
      <4>1. h[i] = g[i]
        BY <3>1
      <4>2. g[i] = IF i = 1 THEN ss[i] ELSE g[i - 1] \o ss[i]
        BY <2>2, <3>1 DEF Flattens
      <4>3. ASSUME i # 1 PROVE h[i - 1] = g[i - 1]
        <5>1. i - 1 \in 1..k /\ i - 1 \in 1..(k + 1)
          BY <2>1, <3>1, <4>3
        <5> QED BY <5>1
      <4> QED BY <4>1, <4>2, <4>3
    <3>2. CASE i \notin 1..k
      <4>1. i = k + 1
        BY <2>1, <3>2
      <4>2. h[i] = IF i = 1 THEN ss[i] ELSE g[i - 1] \o ss[i]
        BY <3>2
      <4>3. ASSUME i # 1 PROVE h[i - 1] = g[i - 1]
        <5>1. i - 1 \in 1..k /\ i - 1 \in 1..(k + 1)
          BY <2>1, <4>1, <4>3
        <5> QED BY <5>1
      <4> QED BY <4>2, <4>3
    <3> QED BY <3>1, <3>2
  <2>4. Flattens(ss, k + 1, h)
    <3>1. h = [i \in 1..(k + 1) |-> h[i]]
      OBVIOUS
    <3> HIDE DEF h
    <3> QED BY <2>3, <3>1 DEF Flattens
  <2> HIDE DEF h
  <2> QED BY <2>1, <2>4
<1>3. G \in SUBSET Nat
  OBVIOUS
<1> HIDE DEF G
<1>4. n \in G
  BY <1>1, <1>2, <1>3, ApplyFold!Induction
<1> QED BY <1>4 DEF G

\* Its values depend on that part of the sequence only.
Agree(s1, s2, n) == \A i \in 1..n : s1[i] = s2[i]

LEMMA FlattensPrefix ==
    ASSUME NEW s1, NEW s2, NEW n1 \in Nat, NEW n2 \in Nat, NEW h1, NEW h2,
           Flattens(s1, n1, h1), Flattens(s2, n2, h2), n1 <= n2, Agree(s1, s2, n1),
           n1 # 0
    PROVE  h1[n1] = h2[n1]
<1> DEFINE G == {j \in Nat : j + 1 <= n1 => h1[j + 1] = h2[j + 1]}
<1>1. 0 \in G
  <2>1. n2 # 0 /\ 1 \in 1..n1
    OBVIOUS
  <2>2. h1[1] = s1[1]
    BY FlattensFirst
  <2>3. h2[1] = s2[1]
    BY <2>1, FlattensFirst
  <2> QED BY <2>1, <2>2, <2>3 DEF Agree
<1>2. ASSUME NEW j \in G PROVE j + 1 \in G
  <2>1. PICK i : i = j + 1
    OBVIOUS
  <2>2. j \in Nat /\ i \in Nat /\ i # 0
    BY <2>1
  <2>3. PICK m : m = i + 1
    OBVIOUS
  <2>4. SUFFICES ASSUME m <= n1 PROVE h1[m] = h2[m]
    BY <2>1, <2>2, <2>3
  <2>5. h1[i] = h2[i]
    BY <2>1, <2>2, <2>3, <2>4
  <2>6. m \in 1..n1 /\ m \in 1..n2 /\ m # 1 /\ m - 1 = i
    BY <2>2, <2>3, <2>4
  <2> HIDE <2>3
  <2>7. h1[m] = h1[m - 1] \o s1[m]
    BY <2>6, FlattensStep
  <2>8. h2[m] = h2[m - 1] \o s2[m]
    BY <2>6, FlattensStep
  <2>9. s1[m] = s2[m]
    BY <2>6 DEF Agree
  <2> QED BY <2>5, <2>6, <2>7, <2>8, <2>9
<1>3. G \in SUBSET Nat
  OBVIOUS
<1> HIDE DEF G
<1>4. n1 - 1 \in G
  BY <1>1, <1>2, <1>3, ApplyFold!Induction
<1> QED BY <1>4 DEF G

LEMMA FlattenIs ==
    ASSUME NEW ss, NEW n \in Nat, Len(ss) = n, n # 0
    PROVE  \E h : Flattens(ss, n, h) /\ FlattenSeq(ss) = h[n]
<1> DEFINE H == CHOOSE h : Flattens(ss, n, h)
<1>1. Flattens(ss, n, H)
  BY FlattensExist
<1>2. FlattenSeq(ss) = H[n]
  BY DEF FlattenSeq, Flattens
<1> QED BY <1>1, <1>2

\* Flattening nothing, and one sequence more.
LEMMA FlattenEmpty == FlattenSeq(<< >>) = << >>
BY DEF FlattenSeq

LEMMA FlattenAppend ==
    ASSUME NEW T, NEW ss \in Seq(Seq(T)), NEW s \in Seq(T)
    PROVE  FlattenSeq(Append(ss, s)) = FlattenSeq(ss) \o s
<1>1. PICK n : n = Len(ss)
  OBVIOUS
<1>2. PICK t : t = Append(ss, s)
  OBVIOUS
<1>3. PICK m : m = n + 1
  OBVIOUS
<1>4. /\ n \in Nat /\ m \in Nat /\ m # 0 /\ n <= m /\ Len(t) = m
      /\ t[m] = s /\ \A i \in 1..n : ss[i] = t[i]
  BY <1>1, <1>2, <1>3
<1>5. PICK h : Flattens(t, m, h) /\ FlattenSeq(t) = h[m]
  BY <1>4, FlattenIs
<1>6. CASE n = 0
  <2>1. ss = << >>
    BY <1>1, <1>6, EmptySeq
  <2>2. h[1] = t[1]
    BY <1>4, <1>5, FlattensFirst
  <2>3. << >> \o s = s /\ m = 1
    BY <1>3, <1>6
  <2> QED BY <1>2, <1>4, <1>5, <2>1, <2>2, <2>3, FlattenEmpty
<1>7. CASE n # 0
  <2>1. PICK g : Flattens(ss, n, g) /\ FlattenSeq(ss) = g[n]
    BY <1>1, <1>4, <1>7, FlattenIs
  <2>2. Agree(ss, t, n)
    BY <1>4 DEF Agree
  <2>3. g[n] = h[n]
    BY <1>4, <1>5, <1>7, <2>1, <2>2, FlattensPrefix
  <2>4. m \in 1..m /\ m # 1 /\ m - 1 = n
    <3>1. n \in Nat /\ n # 0 /\ m = n + 1
      BY <1>3, <1>4, <1>7
    <3> QED BY <3>1
  <2>5. h[m] = h[n] \o t[m]
    <3>1. m \in Nat /\ Flattens(t, m, h)
      BY <1>4, <1>5
    <3>2. h[m] = h[m - 1] \o t[m]
      BY <2>4, <3>1, FlattensStep
    <3> QED BY <2>4, <3>2
  <2> QED BY <1>2, <1>4, <1>5, <2>1, <2>3, <2>5
<1> QED BY <1>6, <1>7

\* Flattening one sequence.
LEMMA FlattenOne ==
    ASSUME NEW T, NEW s \in Seq(T)
    PROVE  FlattenSeq(<<s>>) = s
<1>1. << >> \in Seq(Seq(T)) /\ Append(<< >>, s) = <<s>> /\ << >> \o s = s
  OBVIOUS
<1>2. FlattenSeq(Append(<< >>, s)) = FlattenSeq(<< >>) \o s
  BY <1>1, FlattenAppend
<1> QED BY <1>1, <1>2, FlattenEmpty

\* What a sequence contains.
Elems(s) == {s[i] : i \in DOMAIN s}

LEMMA ElemsConcat ==
    ASSUME NEW T, NEW s \in Seq(T), NEW r \in Seq(T)
    PROVE  Elems(s \o r) = Elems(s) \cup Elems(r)
<1>1. PICK t : t = s \o r
  OBVIOUS
<1>2. /\ DOMAIN t = 1..(Len(s) + Len(r)) /\ DOMAIN s = 1..Len(s) /\ DOMAIN r = 1..Len(r)
      /\ Len(s) \in Nat /\ Len(r) \in Nat
      /\ \A i \in 1..(Len(s) + Len(r)) : t[i] = IF i <= Len(s) THEN s[i] ELSE r[i - Len(s)]
  BY <1>1, ConcatProperties
<1>3. ASSUME NEW i \in DOMAIN t PROVE t[i] \in Elems(s) \cup Elems(r)
  <2>1. CASE i <= Len(s)
    BY <1>2, <2>1 DEF Elems
  <2>2. CASE ~(i <= Len(s))
    <3>1. i - Len(s) \in DOMAIN r /\ t[i] = r[i - Len(s)]
      BY <1>2, <2>2
    <3> QED BY <3>1 DEF Elems
  <2> QED BY <2>1, <2>2
<1>4. ASSUME NEW i \in DOMAIN s PROVE s[i] \in Elems(t)
  <2>1. i \in DOMAIN t /\ t[i] = s[i]
    BY <1>2
  <2> QED BY <2>1 DEF Elems
<1>5. ASSUME NEW i \in DOMAIN r PROVE r[i] \in Elems(t)
  <2>1. PICK j : j = Len(s) + i
    OBVIOUS
  <2>2. j \in DOMAIN t /\ j - Len(s) = i /\ ~(j <= Len(s))
    BY <1>2, <2>1
  <2>3. t[j] = r[i]
    BY <1>2, <2>2
  <2> QED BY <2>2, <2>3 DEF Elems
<1>6. Elems(t) = Elems(s) \cup Elems(r)
  BY <1>3, <1>4, <1>5 DEF Elems
<1> QED BY <1>1, <1>6

LEMMA ElemsAppend ==
    ASSUME NEW T, NEW s \in Seq(T), NEW e \in T
    PROVE  Elems(Append(s, e)) = Elems(s) \cup {e}
<1>1. Append(s, e) = s \o <<e>>
  BY AppendIsConcat
<1>2. <<e>> \in Seq(T) /\ Elems(<<e>>) = {e}
  BY DEF Elems
<1>3. Elems(s \o <<e>>) = Elems(s) \cup Elems(<<e>>)
  <2>1. PICK r : r = <<e>>
    OBVIOUS
  <2>2. r \in Seq(T)
    BY <1>2, <2>1
  <2>3. Elems(s \o r) = Elems(s) \cup Elems(r)
    BY <2>2, ElemsConcat
  <2> QED BY <2>1, <2>3
<1> QED BY <1>1, <1>2, <1>3

\* Flattening keeps the elements and invents none.
LEMMA FlattenElems ==
    ASSUME NEW T, NEW ss \in Seq(Seq(T))
    PROVE  /\ FlattenSeq(ss) \in Seq(T)
           /\ Elems(FlattenSeq(ss)) = UNION {Elems(s) : s \in Elems(ss)}
<1> DEFINE G == {r \in Seq(Seq(T)) :
                    /\ FlattenSeq(r) \in Seq(T)
                    /\ Elems(FlattenSeq(r)) = UNION {Elems(s) : s \in Elems(r)}}
<1>1. << >> \in G
  <2>1. << >> \in Seq(T) /\ << >> \in Seq(Seq(T)) /\ Elems(<< >>) = {}
    BY DEF Elems
  <2> QED BY <2>1, FlattenEmpty
<1>2. ASSUME NEW r \in G, NEW e \in Seq(T) PROVE Append(r, e) \in G
  <2>1. r \in Seq(Seq(T)) /\ FlattenSeq(r) \in Seq(T)
    OBVIOUS
  <2>2. Elems(FlattenSeq(r)) = UNION {Elems(s) : s \in Elems(r)}
    OBVIOUS
  <2>3. FlattenSeq(Append(r, e)) = FlattenSeq(r) \o e
    BY <2>1, FlattenAppend
  <2>4. FlattenSeq(r) \o e \in Seq(T) /\ Append(r, e) \in Seq(Seq(T))
    BY <2>1, ConcatProperties
  <2>5. Elems(FlattenSeq(r) \o e) = Elems(FlattenSeq(r)) \cup Elems(e)
    BY <2>1, ElemsConcat
  <2>6. Elems(Append(r, e)) = Elems(r) \cup {e}
    BY <2>1, ElemsAppend
  <2>7. UNION {Elems(s) : s \in Elems(Append(r, e))}
           = (UNION {Elems(s) : s \in Elems(r)}) \cup Elems(e)
    BY <2>6
  <2>8. Elems(FlattenSeq(Append(r, e))) = UNION {Elems(s) : s \in Elems(Append(r, e))}
    BY <2>2, <2>3, <2>5, <2>7
  <2> QED BY <2>3, <2>4, <2>8
<1>3. G \in SUBSET Seq(Seq(T))
  OBVIOUS
<1> HIDE DEF G
<1>4. ss \in G
  BY <1>1, <1>2, <1>3, ApplyFold!SeqInduction
<1> QED BY <1>4 DEF G

-----------------------------------------------------------------------------
(* Types, and what a transformation does to the positions of a mark *)

\* Segments are not empty, and neither are insertions.
Segs == [pos : Nat, len : Nat \ {0}]

\* Ops with characters of C made by the sites S.
InsOps(C, S) == [type : {"Ins"}, pos : Nat, str : Seq(C) \ {<< >>}, site : S]
MarkOps(S) == [type : {"Mark"}, segs : Seq(Segs), live : BOOLEAN, site : S]
Ops(C, S) == InsOps(C, S) \cup MarkOps(S)

\* Sites are numbers.
AreSites(S) == S \subseteq Int

\* The positions of one segment and of a sequence of them.
Covered(seg) == seg.pos .. (seg.pos + seg.len - 1)
AllCovered(segs) == UNION {Covered(g) : g \in Elems(segs)}

\* Where the insertion of n characters at p takes a position.
Shift(q, p, n) == IF q < p THEN q ELSE q + n
Shifted(P, p, n) == {Shift(q, p, n) : q \in P}

LEMMA PositionsCovered ==
    ASSUME NEW op
    PROVE  Positions(op) = AllCovered(op.segs)
BY DEF Positions, AllCovered, Covered, Elems

LEMMA CoveredNat ==
    ASSUME NEW segs \in Seq(Segs)
    PROVE  AllCovered(segs) \subseteq Nat
<1>1. ASSUME NEW g \in Elems(segs) PROVE Covered(g) \subseteq Nat
  <2>1. g \in Segs
    BY DEF Elems
  <2> QED BY <2>1 DEF Covered, Segs
<1> QED BY <1>1 DEF AllCovered

\* A sequence of one or of no segment.
LEMMA SplitPartIs ==
    ASSUME NEW p \in Nat, NEW l \in Nat
    PROVE  /\ SplitPart(p, l) \in Seq(Segs)
           /\ AllCovered(SplitPart(p, l)) = p .. (p + l - 1)
<1>1. CASE l > 0
  <2>1. PICK g : g = Seg(p, l)
    OBVIOUS
  <2>2. g \in Segs /\ g.pos = p /\ g.len = l
    BY <1>1, <2>1 DEF Seg, Segs
  <2>3. SplitPart(p, l) = <<g>>
    BY <1>1, <2>1 DEF SplitPart
  <2>4. Elems(<<g>>) = {g}
    BY DEF Elems
  <2>5. <<g>> \in Seq(Segs)
    BY <2>2
  <2>6. AllCovered(<<g>>) = p .. (p + l - 1)
    BY <2>2, <2>4 DEF AllCovered, Covered
  <2> QED BY <2>3, <2>5, <2>6
<1>2. CASE l = 0
  <2>1. SplitPart(p, l) = << >>
    BY <1>2 DEF SplitPart
  <2>2. << >> \in Seq(Segs) /\ Elems(<< >>) = {}
    BY DEF Elems
  <2>3. AllCovered(<< >>) = {}
    BY <2>2 DEF AllCovered
  <2>4. p .. (p + l - 1) = {}
    BY <1>2
  <2> QED BY <2>1, <2>2, <2>3, <2>4
<1> QED BY <1>1, <1>2

LEMMA AllCoveredConcat ==
    ASSUME NEW s \in Seq(Segs), NEW r \in Seq(Segs)
    PROVE  AllCovered(s \o r) = AllCovered(s) \cup AllCovered(r)
<1>1. Elems(s \o r) = Elems(s) \cup Elems(r)
  BY ElemsConcat
<1> QED BY <1>1 DEF AllCovered

\* transform_di for one segment: it covers what it covered, moved by the
\* insertion.
LEMMA TransformDIShifts ==
    ASSUME NEW C, NEW S, AreSites(S), NEW seg \in Segs, NEW site \in S,
           NEW base \in InsOps(C, S)
    PROVE  /\ TransformDI(seg, site, base) \in Seq(Segs)
           /\ AllCovered(TransformDI(seg, site, base))
                 = Shifted(Covered(seg), base.pos, Len(base.str))
<1>1. PICK p, l, q, n, j : p = seg.pos /\ l = seg.len /\ q = base.pos /\ n = Len(base.str)
                           /\ j = base.site
  OBVIOUS
<1>2. p \in Nat /\ l \in Nat /\ l # 0 /\ q \in Nat /\ j \in Int /\ site \in Int
  BY <1>1 DEF Segs, InsOps, AreSites
<1>3. n \in Nat
  BY <1>1 DEF InsOps
<1>4. Covered(seg) = p .. (p + l - 1)
  BY <1>1 DEF Covered
<1>5. CASE PosLessThan(p + l, q, site, j)
  <2>1. TransformDI(seg, site, base) = <<seg>>
    BY <1>1, <1>5 DEF TransformDI
  <2>2. Elems(<<seg>>) = {seg} /\ <<seg>> \in Seq(Segs)
    BY DEF Elems
  <2>3. AllCovered(<<seg>>) = Covered(seg)
    BY <2>2 DEF AllCovered
  <2>4. \A x \in p .. (p + l - 1) : Shift(x, q, n) = x
    BY <1>2, <1>5 DEF Shift, PosLessThan
  <2>5. Shifted(Covered(seg), q, n) = Covered(seg)
    BY <1>4, <2>4 DEF Shifted
  <2> QED BY <1>1, <2>1, <2>2, <2>3, <2>5
<1>6. CASE ~PosLessThan(p + l, q, site, j) /\ PosLessThan(q, p, j, site)
  <2>1. PICK g : g = Seg(p + n, l)
    OBVIOUS
  <2>2. TransformDI(seg, site, base) = <<g>>
    BY <1>1, <1>6, <2>1 DEF TransformDI
  <2>3. g \in Segs /\ g.pos = p + n /\ g.len = l
    BY <1>2, <1>3, <2>1 DEF Seg, Segs
  <2>4. Elems(<<g>>) = {g} /\ <<g>> \in Seq(Segs)
    BY <2>3 DEF Elems
  <2>5. AllCovered(<<g>>) = (p + n) .. (p + n + l - 1)
    BY <2>3, <2>4 DEF AllCovered, Covered
  <2>6. \A x \in p .. (p + l - 1) : Shift(x, q, n) = x + n
    BY <1>2, <1>6 DEF Shift, PosLessThan
  <2>7. Shifted(p .. (p + l - 1), q, n) = {x + n : x \in p .. (p + l - 1)}
    BY <2>6 DEF Shifted
  <2>8. {x + n : x \in p .. (p + l - 1)} = (p + n) .. (p + n + l - 1)
    <3>1. ASSUME NEW y \in (p + n) .. (p + n + l - 1)
          PROVE  y - n \in p .. (p + l - 1) /\ y = (y - n) + n
      BY <1>2, <1>3
    <3>2. ASSUME NEW x \in p .. (p + l - 1) PROVE x + n \in (p + n) .. (p + n + l - 1)
      BY <1>2, <1>3
    <3> QED BY <3>1, <3>2
  <2> QED BY <1>1, <1>4, <2>2, <2>4, <2>5, <2>7, <2>8
<1>7. CASE ~PosLessThan(p + l, q, site, j) /\ ~PosLessThan(q, p, j, site)
  <2>1. PICK m : m = q - p
    OBVIOUS
  <2>2. m \in Nat /\ l - m \in Nat /\ q + n \in Nat /\ p + m = q
    BY <1>2, <1>3, <1>7, <2>1 DEF PosLessThan
  <2>3. TransformDI(seg, site, base) = SplitPart(p, m) \o SplitPart(q + n, l - m)
    BY <1>1, <1>7, <2>1 DEF TransformDI
  <2>4. /\ SplitPart(p, m) \in Seq(Segs) /\ AllCovered(SplitPart(p, m)) = p .. (p + m - 1)
    BY <1>2, <2>2, SplitPartIs
  <2>5. /\ SplitPart(q + n, l - m) \in Seq(Segs)
        /\ AllCovered(SplitPart(q + n, l - m)) = (q + n) .. (q + n + (l - m) - 1)
    BY <2>2, SplitPartIs
  <2>6. /\ SplitPart(p, m) \o SplitPart(q + n, l - m) \in Seq(Segs)
        /\ AllCovered(SplitPart(p, m) \o SplitPart(q + n, l - m))
              = (p .. (p + m - 1)) \cup ((q + n) .. (q + n + (l - m) - 1))
    <3>1. SplitPart(p, m) \o SplitPart(q + n, l - m) \in Seq(Segs)
      BY <2>4, <2>5, ConcatProperties
    <3>2. AllCovered(SplitPart(p, m) \o SplitPart(q + n, l - m))
             = AllCovered(SplitPart(p, m)) \cup AllCovered(SplitPart(q + n, l - m))
      BY <2>4, <2>5, AllCoveredConcat
    <3> QED BY <2>4, <2>5, <3>1, <3>2
  <2>7. Shifted(p .. (p + l - 1), q, n)
           = (p .. (p + m - 1)) \cup ((q + n) .. (q + n + (l - m) - 1))
    <3>1. ASSUME NEW x \in p .. (p + l - 1)
          PROVE  Shift(x, q, n) \in (p .. (p + m - 1)) \cup ((q + n) .. (q + n + (l - m) - 1))
      BY <1>2, <1>3, <2>2 DEF Shift
    <3>2. ASSUME NEW y \in p .. (p + m - 1)
          PROVE  y \in p .. (p + l - 1) /\ Shift(y, q, n) = y
      BY <1>2, <2>2 DEF Shift
    <3>3. ASSUME NEW y \in (q + n) .. (q + n + (l - m) - 1)
          PROVE  y - n \in p .. (p + l - 1) /\ Shift(y - n, q, n) = y
      BY <1>2, <1>3, <2>2 DEF Shift
    <3> QED BY <3>1, <3>2, <3>3 DEF Shifted
  <2> QED BY <1>1, <1>4, <2>3, <2>6, <2>7
<1> QED BY <1>5, <1>6, <1>7

\* The type of an op says which it is, and what transforming it is.
LEMMA OpTypes ==
    ASSUME NEW C, NEW S
    PROVE  /\ \A op \in InsOps(C, S) : op.type = "Ins" /\ op \notin MarkOps(S)
           /\ \A op \in MarkOps(S) : op.type = "Mark" /\ op \notin InsOps(C, S)
<1>1. "Ins" # "Mark"
  OBVIOUS
<1> QED BY <1>1 DEF InsOps, MarkOps

LEMMA TransformPastMark ==
    ASSUME NEW S, NEW op, NEW base \in MarkOps(S)
    PROVE  Transform(op, base) = op
<1>1. base.type = "Mark"
  BY DEF MarkOps
<1> QED BY <1>1 DEF Transform

\* An insertion keeps its text and its site, and moves or stays.
LEMMA TransformIns ==
    ASSUME NEW C, NEW S, AreSites(S), NEW op \in InsOps(C, S), NEW base \in InsOps(C, S)
    PROVE  /\ Transform(op, base) \in InsOps(C, S)
           /\ Transform(op, base).str = op.str /\ Transform(op, base).site = op.site
           /\ Transform(op, base).pos =
                 IF PosLessThan(op.pos, base.pos, op.site, base.site)
                 THEN op.pos ELSE op.pos + Len(base.str)
<1>1. Transform(op, base) = TransformII(op, base)
  BY OpTypes DEF Transform
<1>2. Len(base.str) \in Nat
  BY DEF InsOps
<1>3. op.pos \in Nat /\ op.pos + Len(base.str) \in Nat
  BY <1>2 DEF InsOps
<1>4. CASE PosLessThan(op.pos, base.pos, op.site, base.site)
  BY <1>1, <1>4 DEF TransformII
<1>5. CASE ~PosLessThan(op.pos, base.pos, op.site, base.site)
  <2>1. Transform(op, base) = [op EXCEPT !.pos = op.pos + Len(base.str)]
    BY <1>1, <1>5 DEF TransformII
  <2>2. [op EXCEPT !.pos = op.pos + Len(base.str)] \in InsOps(C, S)
    BY <1>3 DEF InsOps
  <2>3. /\ [op EXCEPT !.pos = op.pos + Len(base.str)].str = op.str
        /\ [op EXCEPT !.pos = op.pos + Len(base.str)].site = op.site
        /\ [op EXCEPT !.pos = op.pos + Len(base.str)].pos = op.pos + Len(base.str)
    BY DEF InsOps
  <2> QED BY <1>5, <2>1, <2>2, <2>3
<1> QED BY <1>4, <1>5

\* A mark keeps what it does and its site, and the positions it covers move
\* with the text.
LEMMA TransformMark ==
    ASSUME NEW C, NEW S, AreSites(S), NEW op \in MarkOps(S), NEW base \in InsOps(C, S)
    PROVE  /\ Transform(op, base) \in MarkOps(S)
           /\ Transform(op, base).live = op.live /\ Transform(op, base).site = op.site
           /\ Positions(Transform(op, base))
                 = Shifted(Positions(op), base.pos, Len(base.str))
<1> DEFINE ss == [i \in DOMAIN op.segs |-> TransformDI(op.segs[i], op.site, base)]
<1>1. Transform(op, base) = [op EXCEPT !.segs = FlattenSeq(ss)]
  <2>1. op.type = "Mark" /\ base.type = "Ins"
    BY OpTypes
  <2> QED BY <2>1 DEF Transform
<1>2. op.segs \in Seq(Segs) /\ op.site \in S
  BY DEF MarkOps
<1>3. \A i \in DOMAIN op.segs : op.segs[i] \in Segs
  BY <1>2
<1>4. \A i \in DOMAIN op.segs :
        /\ ss[i] \in Seq(Segs)
        /\ AllCovered(ss[i]) = Shifted(Covered(op.segs[i]), base.pos, Len(base.str))
  <2> SUFFICES ASSUME NEW i \in DOMAIN op.segs
               PROVE  /\ ss[i] \in Seq(Segs)
                      /\ AllCovered(ss[i])
                            = Shifted(Covered(op.segs[i]), base.pos, Len(base.str))
    OBVIOUS
  <2>1. PICK g : g = op.segs[i]
    OBVIOUS
  <2>2. g \in Segs /\ ss[i] = TransformDI(g, op.site, base)
    BY <1>3, <2>1
  <2>3. /\ TransformDI(g, op.site, base) \in Seq(Segs)
        /\ AllCovered(TransformDI(g, op.site, base))
              = Shifted(Covered(g), base.pos, Len(base.str))
    BY <1>2, <2>2, TransformDIShifts
  <2> HIDE DEF ss
  <2> QED BY <2>1, <2>2, <2>3
<1>5. ss \in Seq(Seq(Segs)) /\ DOMAIN ss = DOMAIN op.segs
  <2>1. PICK n : n = Len(op.segs)
    OBVIOUS
  <2>2. n \in Nat /\ DOMAIN op.segs = 1..n
    BY <1>2, <2>1
  <2>3. ss = [i \in 1..n |-> ss[i]] /\ \A i \in 1..n : ss[i] \in Seq(Segs)
    BY <1>4, <2>2
  <2> HIDE DEF ss
  <2> QED BY <2>2, <2>3
<1>6. Elems(ss) = {ss[i] : i \in DOMAIN op.segs}
  BY <1>5 DEF Elems
<1> HIDE DEF ss
<1>7. PICK f : f = FlattenSeq(ss)
  OBVIOUS
<1>8. f \in Seq(Segs) /\ Elems(f) = UNION {Elems(s) : s \in Elems(ss)}
  BY <1>5, <1>7, FlattenElems
<1>9. /\ [op EXCEPT !.segs = f] \in MarkOps(S)
      /\ [op EXCEPT !.segs = f].live = op.live /\ [op EXCEPT !.segs = f].site = op.site
      /\ [op EXCEPT !.segs = f].segs = f
  BY <1>8 DEF MarkOps
<1>10. AllCovered(f) = Shifted(AllCovered(op.segs), base.pos, Len(base.str))
  <2>1. AllCovered(f) = UNION {AllCovered(s) : s \in Elems(ss)}
    BY <1>8 DEF AllCovered
  <2>2. AllCovered(f) = UNION {AllCovered(ss[i]) : i \in DOMAIN op.segs}
    BY <1>6, <2>1
  <2>3. AllCovered(f) = UNION {Shifted(Covered(op.segs[i]), base.pos, Len(base.str)) :
                                 i \in DOMAIN op.segs}
    BY <1>4, <2>2
  <2>4. AllCovered(op.segs) = UNION {Covered(op.segs[i]) : i \in DOMAIN op.segs}
    BY DEF AllCovered, Elems
  <2> QED BY <2>3, <2>4 DEF Shifted
<1> QED BY <1>1, <1>7, <1>9, <1>10, PositionsCovered

\* A transformed op is an op of the same site.
LEMMA TransformType ==
    ASSUME NEW C, NEW S, AreSites(S), NEW op \in Ops(C, S), NEW base \in Ops(C, S)
    PROVE  /\ Transform(op, base) \in Ops(C, S)
           /\ Transform(op, base).site = op.site
<1>1. CASE base \in MarkOps(S)
  <2>1. Transform(op, base) = op
    BY <1>1, TransformPastMark
  <2> QED BY <2>1
<1>2. CASE base \in InsOps(C, S) /\ op \in InsOps(C, S)
  <2>1. Transform(op, base) \in InsOps(C, S) /\ Transform(op, base).site = op.site
    BY <1>2, TransformIns
  <2> QED BY <2>1 DEF Ops
<1>3. CASE base \in InsOps(C, S) /\ op \in MarkOps(S)
  <2>1. Transform(op, base) \in MarkOps(S) /\ Transform(op, base).site = op.site
    BY <1>3, TransformMark
  <2> QED BY <2>1 DEF Ops
<1> QED BY <1>1, <1>2, <1>3 DEF Ops

-----------------------------------------------------------------------------
(* What an op does to the document, position by position *)

Cells(C) == [ch : C, live : BOOLEAN]

\* An op makes sense on a document: an insertion is not beyond its end.
Fits(op, doc) == op.type = "Ins" => op.pos <= Len(doc)

\* new is old, of l characters, with the n characters of str at p.
Inserted(new, old, l, p, str, n) ==
    \A k \in 1..(l + n) : new[k] = IF k <= p THEN old[k]
                                   ELSE IF k <= p + n THEN Cell(str[k - p], TRUE)
                                   ELSE old[k - n]

\* new is old, of l characters, with those at the positions P set to live.
Marked(new, old, l, P, live) ==
    \A k \in 1..l : new[k] = IF k - 1 \in P THEN Cell(old[k].ch, live) ELSE old[k]

LEMMA InsFacts ==
    ASSUME NEW C, NEW S, AreSites(S), NEW op \in InsOps(C, S)
    PROVE  /\ op.type = "Ins" /\ op.pos \in Nat /\ op.str \in Seq(C)
           /\ op.site \in S /\ op.site \in Int
           /\ Len(op.str) \in Nat /\ Len(op.str) # 0
<1>1. /\ op.type = "Ins" /\ op.pos \in Nat /\ op.str \in Seq(C) /\ op.str # << >>
      /\ op.site \in S
  BY DEF InsOps
<1>2. Len(op.str) \in Nat /\ Len(op.str) # 0
  BY <1>1, EmptySeq
<1> QED BY <1>1, <1>2 DEF AreSites

LEMMA ApplyInsIs ==
    ASSUME NEW C, NEW S, NEW doc \in Seq(Cells(C)), NEW op \in InsOps(C, S), Fits(op, doc)
    PROVE  /\ ApplyOp(doc, op) \in Seq(Cells(C))
           /\ Len(ApplyOp(doc, op)) = Len(doc) + Len(op.str)
           /\ Inserted(ApplyOp(doc, op), doc, Len(doc), op.pos, op.str, Len(op.str))
<1>1. PICK p, n, l : p = op.pos /\ n = Len(op.str) /\ l = Len(doc)
  OBVIOUS
<1>2. p \in Nat /\ n \in Nat /\ l \in Nat /\ p <= l /\ op.str \in Seq(C)
  BY <1>1 DEF InsOps, Fits
<1>3. PICK a : a = SubSeq(doc, 1, p)
  OBVIOUS
<1>4. PICK m : m = [k \in DOMAIN op.str |-> Cell(op.str[k], TRUE)]
  OBVIOUS
<1>5. PICK z : z = SubSeq(doc, p + 1, l)
  OBVIOUS
<1>6. ApplyOp(doc, op) = a \o m \o z
  <2>1. op.type = "Ins"
    BY OpTypes
  <2> QED BY <1>1, <1>3, <1>4, <1>5, <2>1 DEF ApplyOp
<1>7. a \in Seq(Cells(C)) /\ Len(a) = p /\ \A k \in 1..p : a[k] = doc[k]
  BY <1>1, <1>2, <1>3, SubSeqProperties
<1>8. m \in Seq(Cells(C)) /\ Len(m) = n /\ \A k \in 1..n : m[k] = Cell(op.str[k], TRUE)
  <2>1. DOMAIN op.str = 1..n /\ \A k \in 1..n : op.str[k] \in C
    BY <1>1, <1>2
  <2>2. m = [k \in 1..n |-> Cell(op.str[k], TRUE)]
    BY <1>4, <2>1
  <2>3. \A k \in 1..n : Cell(op.str[k], TRUE) \in Cells(C)
    BY <2>1 DEF Cell, Cells
  <2>4. m \in [1..n -> Cells(C)]
    BY <2>2, <2>3
  <2>5. m \in Seq(Cells(C)) /\ Len(m) = n
    BY <1>2, <2>4
  <2>6. \A k \in 1..n : m[k] = Cell(op.str[k], TRUE)
    BY <2>2
  <2> QED BY <2>5, <2>6
<1>9. z \in Seq(Cells(C)) /\ Len(z) = l - p /\ \A k \in 1..(l - p) : z[k] = doc[k + p]
  <2>1. PICK i : i = p + 1
    OBVIOUS
  <2>2. i \in 1..(l + 1) /\ l \in (i - 1)..l /\ z = SubSeq(doc, i, l)
    BY <1>2, <1>5, <2>1
  <2>3. /\ z \in Seq(Cells(C))
        /\ Len(z) = IF i <= l THEN l - i + 1 ELSE 0
        /\ \A k \in 1..(l - i + 1) : z[k] = doc[i + k - 1]
    <3>1. i \in Int /\ l \in Int /\ \A k \in i..l : k \in 1..Len(doc)
      BY <1>1, <1>2, <2>2
    <3>2. \A k \in i..l : doc[k] \in Cells(C)
      BY <3>1
    <3> QED BY <2>2, <3>1, <3>2, SubSeqProperties
  <2>4. Len(z) = l - p
    BY <1>2, <2>1, <2>3
  <2>5. \A k \in 1..(l - p) : k \in 1..(l - i + 1) /\ i + k - 1 = k + p
    BY <1>2, <2>1
  <2> QED BY <2>3, <2>4, <2>5
<1>10. PICK b : b = a \o m
  OBVIOUS
<1>11. /\ b \in Seq(Cells(C)) /\ Len(b) = p + n
       /\ \A k \in 1..(p + n) : b[k] = IF k <= p THEN a[k] ELSE m[k - p]
  BY <1>2, <1>7, <1>8, <1>10, ConcatProperties
<1>12. PICK r : r = b \o z
  OBVIOUS
<1>13. /\ r \in Seq(Cells(C)) /\ Len(r) = l + n
       /\ \A k \in 1..(l + n) : r[k] = IF k <= p + n THEN b[k] ELSE z[k - (p + n)]
  <2>1. (p + n) + (l - p) = l + n
    BY <1>2
  <2>2. r \in Seq(Cells(C)) /\ Len(r) = Len(b) + Len(z)
        /\ \A k \in 1..(Len(b) + Len(z)) : r[k] = IF k <= Len(b) THEN b[k] ELSE z[k - Len(b)]
    <3>1. b \in Seq(Cells(C)) /\ z \in Seq(Cells(C))
      BY <1>9, <1>11
    <3> QED BY <1>12, <3>1, ConcatProperties
  <2>3. Len(b) = p + n /\ Len(b) + Len(z) = l + n
    BY <1>9, <1>11, <2>1
  <2> QED BY <2>2, <2>3
<1>14. ASSUME NEW k \in 1..(l + n)
       PROVE  r[k] = IF k <= p THEN doc[k]
                     ELSE IF k <= p + n THEN Cell(op.str[k - p], TRUE)
                     ELSE doc[k - n]
  <2>1. CASE k <= p
    <3>1. k \in 1..p /\ k \in 1..(p + n) /\ k <= p + n
      BY <1>2, <2>1
    <3> QED BY <1>7, <1>11, <1>13, <2>1, <3>1
  <2>2. CASE ~(k <= p) /\ k <= p + n
    <3>1. k - p \in 1..n /\ k \in 1..(p + n)
      BY <1>2, <2>2
    <3> QED BY <1>8, <1>11, <1>13, <2>2, <3>1
  <2>3. CASE ~(k <= p) /\ ~(k <= p + n)
    <3>1. k - (p + n) \in 1..(l - p) /\ (k - (p + n)) + p = k - n
      BY <1>2, <2>3
    <3> QED BY <1>9, <1>13, <2>3, <3>1
  <2> QED BY <2>1, <2>2, <2>3
<1>15. PICK d : d = ApplyOp(doc, op)
  OBVIOUS
<1>16. d = r
  BY <1>6, <1>10, <1>12, <1>15
<1>17. \A k \in 1..(l + n) : d[k] = IF k <= p THEN doc[k]
                                    ELSE IF k <= p + n THEN Cell(op.str[k - p], TRUE)
                                    ELSE doc[k - n]
  BY <1>14, <1>16
<1>18. d \in Seq(Cells(C)) /\ Len(d) = l + n
  BY <1>13, <1>16
<1> QED BY <1>1, <1>15, <1>17, <1>18 DEF Inserted

LEMMA ApplyMarkIs ==
    ASSUME NEW C, NEW S, NEW doc \in Seq(Cells(C)), NEW op \in MarkOps(S)
    PROVE  /\ ApplyOp(doc, op) \in Seq(Cells(C))
           /\ Len(ApplyOp(doc, op)) = Len(doc)
           /\ Marked(ApplyOp(doc, op), doc, Len(doc), Positions(op), op.live)
<1>1. PICK l : l = Len(doc)
  OBVIOUS
<1>2. op.type # "Ins"
  BY OpTypes
<1>3. op.live \in BOOLEAN
  BY DEF MarkOps
<1>4. l \in Nat /\ DOMAIN doc = 1..l /\ \A k \in 1..l : doc[k] \in Cells(C)
  BY <1>1
<1>5. ApplyOp(doc, op) = [k \in 1..l |-> IF k - 1 \in Positions(op)
                                         THEN [doc[k] EXCEPT !.live = op.live] ELSE doc[k]]
  BY <1>2, <1>4 DEF ApplyOp
<1>6. \A k \in 1..l : [doc[k] EXCEPT !.live = op.live] = Cell(doc[k].ch, op.live)
  BY <1>4 DEF Cell, Cells
<1>7. \A k \in 1..l : Cell(doc[k].ch, op.live) \in Cells(C)
  BY <1>3, <1>4 DEF Cell, Cells
<1>8. PICK r : r = [k \in 1..l |-> IF k - 1 \in Positions(op)
                                   THEN Cell(doc[k].ch, op.live) ELSE doc[k]]
  OBVIOUS
<1>9. ApplyOp(doc, op) = r
  BY <1>5, <1>6, <1>8
<1>10. r \in Seq(Cells(C)) /\ Len(r) = l
  BY <1>4, <1>7, <1>8
<1> QED BY <1>1, <1>8, <1>9, <1>10 DEF Marked

\* Two sequences that agree everywhere are one.
LEMMA SameSeq ==
    ASSUME NEW T, NEW s \in Seq(T), NEW r \in Seq(T), NEW n, n = Len(s), n = Len(r),
           Agree(s, r, n)
    PROVE  s = r
<1>1. \A i \in 1..Len(s) : s[i] = r[i]
  BY DEF Agree
<1> QED BY <1>1, SeqEqual

-----------------------------------------------------------------------------
(* Two concurrent ops give the same document in either order *)

\* Insertions: the one that comes first by position, then by site, stays,
\* and the other moves behind it.
LEMMA OrderedInsertionsCommute ==
    ASSUME NEW C, NEW S, AreSites(S), NEW doc \in Seq(Cells(C)),
           NEW a \in InsOps(C, S), NEW b \in InsOps(C, S),
           Fits(a, doc), Fits(b, doc),
           PosLessThan(a.pos, b.pos, a.site, b.site)
    PROVE  ApplyOp(ApplyOp(doc, a), Transform(b, a)) = ApplyOp(ApplyOp(doc, b), Transform(a, b))
<1>1. PICK p, n, q, m, l : /\ p = a.pos /\ n = Len(a.str) /\ q = b.pos /\ m = Len(b.str)
                           /\ l = Len(doc)
  OBVIOUS
<1>2. /\ p \in Nat /\ n \in Nat /\ q \in Nat /\ m \in Nat /\ l \in Nat
      /\ a.site \in Int /\ b.site \in Int
  BY <1>1, InsFacts
<1>3. p <= q /\ p <= l /\ q <= l
  <2>1. a.type = "Ins" /\ b.type = "Ins"
    BY OpTypes
  <2> QED BY <1>1, <1>2, <2>1 DEF PosLessThan, Fits
<1>4. ~PosLessThan(b.pos, a.pos, b.site, a.site)
  BY <1>1, <1>2 DEF PosLessThan
<1>5. PICK b2 : b2 = Transform(b, a)
  OBVIOUS
<1>6. b2 \in InsOps(C, S) /\ b2.str = b.str /\ b2.pos = q + n
  BY <1>1, <1>4, <1>5, TransformIns
<1>7. Transform(a, b) = a
  BY OpTypes DEF Transform, TransformII
<1>8. PICK d1, d2, e1, e2 : /\ d1 = ApplyOp(doc, a) /\ d2 = ApplyOp(doc, b)
                            /\ e1 = ApplyOp(d1, b2) /\ e2 = ApplyOp(d2, a)
  OBVIOUS
<1>9. /\ d1 \in Seq(Cells(C)) /\ Len(d1) = l + n
      /\ \A k \in 1..(l + n) :
           d1[k] = IF k <= p THEN doc[k]
                   ELSE IF k <= p + n THEN Cell(a.str[k - p], TRUE) ELSE doc[k - n]
  <2>1. d1 \in Seq(Cells(C)) /\ Len(d1) = l + n /\ Inserted(d1, doc, l, p, a.str, n)
    BY <1>1, <1>8, ApplyInsIs
  <2> QED BY <2>1 DEF Inserted
<1>10. /\ d2 \in Seq(Cells(C)) /\ Len(d2) = l + m
       /\ \A k \in 1..(l + m) :
            d2[k] = IF k <= q THEN doc[k]
                    ELSE IF k <= q + m THEN Cell(b.str[k - q], TRUE) ELSE doc[k - m]
  <2>1. d2 \in Seq(Cells(C)) /\ Len(d2) = l + m /\ Inserted(d2, doc, l, q, b.str, m)
    BY <1>1, <1>8, ApplyInsIs
  <2> QED BY <2>1 DEF Inserted
<1>11. /\ e1 \in Seq(Cells(C)) /\ Len(e1) = l + n + m
       /\ \A k \in 1..(l + n + m) :
            e1[k] = IF k <= q + n THEN d1[k]
                    ELSE IF k <= q + n + m THEN Cell(b.str[k - (q + n)], TRUE)
                    ELSE d1[k - m]
  <2>1. d1 \in Seq(Cells(C)) /\ Len(d1) = l + n
    BY <1>9
  <2>2. Fits(b2, d1)
    BY <1>2, <1>3, <1>6, <2>1 DEF Fits
  <2>3. /\ e1 \in Seq(Cells(C)) /\ Len(e1) = Len(d1) + Len(b2.str)
        /\ Inserted(e1, d1, Len(d1), b2.pos, b2.str, Len(b2.str))
    BY <1>6, <1>8, <2>1, <2>2, ApplyInsIs
  <2>4. /\ e1 \in Seq(Cells(C)) /\ Len(e1) = l + n + m
        /\ Inserted(e1, d1, l + n, q + n, b.str, m)
    BY <1>1, <1>6, <2>1, <2>3
  <2> QED BY <2>4 DEF Inserted
<1>12. /\ e2 \in Seq(Cells(C)) /\ Len(e2) = l + m + n
       /\ \A k \in 1..(l + m + n) :
            e2[k] = IF k <= p THEN d2[k]
                    ELSE IF k <= p + n THEN Cell(a.str[k - p], TRUE) ELSE d2[k - n]
  <2>1. d2 \in Seq(Cells(C)) /\ Len(d2) = l + m
    BY <1>10
  <2>2. Fits(a, d2)
    BY <1>1, <1>2, <1>3, <2>1 DEF Fits
  <2>3. /\ e2 \in Seq(Cells(C)) /\ Len(e2) = Len(d2) + Len(a.str)
        /\ Inserted(e2, d2, Len(d2), a.pos, a.str, Len(a.str))
    BY <1>8, <2>1, <2>2, ApplyInsIs
  <2>4. Inserted(e2, d2, l + m, p, a.str, n) /\ Len(e2) = l + m + n
    BY <1>1, <2>1, <2>3
  <2> QED BY <2>3, <2>4 DEF Inserted
<1>13. PICK t : t = l + n + m
  OBVIOUS
<1>14. t \in Nat /\ t = l + m + n
  BY <1>2, <1>13
<1>15. ASSUME NEW k \in 1..t PROVE e1[k] = e2[k]
  <2>1. CASE k <= p
    <3>1. k <= q + n /\ k <= q /\ k \in 1..(l + n) /\ k \in 1..(l + m)
      BY <1>2, <1>3, <2>1
    <3> QED BY <1>9, <1>10, <1>11, <1>12, <1>13, <1>14, <2>1, <3>1
  <2>2. CASE ~(k <= p) /\ k <= p + n
    <3>1. k <= q + n /\ k \in 1..(l + n)
      BY <1>2, <1>3, <2>2
    <3> QED BY <1>9, <1>11, <1>12, <1>13, <1>14, <2>2, <3>1
  <2>3. CASE ~(k <= p + n) /\ k <= q + n
    <3>1. /\ k \in 1..(l + n) /\ k - n \in 1..(l + m) /\ k - n <= q
          /\ ~(k <= p) /\ ~(k <= p + n)
      BY <1>2, <1>3, <2>3
    <3>2. e1[k] = doc[k - n]
      BY <1>9, <1>11, <1>13, <2>3, <3>1
    <3>3. e2[k] = doc[k - n]
      BY <1>10, <1>12, <1>14, <3>1
    <3> QED BY <3>2, <3>3
  <2>4. CASE ~(k <= q + n) /\ k <= q + n + m
    <3>1. /\ k - n \in 1..(l + m) /\ ~(k - n <= q) /\ k - n <= q + m
          /\ ~(k <= p) /\ ~(k <= p + n) /\ (k - n) - q = k - (q + n)
      BY <1>2, <1>3, <2>4
    <3> QED BY <1>10, <1>11, <1>12, <1>13, <1>14, <2>4, <3>1
  <2>5. CASE ~(k <= q + n + m)
    <3>1. /\ k - n \in 1..(l + m) /\ ~(k - n <= q) /\ ~(k - n <= q + m)
          /\ ~(k <= p) /\ ~(k <= p + n) /\ ~(k <= q + n)
          /\ k - m \in 1..(l + n) /\ ~(k - m <= p) /\ ~(k - m <= p + n)
          /\ (k - m) - n = (k - n) - m
      BY <1>2, <1>3, <1>14, <2>5
    <3>2. e1[k] = doc[(k - m) - n]
      BY <1>9, <1>11, <1>13, <2>5, <3>1
    <3>3. e2[k] = doc[(k - n) - m]
      BY <1>10, <1>12, <1>14, <3>1
    <3> QED BY <3>1, <3>2, <3>3
  <2> QED BY <2>1, <2>2, <2>3, <2>4, <2>5
<1>16. e1 \in Seq(Cells(C)) /\ e2 \in Seq(Cells(C)) /\ Len(e1) = t /\ Len(e2) = t
  BY <1>11, <1>12, <1>13, <1>14
<1>17. Agree(e1, e2, t)
  BY <1>15 DEF Agree
<1>18. e1 = e2
  BY <1>16, <1>17, SameSeq
<1> QED BY <1>5, <1>7, <1>8, <1>18

LEMMA InsertionsCommute ==
    ASSUME NEW C, NEW S, AreSites(S), NEW doc \in Seq(Cells(C)),
           NEW a \in InsOps(C, S), NEW b \in InsOps(C, S),
           Fits(a, doc), Fits(b, doc), a.site # b.site
    PROVE  ApplyOp(ApplyOp(doc, a), Transform(b, a)) = ApplyOp(ApplyOp(doc, b), Transform(a, b))
<1>1. PosLessThan(a.pos, b.pos, a.site, b.site) \/ PosLessThan(b.pos, a.pos, b.site, a.site)
  <2>1. a.pos \in Nat /\ b.pos \in Nat /\ a.site \in Int /\ b.site \in Int
    BY InsFacts
  <2> QED BY <2>1 DEF PosLessThan
<1>2. CASE PosLessThan(a.pos, b.pos, a.site, b.site)
  BY <1>2, OrderedInsertionsCommute
<1>3. CASE PosLessThan(b.pos, a.pos, b.site, a.site)
  BY <1>3, OrderedInsertionsCommute
<1> QED BY <1>1, <1>2, <1>3

\* A mark and an insertion: the mark does not take in the inserted text.
LEMMA MarkAndInsertionCommute ==
    ASSUME NEW C, NEW S, AreSites(S), NEW doc \in Seq(Cells(C)),
           NEW a \in MarkOps(S), NEW b \in InsOps(C, S), Fits(b, doc)
    PROVE  ApplyOp(ApplyOp(doc, a), Transform(b, a)) = ApplyOp(ApplyOp(doc, b), Transform(a, b))
<1>1. PICK q, m, l : q = b.pos /\ m = Len(b.str) /\ l = Len(doc)
  OBVIOUS
<1>2. q \in Nat /\ m \in Nat /\ l \in Nat /\ q <= l
  BY <1>1, InsFacts DEF Fits
<1>3. Transform(b, a) = b
  BY TransformPastMark
<1>4. PICK a2 : a2 = Transform(a, b)
  OBVIOUS
<1>5. a2 \in MarkOps(S) /\ a2.live = a.live /\ Positions(a2) = Shifted(Positions(a), q, m)
  BY <1>1, <1>4, TransformMark
<1>6. Positions(a) \subseteq Nat
  <2>1. a.segs \in Seq(Segs)
    BY DEF MarkOps
  <2> QED BY <2>1, CoveredNat, PositionsCovered
<1>7. PICK d1, d2, e1, e2 : /\ d1 = ApplyOp(doc, a) /\ d2 = ApplyOp(doc, b)
                            /\ e1 = ApplyOp(d1, b) /\ e2 = ApplyOp(d2, a2)
  OBVIOUS
<1>8. /\ d1 \in Seq(Cells(C)) /\ Len(d1) = l
      /\ \A k \in 1..l : d1[k] = IF k - 1 \in Positions(a) THEN Cell(doc[k].ch, a.live)
                                                           ELSE doc[k]
  BY <1>1, <1>7, ApplyMarkIs DEF Marked
<1>9. /\ d2 \in Seq(Cells(C)) /\ Len(d2) = l + m
      /\ \A k \in 1..(l + m) :
           d2[k] = IF k <= q THEN doc[k]
                   ELSE IF k <= q + m THEN Cell(b.str[k - q], TRUE) ELSE doc[k - m]
  <2>1. d2 \in Seq(Cells(C)) /\ Len(d2) = l + m /\ Inserted(d2, doc, l, q, b.str, m)
    BY <1>1, <1>7, ApplyInsIs
  <2> QED BY <2>1 DEF Inserted
<1>10. /\ e1 \in Seq(Cells(C)) /\ Len(e1) = l + m
       /\ \A k \in 1..(l + m) :
            e1[k] = IF k <= q THEN d1[k]
                    ELSE IF k <= q + m THEN Cell(b.str[k - q], TRUE) ELSE d1[k - m]
  <2>1. Fits(b, d1) /\ d1 \in Seq(Cells(C)) /\ Len(d1) = l
    BY <1>1, <1>8 DEF Fits
  <2>2. /\ e1 \in Seq(Cells(C)) /\ Len(e1) = l + m
        /\ Inserted(e1, d1, l, q, b.str, m)
    BY <1>1, <1>7, <2>1, ApplyInsIs
  <2> QED BY <2>2 DEF Inserted
<1>11. /\ e2 \in Seq(Cells(C)) /\ Len(e2) = l + m
       /\ \A k \in 1..(l + m) :
            e2[k] = IF k - 1 \in Positions(a2) THEN Cell(d2[k].ch, a2.live) ELSE d2[k]
  <2>1. d2 \in Seq(Cells(C)) /\ Len(d2) = l + m
    BY <1>9
  <2> QED BY <1>5, <1>7, <2>1, ApplyMarkIs DEF Marked
<1>12. \A k \in 1..(l + m) :
         k - 1 \in Positions(a2) <=> \/ k <= q /\ k - 1 \in Positions(a)
                                     \/ ~(k <= q + m) /\ (k - m) - 1 \in Positions(a)
  <2> SUFFICES ASSUME NEW k \in 1..(l + m)
               PROVE  k - 1 \in Positions(a2) <=>
                         \/ k <= q /\ k - 1 \in Positions(a)
                         \/ ~(k <= q + m) /\ (k - m) - 1 \in Positions(a)
    OBVIOUS
  <2>1. ASSUME k - 1 \in Positions(a2)
        PROVE  \/ k <= q /\ k - 1 \in Positions(a)
               \/ ~(k <= q + m) /\ (k - m) - 1 \in Positions(a)
    <3>1. PICK x \in Positions(a) : k - 1 = Shift(x, q, m)
      BY <1>5, <2>1 DEF Shifted
    <3>2. x \in Nat
      BY <1>6
    <3>3. CASE x < q
      <4>1. k - 1 = x /\ k <= q
        BY <1>2, <3>1, <3>2, <3>3 DEF Shift
      <4> QED BY <4>1
    <3>4. CASE ~(x < q)
      <4>1. (k - m) - 1 = x /\ ~(k <= q + m)
        BY <1>2, <3>1, <3>2, <3>4 DEF Shift
      <4> QED BY <4>1
    <3> QED BY <3>3, <3>4
  <2>2. ASSUME k <= q, k - 1 \in Positions(a) PROVE k - 1 \in Positions(a2)
    <3>1. Shift(k - 1, q, m) = k - 1
      BY <1>2, <2>2 DEF Shift
    <3> QED BY <1>5, <2>2, <3>1 DEF Shifted
  <2>3. ASSUME ~(k <= q + m), (k - m) - 1 \in Positions(a) PROVE k - 1 \in Positions(a2)
    <3>1. Shift((k - m) - 1, q, m) = k - 1
      BY <1>2, <2>3 DEF Shift
    <3> QED BY <1>5, <2>3, <3>1 DEF Shifted
  <2> QED BY <2>1, <2>2, <2>3
<1>13. ASSUME NEW k \in 1..(l + m) PROVE e1[k] = e2[k]
  <2>1. CASE k <= q
    <3>1. k \in 1..l /\ k <= q + m
      BY <1>2, <2>1
    <3>2. d2[k] = doc[k]
      BY <1>9, <2>1
    <3>3. k - 1 \in Positions(a2) <=> k - 1 \in Positions(a)
      BY <1>12, <2>1, <3>1
    <3> QED BY <1>5, <1>8, <1>10, <1>11, <2>1, <3>1, <3>2, <3>3
  <2>2. CASE ~(k <= q) /\ k <= q + m
    <3>1. k - 1 \notin Positions(a2)
      BY <1>12, <2>2
    <3> QED BY <1>9, <1>10, <1>11, <2>2, <3>1
  <2>3. CASE ~(k <= q + m)
    <3>1. k - m \in 1..l /\ ~(k <= q)
      BY <1>2, <2>3
    <3>2. d2[k] = doc[k - m]
      BY <1>9, <2>3, <3>1
    <3>3. k - 1 \in Positions(a2) <=> (k - m) - 1 \in Positions(a)
      BY <1>12, <2>3, <3>1
    <3> QED BY <1>5, <1>8, <1>10, <1>11, <2>3, <3>1, <3>2, <3>3
  <2> QED BY <2>1, <2>2, <2>3
<1>14. PICK t : t = l + m
  OBVIOUS
<1>15. e1 \in Seq(Cells(C)) /\ e2 \in Seq(Cells(C)) /\ Len(e1) = t /\ Len(e2) = t
  BY <1>10, <1>11, <1>14
<1>16. Agree(e1, e2, t)
  BY <1>13, <1>14 DEF Agree
<1>17. e1 = e2
  BY <1>15, <1>16, SameSeq
<1> QED BY <1>3, <1>4, <1>7, <1>17

\* Two marks, unless one makes live what the other makes dead.
LEMMA MarksCommute ==
    ASSUME NEW C, NEW S, NEW doc \in Seq(Cells(C)), NEW a \in MarkOps(S), NEW b \in MarkOps(S),
           a.live = b.live \/ Positions(a) \cap Positions(b) = {}
    PROVE  ApplyOp(ApplyOp(doc, a), Transform(b, a)) = ApplyOp(ApplyOp(doc, b), Transform(a, b))
<1>1. PICK l : l = Len(doc)
  OBVIOUS
<1>2. Transform(b, a) = b /\ Transform(a, b) = a
  BY TransformPastMark
<1>3. PICK d1, d2, e1, e2 : /\ d1 = ApplyOp(doc, a) /\ d2 = ApplyOp(doc, b)
                            /\ e1 = ApplyOp(d1, b) /\ e2 = ApplyOp(d2, a)
  OBVIOUS
<1>4. /\ d1 \in Seq(Cells(C)) /\ Len(d1) = l
      /\ \A k \in 1..l : d1[k] = IF k - 1 \in Positions(a) THEN Cell(doc[k].ch, a.live)
                                                           ELSE doc[k]
  BY <1>1, <1>3, ApplyMarkIs DEF Marked
<1>5. /\ d2 \in Seq(Cells(C)) /\ Len(d2) = l
      /\ \A k \in 1..l : d2[k] = IF k - 1 \in Positions(b) THEN Cell(doc[k].ch, b.live)
                                                           ELSE doc[k]
  BY <1>1, <1>3, ApplyMarkIs DEF Marked
<1>6. /\ e1 \in Seq(Cells(C)) /\ Len(e1) = l
      /\ \A k \in 1..l : e1[k] = IF k - 1 \in Positions(b) THEN Cell(d1[k].ch, b.live)
                                                           ELSE d1[k]
  BY <1>3, <1>4, ApplyMarkIs DEF Marked
<1>7. /\ e2 \in Seq(Cells(C)) /\ Len(e2) = l
      /\ \A k \in 1..l : e2[k] = IF k - 1 \in Positions(a) THEN Cell(d2[k].ch, a.live)
                                                           ELSE d2[k]
  BY <1>3, <1>5, ApplyMarkIs DEF Marked
<1>8. \A ch, f : Cell(ch, f).ch = ch
  BY DEF Cell
<1>9. ASSUME NEW k \in 1..l PROVE e1[k] = e2[k]
  <2>1. d1[k].ch = doc[k].ch /\ d2[k].ch = doc[k].ch
    BY <1>4, <1>5, <1>8
  <2>2. CASE k - 1 \in Positions(a) /\ k - 1 \in Positions(b)
    BY <1>4, <1>5, <1>6, <1>7, <2>1, <2>2
  <2>3. CASE k - 1 \in Positions(a) /\ k - 1 \notin Positions(b)
    BY <1>4, <1>5, <1>6, <1>7, <2>1, <2>3
  <2>4. CASE k - 1 \notin Positions(a)
    BY <1>4, <1>5, <1>6, <1>7, <2>1, <2>4
  <2> QED BY <2>2, <2>3, <2>4
<1>10. e1 \in Seq(Cells(C)) /\ e2 \in Seq(Cells(C)) /\ Len(e1) = l /\ Len(e2) = l
  BY <1>6, <1>7
<1>11. Agree(e1, e2, l)
  BY <1>9 DEF Agree
<1>12. e1 = e2
  BY <1>10, <1>11, SameSeq
<1> QED BY <1>2, <1>3, <1>12

\* Marks that do opposite things to one character.
Oppose(a, b) == /\ a.type = "Mark" /\ b.type = "Mark" /\ a.live # b.live
                /\ Positions(a) \cap Positions(b) # {}

LEMMA OpsCommute ==
    ASSUME NEW C, NEW S, AreSites(S), NEW doc \in Seq(Cells(C)),
           NEW a \in Ops(C, S), NEW b \in Ops(C, S), a.site # b.site,
           Fits(a, doc), Fits(b, doc), ~Oppose(a, b)
    PROVE  ApplyOp(ApplyOp(doc, a), Transform(b, a)) = ApplyOp(ApplyOp(doc, b), Transform(a, b))
<1>1. a \in InsOps(C, S) \/ a \in MarkOps(S)
  BY DEF Ops
<1>2. b \in InsOps(C, S) \/ b \in MarkOps(S)
  BY DEF Ops
<1>3. CASE a \in InsOps(C, S) /\ b \in InsOps(C, S)
  BY <1>3, InsertionsCommute
<1>4. CASE a \in MarkOps(S) /\ b \in InsOps(C, S)
  BY <1>4, MarkAndInsertionCommute
<1>5. CASE a \in InsOps(C, S) /\ b \in MarkOps(S)
  BY <1>5, MarkAndInsertionCommute
<1>6. CASE a \in MarkOps(S) /\ b \in MarkOps(S)
  <2>1. a.live = b.live \/ Positions(a) \cap Positions(b) = {}
    BY <1>6, OpTypes DEF Oppose
  <2> QED BY <1>6, <2>1, MarksCommute
<1> QED BY <1>1, <1>2, <1>3, <1>4, <1>5, <1>6

-----------------------------------------------------------------------------
(* Sequences of ops *)

LEMMA ApplyOpsEmpty ==
    ASSUME NEW doc
    PROVE  ApplyOps(doc, << >>) = doc
<1>1. ApplyOps(doc, << >>) = ApplyFold!Fold({}, doc, << >>)
  BY DEF ApplyOps, ApplyFold!Fold, FoldLeft, MapThenFoldSet, ApplyFold!FoldLeft,
         ApplyFold!MapThenFoldSet, Max, ApplyFold!Max
<1> QED BY <1>1, ApplyFold!FoldEmpty

LEMMA ApplyOpsAppend ==
    ASSUME NEW doc, NEW T, NEW ops \in Seq(T), NEW op \in T
    PROVE  ApplyOps(doc, Append(ops, op)) = ApplyOp(ApplyOps(doc, ops), op)
<1>1. \A s : ApplyOps(doc, s) = ApplyFold!Fold({}, doc, s)
  BY DEF ApplyOps, ApplyFold!Fold, FoldLeft, MapThenFoldSet, ApplyFold!FoldLeft,
         ApplyFold!MapThenFoldSet, Max, ApplyFold!Max
<1>2. ApplyFold!Fold({}, doc, Append(ops, op)) = ApplyOp(ApplyFold!Fold({}, doc, ops), op)
  BY ApplyFold!FoldAppend
<1> QED BY <1>1, <1>2

LEMMA ApplyOpsTwo ==
    ASSUME NEW doc, NEW a, NEW b
    PROVE  ApplyOps(doc, <<a, b>>) = ApplyOp(ApplyOp(doc, a), b)
<1>1. PICK T : T = {a, b}
  OBVIOUS
<1>2. a \in T /\ b \in T /\ << >> \in Seq(T) /\ <<a>> \in Seq(T)
  BY <1>1
<1>3. Append(<< >>, a) = <<a>> /\ Append(<<a>>, b) = <<a, b>>
  <2>1. Append(<< >>, a) = <<a>>
    OBVIOUS
  <2>2. PICK s, t : s = <<a>> /\ t = <<a, b>>
    OBVIOUS
  <2>3. s \in Seq(T) /\ t \in Seq(T) /\ Len(s) = 1 /\ Len(t) = 2 /\ s[1] = a
        /\ t[1] = a /\ t[2] = b
    BY <1>2, <2>2
  <2>4. PICK r : r = Append(s, b)
    OBVIOUS
  <2>5. r \in Seq(T) /\ Len(r) = 2 /\ r[1] = a /\ r[2] = b
    <3>1. s \in Seq(T) /\ b \in T /\ Len(s) = 1 /\ s[1] = a
      BY <1>2, <2>3
    <3>2. r \in Seq(T)
      BY <2>4, <3>1, AppendProperties
    <3>3. Len(r) = Len(s) + 1
      BY <2>4, <3>1, AppendProperties
    <3>4. r[Len(s) + 1] = b
      BY <2>4, <3>1, AppendProperties
    <3>5. \A i \in 1..Len(s) : r[i] = s[i]
      BY <2>4, <3>1, AppendProperties
    <3>6. 1 \in 1..Len(s) /\ Len(s) + 1 = 2
      BY <3>1
    <3> QED BY <3>1, <3>2, <3>3, <3>4, <3>5, <3>6
  <2>6. \A i \in 1..Len(r) : r[i] = t[i]
    BY <2>3, <2>5
  <2>7. r = t
    BY <2>3, <2>5, <2>6, SeqEqual
  <2> QED BY <2>1, <2>2, <2>4, <2>7
<1>4. ApplyOps(doc, Append(<< >>, a)) = ApplyOp(ApplyOps(doc, << >>), a)
  BY <1>2, ApplyOpsAppend
<1>5. ApplyOps(doc, Append(<<a>>, b)) = ApplyOp(ApplyOps(doc, <<a>>), b)
  BY <1>2, ApplyOpsAppend
<1> QED BY <1>3, <1>4, <1>5, ApplyOpsEmpty

-----------------------------------------------------------------------------
(* The inverse of an op moves as the op does *)

\* What one segment becomes when it passes an insertion.
LEMMA TransformOneSegment ==
    ASSUME NEW C, NEW S, AreSites(S), NEW seg \in Segs, NEW live, NEW site \in S,
           NEW base \in InsOps(C, S)
    PROVE  Transform(Mark(<<seg>>, live, site), base)
              = Mark(TransformDI(seg, site, base), live, site)
<1>1. PICK d : d = TransformDI(seg, site, base)
  OBVIOUS
<1>2. d \in Seq(Segs)
  BY <1>1, TransformDIShifts
<1>3. PICK m : m = Mark(<<seg>>, live, site)
  OBVIOUS
<1>4. /\ m.type = "Mark" /\ m.segs = <<seg>> /\ m.site = site
      /\ \A f : [m EXCEPT !.segs = f] = Mark(f, live, site)
  BY <1>3 DEF Mark
<1>5. base.type = "Ins"
  BY OpTypes
<1>6. [i \in DOMAIN m.segs |-> TransformDI(m.segs[i], m.site, base)] = <<d>>
  <2>1. DOMAIN m.segs = 1..1 /\ m.segs[1] = seg
    BY <1>4
  <2>2. PICK f : f = [i \in DOMAIN m.segs |-> TransformDI(m.segs[i], m.site, base)]
    OBVIOUS
  <2>3. f = [i \in 1..1 |-> TransformDI(m.segs[i], m.site, base)]
    BY <2>1, <2>2
  <2>4. \A i \in 1..1 : i = 1
    OBVIOUS
  <2>5. f = [i \in 1..1 |-> d]
    BY <1>1, <1>4, <2>1, <2>3, <2>4
  <2>6. <<d>> = [i \in 1..1 |-> d]
    OBVIOUS
  <2> QED BY <2>2, <2>5, <2>6
<1>7. Transform(m, base) = [m EXCEPT !.segs = FlattenSeq(<<d>>)]
  <2>1. m.type = "Mark" /\ base.type = "Ins" /\ "Mark" # "Ins"
    BY <1>4, <1>5
  <2>2. Transform(m, base) = [m EXCEPT !.segs = FlattenSeq(
               [i \in DOMAIN m.segs |-> TransformDI(m.segs[i], m.site, base)])]
    BY <2>1 DEF Transform
  <2> QED BY <1>6, <2>2
<1>8. FlattenSeq(<<d>>) = d
  BY <1>2, FlattenOne
<1> QED BY <1>1, <1>3, <1>4, <1>7, <1>8

LEMMA InverseOfInsertionMoves ==
    ASSUME NEW C, NEW S, AreSites(S), NEW a \in InsOps(C, S), NEW b \in InsOps(C, S),
           a.site # b.site
    PROVE  Transform(Inverted(a), Transform(b, a)) = Inverted(Transform(a, b))
<1>1. PICK p, n, q, m, i, j : /\ p = a.pos /\ n = Len(a.str) /\ q = b.pos /\ m = Len(b.str)
                              /\ i = a.site /\ j = b.site
  OBVIOUS
<1>2. /\ p \in Nat /\ n \in Nat /\ n # 0 /\ q \in Nat /\ m \in Nat
      /\ i \in Int /\ j \in Int /\ i \in S /\ j \in S /\ i # j
  BY <1>1, InsFacts
<1>3. PICK g : g = Seg(p, n)
  OBVIOUS
<1>4. g \in Segs /\ g.pos = p /\ g.len = n
  BY <1>2, <1>3 DEF Seg, Segs
<1>5. Inverted(a) = Mark(<<g>>, FALSE, i)
  BY <1>1, <1>3, OpTypes DEF Inverted
<1>6. PICK a2, b2 : a2 = Transform(a, b) /\ b2 = Transform(b, a)
  OBVIOUS
<1>7. /\ a2 \in InsOps(C, S) /\ a2.str = a.str /\ a2.site = i
      /\ a2.pos = IF PosLessThan(p, q, i, j) THEN p ELSE p + m
  BY <1>1, <1>6, TransformIns
<1>8. /\ b2 \in InsOps(C, S) /\ b2.str = b.str /\ b2.site = j
      /\ b2.pos = IF PosLessThan(q, p, j, i) THEN q ELSE q + n
  BY <1>1, <1>6, TransformIns
<1>9. Inverted(a2) = Mark(<<Seg(a2.pos, n)>>, FALSE, i)
  BY <1>1, <1>7, OpTypes DEF Inverted
<1>10. Transform(Inverted(a), b2) = Mark(TransformDI(g, i, b2), FALSE, i)
  <2>1. PICK f : f = FALSE
    OBVIOUS
  <2>2. Transform(Mark(<<g>>, f, i), b2) = Mark(TransformDI(g, i, b2), f, i)
    BY <1>2, <1>4, <1>8, TransformOneSegment
  <2> QED BY <1>5, <2>1, <2>2
<1>11. TransformDI(g, i, b2) = <<Seg(a2.pos, n)>>
  <2>1. CASE PosLessThan(p, q, i, j)
    <3>1. a2.pos = p /\ b2.pos = q + n /\ PosLessThan(p + n, q + n, i, j)
      BY <1>2, <1>7, <1>8, <2>1 DEF PosLessThan
    <3> QED BY <1>3, <1>4, <1>8, <3>1 DEF TransformDI
  <2>2. CASE ~PosLessThan(p, q, i, j)
    <3>1. /\ a2.pos = p + m /\ b2.pos = q /\ PosLessThan(q, p, j, i)
          /\ ~PosLessThan(p + n, q, i, j)
      BY <1>2, <1>7, <1>8, <2>2 DEF PosLessThan
    <3> QED BY <1>1, <1>3, <1>4, <1>8, <3>1 DEF TransformDI
  <2> QED BY <2>1, <2>2
<1> QED BY <1>6, <1>9, <1>10, <1>11

LEMMA InverseOfMarkMoves ==
    ASSUME NEW C, NEW S, AreSites(S), NEW a \in MarkOps(S), NEW b \in InsOps(C, S)
    PROVE  Transform(Inverted(a), Transform(b, a)) = Inverted(Transform(a, b))
<1>1. Transform(b, a) = b
  BY TransformPastMark
<1>2. PICK f : f = FlattenSeq([i \in DOMAIN a.segs |-> TransformDI(a.segs[i], a.site, b)])
  OBVIOUS
<1>3. a.type = "Mark" /\ b.type = "Ins" /\ "Mark" # "Ins"
  BY OpTypes
<1>4. Transform(a, b) = [a EXCEPT !.segs = f]
  BY <1>2, <1>3 DEF Transform
<1>5. PICK v : v = [a EXCEPT !.live = ~a.live]
  OBVIOUS
<1>6. Inverted(a) = v
  BY <1>3, <1>5 DEF Inverted
<1>7. v.type = "Mark" /\ v.segs = a.segs /\ v.site = a.site
  BY <1>3, <1>5 DEF MarkOps
<1>8. Transform(v, b) = [v EXCEPT !.segs = f]
  BY <1>2, <1>3, <1>7 DEF Transform
<1>9. [a EXCEPT !.segs = f].type = "Mark" /\ [a EXCEPT !.segs = f].live = a.live
  BY <1>3 DEF MarkOps
<1>10. Inverted([a EXCEPT !.segs = f]) = [[a EXCEPT !.segs = f] EXCEPT !.live = ~a.live]
  BY <1>3, <1>9 DEF Inverted
<1>11. [v EXCEPT !.segs = f] = [[a EXCEPT !.segs = f] EXCEPT !.live = ~a.live]
  BY <1>5 DEF MarkOps
<1> QED BY <1>1, <1>4, <1>6, <1>8, <1>10, <1>11

LEMMA InversePastMark ==
    ASSUME NEW C, NEW S, AreSites(S), NEW a \in Ops(C, S), NEW b \in MarkOps(S)
    PROVE  Transform(Inverted(a), Transform(b, a)) = Inverted(Transform(a, b))
<1>1. Transform(b, a) \in MarkOps(S)
  <2>1. CASE a \in InsOps(C, S)
    BY <2>1, TransformMark
  <2>2. CASE a \in MarkOps(S)
    BY <2>2, TransformPastMark
  <2> QED BY <2>1, <2>2 DEF Ops
<1>2. Transform(a, b) = a
  BY TransformPastMark
<1> QED BY <1>1, <1>2, TransformPastMark

LEMMA InverseMoves ==
    ASSUME NEW C, NEW S, AreSites(S), NEW a \in Ops(C, S), NEW b \in Ops(C, S),
           a.site # b.site
    PROVE  Transform(Inverted(a), Transform(b, a)) = Inverted(Transform(a, b))
<1>1. CASE b \in MarkOps(S)
  BY <1>1, InversePastMark
<1>2. CASE b \in InsOps(C, S) /\ a \in InsOps(C, S)
  BY <1>2, InverseOfInsertionMoves
<1>3. CASE b \in InsOps(C, S) /\ a \in MarkOps(S)
  BY <1>3, InverseOfMarkMoves
<1> QED BY <1>1, <1>2, <1>3 DEF Ops

-----------------------------------------------------------------------------
(* The order of the segments of a mark *)

\* Segments in ascending order that do not overlap.
Ascending(s) == \A i, j \in 1..Len(s) : i < j => s[i].pos + s[i].len <= s[j].pos
\* They begin at lo or after it, and end at hi or before it.
Within(s, lo, hi) == \A i \in 1..Len(s) : lo <= s[i].pos /\ s[i].pos + s[i].len <= hi
EndBy(s, hi) == \A i \in 1..Len(s) : s[i].pos + s[i].len <= hi

\* Where an insertion takes the end of a segment.
ShiftEnd(e, p, n) == IF e <= p THEN e ELSE e + n

LEMMA AscendingOne ==
    ASSUME NEW g \in Segs
    PROVE  /\ <<g>> \in Seq(Segs) /\ Ascending(<<g>>)
           /\ \A lo, hi : lo <= g.pos /\ g.pos + g.len <= hi => Within(<<g>>, lo, hi)
<1>1. PICK r : r = <<g>>
  OBVIOUS
<1>2. r \in Seq(Segs) /\ Len(r) = 1 /\ r[1] = g
  BY <1>1
<1>3. \A i \in 1..Len(r) : i = 1
  BY <1>2
<1>4. Ascending(r)
  BY <1>3 DEF Ascending
<1>5. \A lo, hi : lo <= g.pos /\ g.pos + g.len <= hi => Within(r, lo, hi)
  BY <1>2, <1>3 DEF Within
<1> QED BY <1>1, <1>2, <1>4, <1>5

LEMMA AscendingNone ==
    /\ << >> \in Seq(Segs) /\ Ascending(<< >>) /\ EndBy(<< >>, 0)
    /\ \A lo, hi : Within(<< >>, lo, hi)
<1>1. PICK r : r = << >>
  OBVIOUS
<1>2. r \in Seq(Segs) /\ Len(r) = 0
  BY <1>1
<1>3. \A i \in 1..Len(r) : FALSE
  BY <1>2
<1> QED BY <1>1, <1>2, <1>3 DEF Ascending, Within, EndBy

\* Segments after segments.
LEMMA AscendingConcat ==
    ASSUME NEW s \in Seq(Segs), NEW r \in Seq(Segs), NEW h1 \in Int, NEW l2 \in Int,
           NEW h2 \in Int, EndBy(s, h1), Within(r, l2, h2), h1 <= l2,
           Ascending(s), Ascending(r)
    PROVE  /\ Ascending(s \o r)
           /\ h1 <= h2 => EndBy(s \o r, h2)
<1>1. PICK t, m, n : t = s \o r /\ m = Len(s) /\ n = Len(r)
  OBVIOUS
<1>2. m \in Nat /\ n \in Nat
  BY <1>1
<1>3. /\ t \in Seq(Segs) /\ Len(t) = m + n
      /\ \A i \in 1..(m + n) : t[i] = IF i <= m THEN s[i] ELSE r[i - m]
  BY <1>1, ConcatProperties
<1>4. \A i \in 1..m : s[i] \in Segs
  BY <1>1
<1>5. \A i \in 1..n : r[i] \in Segs
  BY <1>1
<1>6. ASSUME NEW i \in 1..(m + n), NEW j \in 1..(m + n), i < j
      PROVE  t[i].pos + t[i].len <= t[j].pos
  <2>1. CASE j <= m
    <3>1. i \in 1..m /\ j \in 1..m /\ t[i] = s[i] /\ t[j] = s[j]
      BY <1>2, <1>3, <1>6, <2>1
    <3> QED BY <1>1, <1>6, <3>1 DEF Ascending
  <2>2. CASE ~(i <= m)
    <3>1. PICK k, l : k = i - m /\ l = j - m
      OBVIOUS
    <3>2. k \in 1..n /\ l \in 1..n /\ k < l /\ ~(j <= m)
      BY <1>2, <1>6, <2>2, <3>1
    <3>3. t[i] = r[k] /\ t[j] = r[l]
      BY <1>3, <2>2, <3>1, <3>2
    <3> QED BY <1>1, <3>2, <3>3 DEF Ascending
  <2>3. CASE i <= m /\ ~(j <= m)
    <3>1. PICK l : l = j - m
      OBVIOUS
    <3>2. l \in 1..n /\ i \in 1..m
      BY <1>2, <2>3, <3>1
    <3>3. t[i] = s[i] /\ t[j] = r[l]
      BY <1>3, <2>3, <3>1
    <3>4. s[i].pos + s[i].len <= h1
      BY <1>1, <3>2 DEF EndBy
    <3>5. l2 <= r[l].pos
      BY <1>1, <3>2 DEF Within
    <3>6. PICK g, f : g = s[i] /\ f = r[l]
      OBVIOUS
    <3>7. g \in Segs /\ f \in Segs
      BY <1>4, <1>5, <3>2, <3>6
    <3>8. g.pos \in Int /\ g.len \in Int /\ f.pos \in Int
      BY <3>7 DEF Segs
    <3>9. g.pos + g.len <= h1 /\ l2 <= f.pos
      BY <3>4, <3>5, <3>6
    <3>10. g.pos + g.len <= f.pos
      BY <3>8, <3>9
    <3> QED BY <3>3, <3>6, <3>10
  <2> QED BY <2>1, <2>2, <2>3
<1>7. Ascending(t)
  BY <1>3, <1>6 DEF Ascending
<1>8. ASSUME h1 <= h2 PROVE EndBy(t, h2)
  <2>1. ASSUME NEW i \in 1..(m + n) PROVE t[i].pos + t[i].len <= h2
    <3>1. CASE i <= m
      <4>1. i \in 1..m /\ t[i] = s[i]
        BY <1>2, <1>3, <3>1
      <4>2. PICK g : g = s[i]
        OBVIOUS
      <4>3. g \in Segs /\ g.pos + g.len <= h1
        BY <1>1, <1>4, <4>1, <4>2 DEF EndBy
      <4>4. g.pos \in Int /\ g.len \in Int
        BY <4>3 DEF Segs
      <4>5. g.pos + g.len <= h2
        BY <1>8, <4>3, <4>4
      <4> QED BY <4>1, <4>2, <4>5
    <3>2. CASE ~(i <= m)
      <4>1. i - m \in 1..n /\ t[i] = r[i - m]
        BY <1>2, <1>3, <3>2
      <4> QED BY <1>1, <4>1 DEF Within
    <3> QED BY <3>1, <3>2
  <2> QED BY <1>3, <2>1 DEF EndBy
<1> QED BY <1>1, <1>7, <1>8

LEMMA WithinConcat ==
    ASSUME NEW s \in Seq(Segs), NEW r \in Seq(Segs), NEW lo \in Int, NEW hi \in Int,
           Within(s, lo, hi), Within(r, lo, hi)
    PROVE  Within(s \o r, lo, hi)
<1>1. PICK t, m, n : t = s \o r /\ m = Len(s) /\ n = Len(r)
  OBVIOUS
<1>2. m \in Nat /\ n \in Nat
  BY <1>1
<1>3. /\ t \in Seq(Segs) /\ Len(t) = m + n
      /\ \A i \in 1..(m + n) : t[i] = IF i <= m THEN s[i] ELSE r[i - m]
  BY <1>1, ConcatProperties
<1>4. ASSUME NEW i \in 1..(m + n) PROVE lo <= t[i].pos /\ t[i].pos + t[i].len <= hi
  <2>1. CASE i <= m
    <3>1. i \in 1..m /\ t[i] = s[i]
      BY <1>2, <1>3, <2>1
    <3> QED BY <1>1, <3>1 DEF Within
  <2>2. CASE ~(i <= m)
    <3>1. i - m \in 1..n /\ t[i] = r[i - m]
      BY <1>2, <1>3, <2>2
    <3> QED BY <1>1, <3>1 DEF Within
  <2> QED BY <2>1, <2>2
<1> QED BY <1>1, <1>3, <1>4 DEF Within

LEMMA SplitPartOrder ==
    ASSUME NEW p \in Nat, NEW l \in Nat, NEW lo \in Int, NEW hi \in Int,
           l # 0 => lo <= p /\ p + l <= hi
    PROVE  Ascending(SplitPart(p, l)) /\ Within(SplitPart(p, l), lo, hi)
<1>1. CASE l = 0
  <2>1. SplitPart(p, l) = << >>
    BY <1>1 DEF SplitPart
  <2> QED BY <2>1, AscendingNone
<1>2. CASE l # 0
  <2>1. PICK g : g = Seg(p, l)
    OBVIOUS
  <2>2. g \in Segs /\ g.pos = p /\ g.len = l
    BY <1>2, <2>1 DEF Seg, Segs
  <2>3. SplitPart(p, l) = <<g>>
    BY <1>2, <2>1 DEF SplitPart
  <2>4. lo <= g.pos /\ g.pos + g.len <= hi
    BY <1>2, <2>2
  <2> QED BY <2>2, <2>3, <2>4, AscendingOne
<1> QED BY <1>1, <1>2

\* The parts of one transformed segment are in order, and lie where the
\* insertion takes its two ends.
LEMMA TransformDIOrder ==
    ASSUME NEW C, NEW S, AreSites(S), NEW seg \in Segs, NEW site \in S,
           NEW base \in InsOps(C, S)
    PROVE  /\ Ascending(TransformDI(seg, site, base))
           /\ Within(TransformDI(seg, site, base), Shift(seg.pos, base.pos, Len(base.str)),
                     ShiftEnd(seg.pos + seg.len, base.pos, Len(base.str)))
<1>1. PICK p, l, q, n, j, e : p = seg.pos /\ l = seg.len /\ q = base.pos /\ n = Len(base.str)
                              /\ j = base.site /\ e = p + l
  OBVIOUS
<1>2. /\ p \in Nat /\ l \in Nat /\ l # 0 /\ e \in Nat /\ q \in Nat /\ j \in Int /\ site \in Int
      /\ n \in Nat
  <2>1. q \in Nat /\ j \in Int /\ n \in Nat
    BY <1>1, InsFacts
  <2> QED BY <1>1, <2>1 DEF Segs, AreSites
<1>3. PICK lo, hi : lo = Shift(p, q, n) /\ hi = ShiftEnd(e, q, n)
  OBVIOUS
<1>4. lo \in Int /\ hi \in Int
  BY <1>2, <1>3 DEF Shift, ShiftEnd
<1>. e = p + l
  BY <1>1
<1>5. PICK d : d = TransformDI(seg, site, base)
  OBVIOUS
<1>6. CASE PosLessThan(e, q, site, j)
  <2>1. d = <<seg>>
    BY <1>1, <1>5, <1>6 DEF TransformDI
  <2>2. lo <= seg.pos /\ seg.pos + seg.len <= hi
    BY <1>1, <1>2, <1>3, <1>6 DEF PosLessThan, Shift, ShiftEnd
  <2> QED BY <1>1, <1>3, <1>5, <2>1, <2>2, AscendingOne
<1>7. CASE ~PosLessThan(e, q, site, j) /\ PosLessThan(q, p, j, site)
  <2>1. PICK g : g = Seg(p + n, l)
    OBVIOUS
  <2>2. d = <<g>>
    BY <1>1, <1>5, <1>7, <2>1 DEF TransformDI
  <2>3. g \in Segs /\ g.pos = p + n /\ g.len = l
    BY <1>2, <2>1 DEF Seg, Segs
  <2>4. lo <= p + n /\ (p + n) + l <= hi
    BY <1>2, <1>3, <1>7 DEF PosLessThan, Shift, ShiftEnd
  <2>5. lo <= g.pos /\ g.pos + g.len <= hi
    BY <2>3, <2>4
  <2> QED BY <1>1, <1>3, <1>5, <2>2, <2>3, <2>5, AscendingOne
<1>8. CASE ~PosLessThan(e, q, site, j) /\ ~PosLessThan(q, p, j, site)
  <2>1. PICK m, u, v : m = q - p /\ u = l - m /\ v = q + n
    OBVIOUS
  <2>2. m \in Nat /\ u \in Nat /\ v \in Nat
    BY <1>2, <1>8, <2>1 DEF PosLessThan
  <2>3. d = SplitPart(p, m) \o SplitPart(v, u)
    BY <1>1, <1>5, <1>8, <2>1 DEF TransformDI
  <2>4. m # 0 => lo <= p /\ p + m <= hi /\ p + m <= q
    BY <1>2, <1>3, <1>8, <2>1, <2>2 DEF PosLessThan, Shift, ShiftEnd
  <2>5. u # 0 => lo <= v /\ v + u <= hi /\ q <= v
    BY <1>2, <1>3, <1>8, <2>1, <2>2 DEF PosLessThan, Shift, ShiftEnd
  <2>6. PICK x, y : x = SplitPart(p, m) /\ y = SplitPart(v, u)
    OBVIOUS
  <2>7. x \in Seq(Segs) /\ y \in Seq(Segs)
    BY <1>2, <2>2, <2>6, SplitPartIs
  <2>8. Ascending(x) /\ Within(x, lo, hi)
    BY <1>2, <1>4, <2>2, <2>4, <2>6, SplitPartOrder
  <2>9. Ascending(y) /\ Within(y, lo, hi)
    BY <1>2, <1>4, <2>2, <2>5, <2>6, SplitPartOrder
  <2>10. EndBy(x, q)
    <3>1. PICK z : z = p
      OBVIOUS
    <3>2. z \in Int /\ q \in Int /\ (m # 0 => z <= p /\ p + m <= q)
      BY <1>2, <2>2, <2>4, <3>1
    <3>3. Within(x, z, q)
      BY <1>2, <2>2, <2>6, <3>2, SplitPartOrder
    <3> QED BY <3>3 DEF Within, EndBy
  <2>11. Within(y, q, v + u)
    <3>1. PICK w : w = v + u
      OBVIOUS
    <3>2. w \in Int /\ q \in Int /\ (u # 0 => q <= v /\ v + u <= w)
      BY <1>2, <2>2, <2>5, <3>1
    <3>3. Within(y, q, w)
      BY <1>2, <2>2, <2>6, <3>2, SplitPartOrder
    <3> QED BY <3>1, <3>3
  <2>12. Ascending(x \o y)
    <3>1. PICK w : w = v + u
      OBVIOUS
    <3>2. w \in Int /\ q \in Int /\ q <= q
      BY <1>2, <2>2, <3>1
    <3> QED BY <2>7, <2>8, <2>9, <2>10, <2>11, <3>1, <3>2, AscendingConcat
  <2>13. Within(x \o y, lo, hi)
    BY <1>4, <2>7, <2>8, <2>9, WithinConcat
  <2> QED BY <1>1, <1>3, <1>5, <2>3, <2>6, <2>12, <2>13
<1> QED BY <1>6, <1>7, <1>8

\* The segments of a mark after an insertion.
TransformedSegs(s, site, base) ==
    FlattenSeq([i \in DOMAIN s |-> TransformDI(s[i], site, base)])

LEMMA TransformedSegsAppend ==
    ASSUME NEW C, NEW S, AreSites(S), NEW s \in Seq(Segs), NEW g \in Segs, NEW site \in S,
           NEW base \in InsOps(C, S)
    PROVE  /\ TransformedSegs(s, site, base) \in Seq(Segs)
           /\ TransformedSegs(Append(s, g), site, base)
                 = TransformedSegs(s, site, base) \o TransformDI(g, site, base)
<1>1. PICK n, t : n = Len(s) /\ t = Append(s, g)
  OBVIOUS
<1>2. /\ n \in Nat /\ DOMAIN s = 1..n /\ DOMAIN t = 1..(n + 1) /\ t[n + 1] = g
      /\ \A i \in 1..n : t[i] = s[i]
  BY <1>1
<1>3. \A i \in 1..n : s[i] \in Segs
  BY <1>1
<1>4. PICK d : d = TransformDI(g, site, base)
  OBVIOUS
<1>5. d \in Seq(Segs)
  BY <1>4, TransformDIShifts
<1>6. PICK ss : ss = [i \in DOMAIN s |-> TransformDI(s[i], site, base)]
  OBVIOUS
<1>7. PICK tt : tt = [i \in DOMAIN t |-> TransformDI(t[i], site, base)]
  OBVIOUS
<1>8. ss \in Seq(Seq(Segs)) /\ Len(ss) = n
  <2>1. \A i \in 1..n : TransformDI(s[i], site, base) \in Seq(Segs)
    BY <1>3, TransformDIShifts
  <2>2. ss \in [1..n -> Seq(Segs)]
    BY <1>2, <1>6, <2>1
  <2> QED BY <1>2, <2>2
<1>9. tt \in Seq(Seq(Segs)) /\ Len(tt) = n + 1
  <2>1. ASSUME NEW i \in 1..(n + 1) PROVE tt[i] \in Seq(Segs)
    <3>1. CASE i \in 1..n
      <4>1. t[i] = s[i] /\ s[i] \in Segs
        BY <1>2, <1>3, <3>1
      <4>2. TransformDI(s[i], site, base) \in Seq(Segs)
        BY <4>1, TransformDIShifts
      <4>3. tt[i] = TransformDI(s[i], site, base)
        BY <1>2, <1>7, <4>1
      <4> QED BY <4>2, <4>3
    <3>2. CASE i \notin 1..n
      <4>1. i = n + 1
        BY <1>2, <3>2
      <4>2. tt[i] = d
        BY <1>2, <1>4, <1>7, <4>1
      <4> QED BY <1>5, <4>2
    <3> QED BY <3>1, <3>2
  <2>2. tt = [i \in 1..(n + 1) |-> tt[i]]
    BY <1>2, <1>7
  <2>3. tt \in [1..(n + 1) -> Seq(Segs)]
    BY <2>1, <2>2
  <2> QED BY <1>2, <2>3
<1>10. tt = Append(ss, d)
  <2>1. PICK r : r = Append(ss, d)
    OBVIOUS
  <2>2. /\ r \in Seq(Seq(Segs)) /\ Len(r) = n + 1 /\ r[n + 1] = d
        /\ \A i \in 1..n : r[i] = ss[i]
    BY <1>5, <1>8, <2>1, AppendProperties
  <2>3. tt[n + 1] = d
    BY <1>2, <1>4, <1>7
  <2>4. \A i \in 1..n : tt[i] = ss[i]
    BY <1>2, <1>6, <1>7
  <2>5. \A i \in 1..(n + 1) : i \in 1..n \/ i = n + 1
    BY <1>2
  <2>6. \A i \in 1..(n + 1) : tt[i] = r[i]
    BY <2>2, <2>3, <2>4, <2>5
  <2>7. PICK m : m = n + 1
    OBVIOUS
  <2>8. Agree(tt, r, m) /\ m = Len(tt) /\ m = Len(r)
    BY <1>9, <2>2, <2>6, <2>7 DEF Agree
  <2>9. tt = r
    BY <1>9, <2>2, <2>8, SameSeq
  <2> QED BY <2>1, <2>9
<1>11. FlattenSeq(tt) = FlattenSeq(ss) \o d
  BY <1>5, <1>8, <1>10, FlattenAppend
<1>12. FlattenSeq(ss) \in Seq(Segs)
  BY <1>8, FlattenElems
<1> QED BY <1>1, <1>4, <1>6, <1>7, <1>11, <1>12 DEF TransformedSegs

LEMMA AscendingAppend ==
    ASSUME NEW s \in Seq(Segs), NEW g \in Segs, Ascending(Append(s, g))
    PROVE  Ascending(s) /\ EndBy(s, g.pos)
<1>1. PICK n, t : n = Len(s) /\ t = Append(s, g)
  OBVIOUS
<1>2. /\ n \in Nat /\ Len(t) = n + 1 /\ t[n + 1] = g
      /\ \A i \in 1..n : t[i] = s[i]
  BY <1>1
<1>3. \A i \in 1..n : i \in 1..(n + 1) /\ n + 1 \in 1..(n + 1) /\ i < n + 1
  BY <1>2
<1>4. Ascending(t)
  BY <1>1
<1>5. ASSUME NEW i \in 1..n, NEW j \in 1..n, i < j PROVE s[i].pos + s[i].len <= s[j].pos
  <2>1. t[i].pos + t[i].len <= t[j].pos
    BY <1>2, <1>3, <1>4, <1>5 DEF Ascending
  <2> QED BY <1>2, <2>1
<1>6. ASSUME NEW i \in 1..n PROVE s[i].pos + s[i].len <= g.pos
  <2>1. t[i].pos + t[i].len <= t[n + 1].pos
    BY <1>2, <1>3, <1>4 DEF Ascending
  <2> QED BY <1>2, <2>1
<1> QED BY <1>1, <1>5, <1>6 DEF Ascending, EndBy

\* A transformed mark is still in order: the parts of a split segment do not
\* reach into the next one.
LEMMA TransformedSegsOrder ==
    ASSUME NEW C, NEW S, AreSites(S), NEW segs \in Seq(Segs), NEW site \in S,
           NEW base \in InsOps(C, S), Ascending(segs)
    PROVE  Ascending(TransformedSegs(segs, site, base))
<1>1. PICK q, n : q = base.pos /\ n = Len(base.str)
  OBVIOUS
<1>2. q \in Nat /\ n \in Nat
  BY <1>1, InsFacts
<1> DEFINE F(s) == TransformedSegs(s, site, base)
           Good(s) == Ascending(s) =>
                         /\ Ascending(F(s))
                         /\ \A h \in Int : EndBy(s, h) => EndBy(F(s), ShiftEnd(h, q, n))
           G == {s \in Seq(Segs) : Good(s)}
<1>3. << >> \in G
  <2>1. PICK r : r = << >>
    OBVIOUS
  <2>2. [i \in DOMAIN r |-> TransformDI(r[i], site, base)] = << >>
    BY <2>1
  <2>3. F(r) = << >>
    BY <2>2, FlattenEmpty DEF TransformedSegs
  <2>4. \A h : EndBy(<< >>, h)
    BY AscendingNone DEF Within, EndBy
  <2> QED BY <2>1, <2>3, <2>4, AscendingNone
<1>4. ASSUME NEW s \in G, NEW g \in Segs PROVE Append(s, g) \in G
  <2>1. s \in Seq(Segs) /\ Append(s, g) \in Seq(Segs)
    OBVIOUS
  <2>2. SUFFICES ASSUME Ascending(Append(s, g))
                 PROVE  /\ Ascending(F(Append(s, g)))
                        /\ \A h \in Int : EndBy(Append(s, g), h) =>
                                             EndBy(F(Append(s, g)), ShiftEnd(h, q, n))
    BY <2>1
  <2>3. PICK x, y : x = F(s) /\ y = TransformDI(g, site, base)
    OBVIOUS
  <2>4. x \in Seq(Segs) /\ F(Append(s, g)) = x \o y
    <3>1. PICK r : r = s
      OBVIOUS
    <3>2. r \in Seq(Segs)
      BY <2>1, <3>1
    <3> HIDE DEF G, Good
    <3>3. /\ TransformedSegs(r, site, base) \in Seq(Segs)
          /\ TransformedSegs(Append(r, g), site, base)
                = TransformedSegs(r, site, base) \o TransformDI(g, site, base)
      BY <3>2, TransformedSegsAppend
    <3> QED BY <2>3, <3>1, <3>3
  <2>5. Ascending(s) /\ EndBy(s, g.pos)
    BY <2>1, <2>2, AscendingAppend
  <2>6. PICK p, e : p = g.pos /\ e = g.pos + g.len
    OBVIOUS
  <2>7. p \in Nat /\ e \in Nat /\ p <= e
    BY <2>6 DEF Segs
  <2>8. PICK h1, l2, h2 : h1 = ShiftEnd(p, q, n) /\ l2 = Shift(p, q, n)
                          /\ h2 = ShiftEnd(e, q, n)
    OBVIOUS
  <2>9. h1 \in Int /\ l2 \in Int /\ h2 \in Int /\ h1 <= l2 /\ h1 <= h2
    BY <1>2, <2>7, <2>8 DEF Shift, ShiftEnd
  <2>10. Ascending(x) /\ EndBy(x, h1)
    <3>1. p \in Int /\ EndBy(s, p) /\ Good(s)
      BY <2>5, <2>6, <2>7
    <3> QED BY <2>3, <2>5, <2>8, <3>1
  <2>11. Ascending(y) /\ Within(y, l2, h2)
    BY <1>1, <2>3, <2>6, <2>8, TransformDIOrder
  <2>12. y \in Seq(Segs)
    BY <2>3, TransformDIShifts
  <2>13. Ascending(x \o y) /\ EndBy(x \o y, h2)
    BY <2>4, <2>9, <2>10, <2>11, <2>12, AscendingConcat
  <2>14. ASSUME NEW h \in Int, EndBy(Append(s, g), h)
         PROVE  EndBy(x \o y, ShiftEnd(h, q, n))
    <3>1. PICK m, t : m = Len(s) + 1 /\ t = Append(s, g)
      OBVIOUS
    <3>2. m \in 1..Len(t) /\ t[m] = g
      BY <2>1, <3>1
    <3>3. e <= h
      BY <2>6, <2>14, <3>1, <3>2 DEF EndBy
    <3>4. PICK k : k = ShiftEnd(h, q, n)
      OBVIOUS
    <3>5. k \in Int /\ h2 <= k
      BY <1>2, <2>7, <2>8, <3>3, <3>4 DEF ShiftEnd
    <3>6. Within(y, l2, k)
      <4>1. \A i \in 1..Len(y) : y[i] \in Segs
        BY <2>12
      <4>2. ASSUME NEW i \in 1..Len(y) PROVE l2 <= y[i].pos /\ y[i].pos + y[i].len <= k
        <5>1. PICK f : f = y[i]
          OBVIOUS
        <5>2. f \in Segs /\ l2 <= f.pos /\ f.pos + f.len <= h2
          BY <2>11, <4>1, <5>1 DEF Within
        <5>3. f.pos \in Int /\ f.len \in Int
          BY <5>2 DEF Segs
        <5>4. f.pos + f.len <= k
          BY <2>9, <3>5, <5>2, <5>3
        <5> QED BY <5>1, <5>2, <5>4
      <4> QED BY <4>2 DEF Within
    <3>7. h1 <= k
      BY <2>9, <3>5
    <3>8. EndBy(x \o y, k)
      BY <2>4, <2>9, <2>10, <2>11, <2>12, <3>5, <3>6, <3>7, AscendingConcat
    <3> QED BY <3>4, <3>8
  <2> QED BY <2>4, <2>13, <2>14
<1>5. G \in SUBSET Seq(Segs)
  OBVIOUS
<1> HIDE DEF G
<1>6. segs \in G
  BY <1>3, <1>4, <1>5, ApplyFold!SeqInduction
<1> QED BY <1>6 DEF G

LEMMA TransformMarkOrder ==
    ASSUME NEW C, NEW S, AreSites(S), NEW op \in MarkOps(S), NEW base \in InsOps(C, S),
           Ascending(op.segs)
    PROVE  Ascending(Transform(op, base).segs)
<1>1. op.segs \in Seq(Segs) /\ op.site \in S
  BY DEF MarkOps
<1>2. PICK f : f = TransformedSegs(op.segs, op.site, base)
  OBVIOUS
<1>3. op.type = "Mark" /\ base.type = "Ins" /\ "Mark" # "Ins"
  BY OpTypes
<1>4. Transform(op, base) = [op EXCEPT !.segs = f]
  BY <1>2, <1>3 DEF Transform, TransformedSegs
<1>5. [op EXCEPT !.segs = f].segs = f
  BY DEF MarkOps
<1>6. Ascending(f)
  BY <1>1, <1>2, TransformedSegsOrder
<1> QED BY <1>4, <1>5, <1>6

-----------------------------------------------------------------------------
(* One op and a sequence of ops, two sequences of ops *)

\* A set of ops that transformation does not lead out of, sites kept.
Closed(O) == \A a, b \in O : Transform(a, b) \in O /\ Transform(a, b).site = a.site

BatchFold == INSTANCE FoldLemmas WITH Op <- LAMBDA p, x, y : Transform(x, y)

\* The ops of a sequence after one op came before them.
Row(op, ops) == [i \in DOMAIN ops |->
                    Transform(ops[i], BatchTransform(op, SubSeq(ops, 1, i - 1)))]

\* One round of quatradic_transform.
QuadStep(acc, op) ==
    LET t == SymmetricTransform(op, acc.ops1)
    IN  [ops1 |-> t.ops, ops2 |-> Append(acc.ops2, t.op)]

QuadFold == INSTANCE FoldLemmas WITH Op <- LAMBDA p, x, y : QuadStep(x, y)

Quad(A, B) == QuadFold!Fold({}, [ops1 |-> A, ops2 |-> << >>], B)

LEMMA SymmetricIs ==
    ASSUME NEW op, NEW ops
    PROVE  /\ SymmetricTransform(op, ops).op = BatchTransform(op, ops)
           /\ SymmetricTransform(op, ops).ops = Row(op, ops)
BY DEF SymmetricTransform, Row

LEMMA BatchEmpty ==
    ASSUME NEW op
    PROVE  BatchTransform(op, << >>) = op
<1>1. BatchTransform(op, << >>) = BatchFold!Fold({}, op, << >>)
  BY DEF BatchTransform, BatchFold!Fold, FoldLeft, MapThenFoldSet, BatchFold!FoldLeft,
         BatchFold!MapThenFoldSet, Max, BatchFold!Max
<1> QED BY <1>1, BatchFold!FoldEmpty

LEMMA BatchAppend ==
    ASSUME NEW op, NEW O, NEW ops \in Seq(O), NEW b \in O
    PROVE  BatchTransform(op, Append(ops, b)) = Transform(BatchTransform(op, ops), b)
<1>1. \A s : BatchTransform(op, s) = BatchFold!Fold({}, op, s)
  BY DEF BatchTransform, BatchFold!Fold, FoldLeft, MapThenFoldSet, BatchFold!FoldLeft,
         BatchFold!MapThenFoldSet, Max, BatchFold!Max
<1>2. BatchFold!Fold({}, op, Append(ops, b)) = Transform(BatchFold!Fold({}, op, ops), b)
  BY BatchFold!FoldAppend
<1> QED BY <1>1, <1>2

LEMMA QuadIs ==
    ASSUME NEW A, NEW B
    PROVE  QuatradicTransform(A, B) = Quad(A, B).ops2
BY DEF QuatradicTransform, Quad, QuadStep, QuadFold!Fold, FoldLeft, MapThenFoldSet,
       QuadFold!FoldLeft, QuadFold!MapThenFoldSet, Max, QuadFold!Max

LEMMA QuadEmpty ==
    ASSUME NEW A
    PROVE  Quad(A, << >>) = [ops1 |-> A, ops2 |-> << >>]
BY QuadFold!FoldEmpty DEF Quad

LEMMA QuadAppend ==
    ASSUME NEW A, NEW O, NEW B \in Seq(O), NEW b \in O
    PROVE  Quad(A, Append(B, b))
              = [ops1 |-> Row(b, Quad(A, B).ops1),
                 ops2 |-> Append(Quad(A, B).ops2, BatchTransform(b, Quad(A, B).ops1))]
<1>1. Quad(A, Append(B, b)) = QuadStep(Quad(A, B), b)
  BY QuadFold!FoldAppend DEF Quad
<1>2. \A acc : QuadStep(acc, b) = [ops1 |-> Row(b, acc.ops1),
                                   ops2 |-> Append(acc.ops2, BatchTransform(b, acc.ops1))]
  BY SymmetricIs DEF QuadStep
<1> QED BY <1>1, <1>2

LEMMA BatchType ==
    ASSUME NEW O, Closed(O), NEW op \in O, NEW ops \in Seq(O)
    PROVE  BatchTransform(op, ops) \in O /\ BatchTransform(op, ops).site = op.site
<1> DEFINE G == {s \in Seq(O) : /\ BatchTransform(op, s) \in O
                                /\ BatchTransform(op, s).site = op.site}
<1>1. << >> \in G
  BY BatchEmpty
<1>2. ASSUME NEW s \in G, NEW b \in O PROVE Append(s, b) \in G
  <2>1. s \in Seq(O) /\ Append(s, b) \in Seq(O)
    OBVIOUS
  <2>2. PICK x : x = BatchTransform(op, s)
    OBVIOUS
  <2>3. x \in O /\ x.site = op.site
    BY <2>2
  <2>4. BatchTransform(op, Append(s, b)) = Transform(x, b)
    BY <2>1, <2>2, BatchAppend
  <2>5. Transform(x, b) \in O /\ Transform(x, b).site = op.site
    BY <2>3 DEF Closed
  <2> QED BY <2>1, <2>4, <2>5
<1>3. G \in SUBSET Seq(O)
  OBVIOUS
<1> HIDE DEF G
<1>4. ops \in G
  BY <1>1, <1>2, <1>3, ApplyFold!SeqInduction
<1> QED BY <1>4 DEF G

LEMMA RowEmpty ==
    ASSUME NEW op
    PROVE  Row(op, << >>) = << >>
BY DEF Row

\* The elements of a row keep their sites, and each depends on the elements
\* before it only.
LEMMA RowElement ==
    ASSUME NEW O, Closed(O), NEW op \in O, NEW ops \in Seq(O), NEW i \in 1..Len(ops)
    PROVE  /\ Row(op, ops)[i] = Transform(ops[i], BatchTransform(op, SubSeq(ops, 1, i - 1)))
           /\ Row(op, ops)[i] \in O /\ Row(op, ops)[i].site = ops[i].site
<1>1. DOMAIN ops = 1..Len(ops) /\ ops[i] \in O
  OBVIOUS
<1>2. PICK s : s = SubSeq(ops, 1, i - 1)
  OBVIOUS
<1>3. s \in Seq(O)
  BY <1>1, <1>2, SubSeqProperties
<1>4. PICK x : x = BatchTransform(op, s)
  OBVIOUS
<1>5. x \in O
  BY <1>3, <1>4, BatchType
<1>6. Row(op, ops)[i] = Transform(ops[i], x)
  BY <1>1, <1>2, <1>4 DEF Row
<1>7. Transform(ops[i], x) \in O /\ Transform(ops[i], x).site = ops[i].site
  BY <1>1, <1>5 DEF Closed
<1> QED BY <1>2, <1>4, <1>6, <1>7

LEMMA RowType ==
    ASSUME NEW O, Closed(O), NEW op \in O, NEW ops \in Seq(O)
    PROVE  Row(op, ops) \in Seq(O) /\ Len(Row(op, ops)) = Len(ops)
<1>1. PICK n, r : n = Len(ops) /\ r = Row(op, ops)
  OBVIOUS
<1>2. n \in Nat /\ DOMAIN ops = 1..n
  BY <1>1
<1>3. r = [i \in 1..n |-> r[i]]
  BY <1>1, <1>2 DEF Row
<1>4. \A i \in 1..n : r[i] \in O
  BY <1>1, RowElement
<1>5. r \in [1..n -> O]
  BY <1>3, <1>4
<1> QED BY <1>1, <1>2, <1>5

\* What a sequence was before its last element.
LEMMA AppendPrefix ==
    ASSUME NEW O, NEW s \in Seq(O), NEW e \in O, NEW i \in 1..(Len(s) + 1)
    PROVE  SubSeq(Append(s, e), 1, i - 1) = SubSeq(s, 1, i - 1)
<1>1. PICK n, m, t : n = Len(s) /\ m = i - 1 /\ t = Append(s, e)
  OBVIOUS
<1>2. n \in Nat /\ m \in 0..n
  BY <1>1
<1>3. t \in Seq(O) /\ Len(t) = n + 1 /\ \A k \in 1..n : t[k] = s[k]
  BY <1>1
<1>4. PICK x, y : x = SubSeq(t, 1, m) /\ y = SubSeq(s, 1, m)
  OBVIOUS
<1>5. x \in Seq(O) /\ Len(x) = m /\ \A k \in 1..m : x[k] = t[k]
  BY <1>2, <1>3, <1>4, SubSeqProperties
<1>6. y \in Seq(O) /\ Len(y) = m /\ \A k \in 1..m : y[k] = s[k]
  BY <1>1, <1>2, <1>4, SubSeqProperties
<1>7. \A k \in 1..m : k \in 1..n
  BY <1>2
<1>8. Agree(x, y, m)
  BY <1>3, <1>5, <1>6, <1>7 DEF Agree
<1>9. x = y
  BY <1>5, <1>6, <1>8, SameSeq
<1> QED BY <1>1, <1>4, <1>9

LEMMA AppendAllBut ==
    ASSUME NEW O, NEW s \in Seq(O), NEW e \in O
    PROVE  SubSeq(Append(s, e), 1, Len(s)) = s
<1>1. PICK n, t : n = Len(s) /\ t = Append(s, e)
  OBVIOUS
<1>2. n \in Nat /\ t \in Seq(O) /\ Len(t) = n + 1 /\ \A k \in 1..n : t[k] = s[k]
  BY <1>1
<1>3. PICK x : x = SubSeq(t, 1, n)
  OBVIOUS
<1>4. x \in Seq(O) /\ Len(x) = n /\ \A k \in 1..n : x[k] = t[k]
  BY <1>2, <1>3, SubSeqProperties
<1>5. Agree(x, s, n)
  BY <1>2, <1>4 DEF Agree
<1>6. x = s
  BY <1>1, <1>4, <1>5, SameSeq
<1> QED BY <1>1, <1>3, <1>6

LEMMA RowAppend ==
    ASSUME NEW O, Closed(O), NEW op \in O, NEW ops \in Seq(O), NEW b \in O
    PROVE  Row(op, Append(ops, b)) = Append(Row(op, ops), Transform(b, BatchTransform(op, ops)))
<1>1. PICK n, t, m : n = Len(ops) /\ t = Append(ops, b) /\ m = n + 1
  OBVIOUS
<1>2. /\ n \in Nat /\ m \in Nat /\ t \in Seq(O) /\ Len(t) = m /\ t[m] = b
      /\ \A i \in 1..n : t[i] = ops[i]
  BY <1>1
<1>3. PICK r, u : r = Row(op, t) /\ u = Row(op, ops)
  OBVIOUS
<1>4. r \in Seq(O) /\ Len(r) = m /\ u \in Seq(O) /\ Len(u) = n
  BY <1>1, <1>2, <1>3, RowType
<1>5. PICK x : x = Transform(b, BatchTransform(op, ops))
  OBVIOUS
<1>6. x \in O
  <2>1. BatchTransform(op, ops) \in O
    BY BatchType
  <2> QED BY <1>5, <2>1 DEF Closed
<1>7. PICK v : v = Append(u, x)
  OBVIOUS
<1>8. v \in Seq(O) /\ Len(v) = m /\ v[m] = x /\ \A i \in 1..n : v[i] = u[i]
  BY <1>1, <1>4, <1>6, <1>7
<1>9. ASSUME NEW i \in 1..n PROVE r[i] = v[i]
  <2>1. i \in 1..m /\ i \in 1..(n + 1)
    BY <1>1, <1>2
  <2>2. r[i] = Transform(t[i], BatchTransform(op, SubSeq(t, 1, i - 1)))
    BY <1>2, <1>3, <2>1, RowElement
  <2>3. u[i] = Transform(ops[i], BatchTransform(op, SubSeq(ops, 1, i - 1)))
    BY <1>1, <1>3, RowElement
  <2>4. SubSeq(t, 1, i - 1) = SubSeq(ops, 1, i - 1)
    BY <1>1, <2>1, AppendPrefix
  <2> QED BY <1>2, <1>8, <2>2, <2>3, <2>4
<1>10. r[m] = v[m]
  <2>1. m \in 1..Len(t) /\ m - 1 = n
    BY <1>1, <1>2
  <2>2. r[m] = Transform(t[m], BatchTransform(op, SubSeq(t, 1, m - 1)))
    <3>1. t \in Seq(O) /\ r = Row(op, t)
      BY <1>2, <1>3
    <3> QED BY <2>1, <3>1, RowElement
  <2>3. SubSeq(t, 1, m - 1) = ops
    BY <1>1, <2>1, AppendAllBut
  <2> QED BY <1>2, <1>5, <1>8, <2>2, <2>3
<1>11. Agree(r, v, m)
  <2>1. \A i \in 1..m : i \in 1..n \/ i = m
    BY <1>1, <1>2
  <2> QED BY <1>9, <1>10, <2>1 DEF Agree
<1>12. r = v
  BY <1>4, <1>8, <1>11, SameSeq
<1> QED BY <1>1, <1>3, <1>5, <1>7, <1>12

LEMMA QuadType ==
    ASSUME NEW O, Closed(O), NEW A \in Seq(O), NEW B \in Seq(O)
    PROVE  /\ Quad(A, B).ops1 \in Seq(O) /\ Len(Quad(A, B).ops1) = Len(A)
           /\ Quad(A, B).ops2 \in Seq(O) /\ Len(Quad(A, B).ops2) = Len(B)
<1> DEFINE G == {s \in Seq(O) :
                    /\ Quad(A, s).ops1 \in Seq(O) /\ Len(Quad(A, s).ops1) = Len(A)
                    /\ Quad(A, s).ops2 \in Seq(O) /\ Len(Quad(A, s).ops2) = Len(s)}
<1>1. << >> \in G
  <2>1. Quad(A, << >>).ops1 = A /\ Quad(A, << >>).ops2 = << >>
    BY QuadEmpty
  <2>2. PICK e : e = << >>
    OBVIOUS
  <2>3. e \in Seq(O) /\ Quad(A, e).ops1 = A /\ Quad(A, e).ops2 = e
    BY <2>1, <2>2
  <2>4. e \in G
    BY <2>3
  <2> QED BY <2>2, <2>4
<1>2. ASSUME NEW s \in G, NEW b \in O PROVE Append(s, b) \in G
  <2>1. s \in Seq(O) /\ Append(s, b) \in Seq(O) /\ Len(Append(s, b)) = Len(s) + 1
    OBVIOUS
  <2>2. PICK x, y : x = Quad(A, s).ops1 /\ y = Quad(A, s).ops2
    OBVIOUS
  <2>3. x \in Seq(O) /\ Len(x) = Len(A) /\ y \in Seq(O) /\ Len(y) = Len(s)
    BY <2>2
  <2>4. PICK z : z = BatchTransform(b, x)
    OBVIOUS
  <2>5. z \in O
    BY <2>3, <2>4, BatchType
  <2>6. Row(b, x) \in Seq(O) /\ Len(Row(b, x)) = Len(A)
    BY <2>3, RowType
  <2>7. Append(y, z) \in Seq(O) /\ Len(Append(y, z)) = Len(s) + 1
    BY <2>3, <2>5
  <2>8. Quad(A, Append(s, b)) = [ops1 |-> Row(b, x), ops2 |-> Append(y, z)]
    BY <2>1, <2>2, <2>4, QuadAppend
  <2>9. Quad(A, Append(s, b)).ops1 = Row(b, x) /\ Quad(A, Append(s, b)).ops2 = Append(y, z)
    BY <2>8
  <2> QED BY <2>1, <2>6, <2>7, <2>9
<1>3. G \in SUBSET Seq(O)
  OBVIOUS
<1> HIDE DEF G
<1>4. B \in G
  BY <1>1, <1>2, <1>3, ApplyFold!SeqInduction
<1> QED BY <1>4 DEF G

\* quatradic_transform, one op more on the other side: the rectangle has
\* one row more.
LEMMA QuadRow ==
    ASSUME NEW O, Closed(O), NEW A \in Seq(O), NEW a \in O, NEW B \in Seq(O)
    PROVE  /\ Quad(Append(A, a), B).ops1
                 = Append(Quad(A, B).ops1, BatchTransform(a, Quad(A, B).ops2))
           /\ Quad(Append(A, a), B).ops2 = Row(a, Quad(A, B).ops2)
<1> DEFINE Aa == Append(A, a)
           G == {s \in Seq(O) :
                    /\ Quad(Aa, s).ops1
                          = Append(Quad(A, s).ops1, BatchTransform(a, Quad(A, s).ops2))
                    /\ Quad(Aa, s).ops2 = Row(a, Quad(A, s).ops2)}
<1>1. << >> \in G
  <2>1. \A X : Quad(X, << >>).ops1 = X /\ Quad(X, << >>).ops2 = << >>
    BY QuadEmpty
  <2>2. PICK e : e = << >>
    OBVIOUS
  <2>3. /\ e \in Seq(O) /\ Quad(A, e).ops1 = A /\ Quad(A, e).ops2 = e
        /\ Quad(Aa, e).ops1 = Aa /\ Quad(Aa, e).ops2 = e
        /\ BatchTransform(a, e) = a /\ Row(a, e) = e
    <3>1. e \in Seq(O)
      BY <2>2
    <3>2. BatchTransform(a, e) = a /\ Row(a, e) = e
      BY <2>2, BatchEmpty, RowEmpty
    <3> HIDE DEF Aa, G
    <3>3. /\ Quad(A, e).ops1 = A /\ Quad(A, e).ops2 = e
          /\ Quad(Aa, e).ops1 = Aa /\ Quad(Aa, e).ops2 = e
      BY <2>1, <2>2
    <3> QED BY <3>1, <3>2, <3>3
  <2>4. e \in G
    BY <2>3
  <2> QED BY <2>2, <2>4
<1>2. ASSUME NEW s \in G, NEW b \in O PROVE Append(s, b) \in G
  <2>1. s \in Seq(O) /\ Append(s, b) \in Seq(O)
    OBVIOUS
  <2>2. PICK x, y : x = Quad(A, s).ops1 /\ y = Quad(A, s).ops2
    OBVIOUS
  <2>3. x \in Seq(O) /\ y \in Seq(O)
    BY <2>1, <2>2, QuadType
  <2>4. PICK a1, b1 : a1 = BatchTransform(a, y) /\ b1 = BatchTransform(b, x)
    OBVIOUS
  <2>5. a1 \in O /\ b1 \in O
    BY <2>3, <2>4, BatchType
  <2>6. Quad(Aa, s).ops1 = Append(x, a1) /\ Quad(Aa, s).ops2 = Row(a, y)
    BY <2>2, <2>4
  <2> HIDE DEF Aa
  <2>7. /\ Quad(A, Append(s, b)).ops1 = Row(b, x)
        /\ Quad(A, Append(s, b)).ops2 = Append(y, b1)
    BY <2>1, <2>2, <2>4, QuadAppend
  <2>8. /\ Quad(Aa, Append(s, b)).ops1 = Row(b, Append(x, a1))
        /\ Quad(Aa, Append(s, b)).ops2
              = Append(Row(a, y), BatchTransform(b, Append(x, a1)))
    <3>1. PICK v : v = Aa
      OBVIOUS
    <3>2. PICK t : t = s
      OBVIOUS
    <3>3. t \in Seq(O)
      BY <2>1, <3>2
    <3>4. Quad(v, t).ops1 = Append(x, a1) /\ Quad(v, t).ops2 = Row(a, y)
      BY <2>6, <3>1, <3>2
    <3> HIDE DEF G
    <3>5. Quad(v, Append(t, b))
             = [ops1 |-> Row(b, Quad(v, t).ops1),
                ops2 |-> Append(Quad(v, t).ops2, BatchTransform(b, Quad(v, t).ops1))]
      BY <3>3, QuadAppend
    <3> QED BY <3>1, <3>2, <3>4, <3>5
  <2>9. Row(b, Append(x, a1)) = Append(Row(b, x), Transform(a1, b1))
    BY <2>3, <2>4, <2>5, RowAppend
  <2>10. BatchTransform(a, Append(y, b1)) = Transform(a1, b1)
    BY <2>3, <2>4, <2>5, BatchAppend
  <2>11. BatchTransform(b, Append(x, a1)) = Transform(b1, a1)
    BY <2>3, <2>4, <2>5, BatchAppend
  <2>12. Row(a, Append(y, b1)) = Append(Row(a, y), Transform(b1, a1))
    BY <2>3, <2>4, <2>5, RowAppend
  <2> QED BY <2>1, <2>7, <2>8, <2>9, <2>10, <2>11, <2>12
<1>3. G \in SUBSET Seq(O)
  OBVIOUS
<1> HIDE DEF G
<1>4. B \in G
  BY <1>1, <1>2, <1>3, ApplyFold!SeqInduction
<1> QED BY <1>4 DEF G

\* quatradic_transform past no op, and past one op more.
LEMMA TransportEmpty ==
    ASSUME NEW O, Closed(O), NEW B \in Seq(O)
    PROVE  QuatradicTransform(<< >>, B) = B
<1> DEFINE G == {s \in Seq(O) : Quad(<< >>, s) = [ops1 |-> << >>, ops2 |-> s]}
<1>1. << >> \in G
  BY QuadEmpty
<1>2. ASSUME NEW s \in G, NEW b \in O PROVE Append(s, b) \in G
  <2>1. s \in Seq(O) /\ Append(s, b) \in Seq(O)
    OBVIOUS
  <2>2. Quad(<< >>, s).ops1 = << >> /\ Quad(<< >>, s).ops2 = s
    OBVIOUS
  <2>3. Quad(<< >>, Append(s, b)) = [ops1 |-> Row(b, << >>),
                                     ops2 |-> Append(s, BatchTransform(b, << >>))]
    BY <2>1, <2>2, QuadAppend
  <2> QED BY <2>1, <2>3, RowEmpty, BatchEmpty
<1>3. G \in SUBSET Seq(O)
  OBVIOUS
<1> HIDE DEF G
<1>4. B \in G
  BY <1>1, <1>2, <1>3, ApplyFold!SeqInduction
<1> QED BY <1>4, QuadIs DEF G

LEMMA TransportAppend ==
    ASSUME NEW O, Closed(O), NEW A \in Seq(O), NEW a \in O, NEW B \in Seq(O)
    PROVE  QuatradicTransform(Append(A, a), B) = Row(a, QuatradicTransform(A, B))
BY QuadRow, QuadIs

LEMMA TransportType ==
    ASSUME NEW O, Closed(O), NEW A \in Seq(O), NEW B \in Seq(O)
    PROVE  /\ QuatradicTransform(A, B) \in Seq(O)
           /\ Len(QuatradicTransform(A, B)) = Len(B)
BY QuadType, QuadIs

\* It keeps the site of every op.
LEMMA TransportSites ==
    ASSUME NEW O, Closed(O), NEW A \in Seq(O), NEW B \in Seq(O)
    PROVE  \A i \in 1..Len(B) : QuatradicTransform(A, B)[i].site = B[i].site
<1> DEFINE G == {s \in Seq(O) :
                    \A i \in 1..Len(B) : QuatradicTransform(s, B)[i].site = B[i].site}
<1>1. << >> \in G
  BY TransportEmpty
<1>2. ASSUME NEW s \in G, NEW a \in O PROVE Append(s, a) \in G
  <2>1. s \in Seq(O) /\ Append(s, a) \in Seq(O)
    OBVIOUS
  <2>2. PICK x : x = QuatradicTransform(s, B)
    OBVIOUS
  <2>3. x \in Seq(O) /\ Len(x) = Len(B)
    BY <2>1, <2>2, TransportType
  <2>4. QuatradicTransform(Append(s, a), B) = Row(a, x)
    BY <2>1, <2>2, TransportAppend
  <2>5. \A i \in 1..Len(x) : Row(a, x)[i].site = x[i].site
    BY <2>3, RowElement
  <2>6. \A i \in 1..Len(B) : x[i].site = B[i].site
    BY <2>2
  <2> QED BY <2>1, <2>3, <2>4, <2>5, <2>6
<1>3. G \in SUBSET Seq(O)
  OBVIOUS
<1> HIDE DEF G
<1>4. A \in G
  BY <1>1, <1>2, <1>3, ApplyFold!SeqInduction
<1> QED BY <1>4 DEF G

-----------------------------------------------------------------------------
(* One op against a sequence of ops on a document *)

\* Ops that commute in pairs when two sites make them on one document.
Confluent(O, C) ==
    \A D \in Seq(Cells(C)), a, b \in O :
        Fits(a, D) =>
            /\ ApplyOp(D, a) \in Seq(Cells(C))
            /\ Fits(b, D) => Fits(Transform(b, a), ApplyOp(D, a))
            /\ (Fits(b, D) /\ a.site # b.site) =>
                  ApplyOp(ApplyOp(D, a), Transform(b, a))
                     = ApplyOp(ApplyOp(D, b), Transform(a, b))

\* Every op of a sequence makes sense where it is applied.
Valid(D, L) == \A i \in 1..Len(L) : Fits(L[i], ApplyOps(D, SubSeq(L, 1, i - 1)))

\* The ops are of other sites.
OtherSite(a, L) == \A i \in 1..Len(L) : L[i].site # a.site

LEMMA ValidEmpty ==
    ASSUME NEW D
    PROVE  Valid(D, << >>)
<1>1. Len(<< >>) = 0
  OBVIOUS
<1> QED BY <1>1 DEF Valid

LEMMA ValidAppend ==
    ASSUME NEW O, NEW D, NEW L \in Seq(O), NEW l \in O
    PROVE  Valid(D, Append(L, l)) <=> Valid(D, L) /\ Fits(l, ApplyOps(D, L))
<1>1. PICK n, m, t : n = Len(L) /\ m = n + 1 /\ t = Append(L, l)
  OBVIOUS
<1>2. /\ n \in Nat /\ m \in Nat /\ t \in Seq(O) /\ Len(t) = m /\ t[m] = l
      /\ \A i \in 1..n : t[i] = L[i]
  BY <1>1
<1>3. \A i \in 1..n : SubSeq(t, 1, i - 1) = SubSeq(L, 1, i - 1)
  <2> SUFFICES ASSUME NEW i \in 1..n PROVE SubSeq(t, 1, i - 1) = SubSeq(L, 1, i - 1)
    OBVIOUS
  <2>1. i \in 1..(Len(L) + 1)
    BY <1>1, <1>2
  <2> QED BY <1>1, <2>1, AppendPrefix
<1>4. SubSeq(t, 1, m - 1) = L
  <2>1. m - 1 = n
    BY <1>1, <1>2
  <2> QED BY <1>1, <2>1, AppendAllBut
<1>5. \A i \in 1..m : i \in 1..n \/ i = m
  BY <1>1, <1>2
<1>6. \A i \in 1..n : i \in 1..m
  BY <1>1, <1>2
<1>7. m \in 1..m
  BY <1>1, <1>2
<1>8. ASSUME Valid(D, t) PROVE Valid(D, L) /\ Fits(l, ApplyOps(D, L))
  <2>1. \A i \in 1..m : Fits(t[i], ApplyOps(D, SubSeq(t, 1, i - 1)))
    BY <1>2, <1>8 DEF Valid
  <2>2. \A i \in 1..n : Fits(L[i], ApplyOps(D, SubSeq(L, 1, i - 1)))
    BY <1>2, <1>3, <1>6, <2>1
  <2>3. Fits(t[m], ApplyOps(D, SubSeq(t, 1, m - 1)))
    BY <1>7, <2>1
  <2> QED BY <1>1, <1>2, <1>4, <2>2, <2>3 DEF Valid
<1>9. ASSUME Valid(D, L), Fits(l, ApplyOps(D, L)) PROVE Valid(D, t)
  <2>1. \A i \in 1..n : Fits(L[i], ApplyOps(D, SubSeq(L, 1, i - 1)))
    BY <1>1, <1>9 DEF Valid
  <2>2. \A i \in 1..n : Fits(t[i], ApplyOps(D, SubSeq(t, 1, i - 1)))
    BY <1>2, <1>3, <2>1
  <2>3. Fits(t[m], ApplyOps(D, SubSeq(t, 1, m - 1)))
    BY <1>2, <1>4, <1>9
  <2>4. \A i \in 1..m : Fits(t[i], ApplyOps(D, SubSeq(t, 1, i - 1)))
    BY <1>5, <2>2, <2>3
  <2> QED BY <1>2, <2>4 DEF Valid
<1> QED BY <1>1, <1>8, <1>9

LEMMA ApplyOpsType ==
    ASSUME NEW C, NEW O, Confluent(O, C), NEW D \in Seq(Cells(C)), NEW L \in Seq(O),
           Valid(D, L)
    PROVE  ApplyOps(D, L) \in Seq(Cells(C))
<1> DEFINE G == {s \in Seq(O) : Valid(D, s) => ApplyOps(D, s) \in Seq(Cells(C))}
<1>1. << >> \in G
  BY ApplyOpsEmpty
<1>2. ASSUME NEW s \in G, NEW b \in O PROVE Append(s, b) \in G
  <2>1. s \in Seq(O) /\ Append(s, b) \in Seq(O)
    OBVIOUS
  <2>2. SUFFICES ASSUME Valid(D, Append(s, b))
                 PROVE  ApplyOps(D, Append(s, b)) \in Seq(Cells(C))
    BY <2>1
  <2>3. Valid(D, s) /\ Fits(b, ApplyOps(D, s))
    BY <2>1, <2>2, ValidAppend
  <2>4. PICK E : E = ApplyOps(D, s)
    OBVIOUS
  <2>5. E \in Seq(Cells(C)) /\ Fits(b, E)
    BY <2>3, <2>4
  <2>6. ApplyOps(D, Append(s, b)) = ApplyOp(E, b)
    BY <2>1, <2>4, ApplyOpsAppend
  <2>7. ApplyOp(E, b) \in Seq(Cells(C))
    BY <2>5 DEF Confluent
  <2> QED BY <2>6, <2>7
<1>3. G \in SUBSET Seq(O)
  OBVIOUS
<1> HIDE DEF G
<1>4. L \in G
  BY <1>1, <1>2, <1>3, ApplyFold!SeqInduction
<1> QED BY <1>4 DEF G

\* process_remote_op: an op transformed past a sequence and the sequence
\* transformed past the op give the same document in either order.
LEMMA Square ==
    ASSUME NEW C, NEW O, Closed(O), Confluent(O, C), NEW D \in Seq(Cells(C)), NEW a \in O,
           NEW L \in Seq(O), Fits(a, D), Valid(D, L), OtherSite(a, L)
    PROVE  /\ Fits(BatchTransform(a, L), ApplyOps(D, L))
           /\ Valid(ApplyOp(D, a), Row(a, L))
           /\ ApplyOp(ApplyOps(D, L), BatchTransform(a, L))
                 = ApplyOps(ApplyOp(D, a), Row(a, L))
<1> DEFINE Sq(s) == /\ Fits(BatchTransform(a, s), ApplyOps(D, s))
                    /\ Valid(ApplyOp(D, a), Row(a, s))
                    /\ ApplyOp(ApplyOps(D, s), BatchTransform(a, s))
                          = ApplyOps(ApplyOp(D, a), Row(a, s))
           G == {s \in Seq(O) : Valid(D, s) /\ OtherSite(a, s) => Sq(s)}
<1>1. << >> \in G
  <2>1. PICK e : e = << >>
    OBVIOUS
  <2>2. e \in Seq(O)
    BY <2>1
  <2>3. BatchTransform(a, e) = a /\ Row(a, e) = e /\ \A E : ApplyOps(E, e) = E
    BY <2>1, BatchEmpty, RowEmpty, ApplyOpsEmpty
  <2>4. \A E : Valid(E, e)
    BY <2>1, ValidEmpty
  <2>5. Sq(e)
    BY <2>3, <2>4
  <2> HIDE DEF Sq
  <2>6. e \in G
    BY <2>2, <2>5
  <2> HIDE DEF G
  <2> QED BY <2>1, <2>6
<1>2. ASSUME NEW s \in G, NEW b \in O PROVE Append(s, b) \in G
  <2>1. s \in Seq(O) /\ Append(s, b) \in Seq(O)
    OBVIOUS
  <2>2. SUFFICES ASSUME Valid(D, Append(s, b)), OtherSite(a, Append(s, b))
                 PROVE  Sq(Append(s, b))
    BY <2>1
  <2>3. Valid(D, s) /\ Fits(b, ApplyOps(D, s))
    BY <2>1, <2>2, ValidAppend
  <2>4. OtherSite(a, s) /\ b.site # a.site
    <3>1. PICK n, m, t : n = Len(s) /\ m = n + 1 /\ t = Append(s, b)
      OBVIOUS
    <3>2. /\ n \in Nat /\ Len(t) = m /\ t[m] = b /\ m \in 1..m
          /\ \A i \in 1..n : i \in 1..m /\ t[i] = s[i]
      BY <2>1, <3>1
    <3> QED BY <2>2, <3>1, <3>2 DEF OtherSite
  <2>5. Sq(s)
    BY <2>3, <2>4
  <2>6. PICK E, x, z : E = ApplyOps(D, s) /\ x = BatchTransform(a, s) /\ z = Row(a, s)
    OBVIOUS
  <2>7. x \in O /\ x.site = a.site
    BY <2>1, <2>6, BatchType
  <2>8. z \in Seq(O)
    BY <2>1, <2>6, RowType
  <2>9. E \in Seq(Cells(C))
    BY <2>1, <2>3, <2>6, ApplyOpsType
  <2>10. Fits(x, E) /\ Fits(b, E) /\ b.site # x.site
    BY <2>3, <2>4, <2>5, <2>6, <2>7
  <2>11. /\ Fits(Transform(x, b), ApplyOp(E, b))
         /\ Fits(Transform(b, x), ApplyOp(E, x))
         /\ ApplyOp(ApplyOp(E, b), Transform(x, b)) = ApplyOp(ApplyOp(E, x), Transform(b, x))
    BY <2>7, <2>9, <2>10 DEF Confluent
  <2>12. BatchTransform(a, Append(s, b)) = Transform(x, b)
    BY <2>1, <2>6, BatchAppend
  <2>13. Row(a, Append(s, b)) = Append(z, Transform(b, x))
    BY <2>1, <2>6, RowAppend
  <2>14. ApplyOps(D, Append(s, b)) = ApplyOp(E, b)
    BY <2>1, <2>6, ApplyOpsAppend
  <2>15. PICK y, F : y = Transform(b, x) /\ F = ApplyOp(D, a)
    OBVIOUS
  <2>16. y \in O
    BY <2>7, <2>15 DEF Closed
  <2>17. ApplyOp(E, x) = ApplyOps(F, z) /\ Valid(F, z)
    BY <2>5, <2>6, <2>15
  <2>18. ApplyOps(F, Append(z, y)) = ApplyOp(ApplyOps(F, z), y)
    BY <2>8, <2>16, ApplyOpsAppend
  <2>19. Valid(F, Append(z, y))
    <3>1. Fits(y, ApplyOps(F, z))
      BY <2>11, <2>15, <2>17
    <3> QED BY <2>8, <2>16, <2>17, <3>1, ValidAppend
  <2> QED BY <2>11, <2>12, <2>13, <2>14, <2>15, <2>17, <2>18, <2>19
<1>3. G \in SUBSET Seq(O)
  OBVIOUS
<1>4. L \in G
  <2> HIDE DEF G
  <2> QED BY <1>1, <1>2, <1>3, ApplyFold!SeqInduction
<1> QED BY <1>4

\* The first op of a sequence applied by itself.
LEMMA ApplyFirst ==
    ASSUME NEW D, NEW O, NEW L \in Seq(O), L # << >>
    PROVE  /\ ApplyOps(D, L) = ApplyOps(ApplyOp(D, Head(L)), Tail(L))
           /\ Valid(D, L) => Fits(Head(L), D) /\ Valid(ApplyOp(D, Head(L)), Tail(L))
<1> DEFINE First(s) ==
             /\ ApplyOps(D, s) = ApplyOps(ApplyOp(D, Head(s)), Tail(s))
             /\ Valid(D, s) => Fits(Head(s), D) /\ Valid(ApplyOp(D, Head(s)), Tail(s))
           G == {s \in Seq(O) : s # << >> => First(s)}
<1>1. << >> \in G
  OBVIOUS
<1>2. ASSUME NEW s \in G, NEW b \in O PROVE Append(s, b) \in G
  <2>1. s \in Seq(O) /\ Append(s, b) \in Seq(O)
    OBVIOUS
  <2>2. ApplyOps(D, Append(s, b)) = ApplyOp(ApplyOps(D, s), b)
    BY <2>1, ApplyOpsAppend
  <2>3. Valid(D, Append(s, b)) <=> Valid(D, s) /\ Fits(b, ApplyOps(D, s))
    BY <2>1, ValidAppend
  <2>4. CASE s = << >>
    <3>1. Append(s, b) = <<b>>
      BY <2>4
    <3>2. Head(<<b>>) = b /\ Tail(<<b>>) = << >>
      OBVIOUS
    <3>3. Head(Append(s, b)) = b /\ Tail(Append(s, b)) = << >>
      BY <3>1, <3>2
    <3>4. ApplyOps(D, s) = D
      BY <2>4, ApplyOpsEmpty
    <3>5. First(Append(s, b))
      BY <2>2, <2>3, <3>3, <3>4, ApplyOpsEmpty, ValidEmpty
    <3> QED BY <2>1, <3>5
  <2>5. CASE s # << >>
    <3>1. First(s)
      BY <2>5
    <3>2. PICK h, t : h = Head(s) /\ t = Tail(s)
      OBVIOUS
    <3>3. t \in Seq(O) /\ Head(Append(s, b)) = h /\ Tail(Append(s, b)) = Append(t, b)
      BY <2>1, <2>5, <3>2, HeadTailAppend, HeadTailProperties
    <3>4. PICK E : E = ApplyOp(D, h)
      OBVIOUS
    <3>5. ApplyOps(E, Append(t, b)) = ApplyOp(ApplyOps(E, t), b)
      BY <3>3, ApplyOpsAppend
    <3>6. Valid(E, Append(t, b)) <=> Valid(E, t) /\ Fits(b, ApplyOps(E, t))
      BY <3>3, ValidAppend
    <3>7. ApplyOps(D, s) = ApplyOps(E, t) /\ (Valid(D, s) => Fits(h, D) /\ Valid(E, t))
      BY <3>1, <3>2, <3>4
    <3>8. First(Append(s, b))
      BY <2>2, <2>3, <3>3, <3>4, <3>5, <3>6, <3>7
    <3> QED BY <2>1, <3>8
  <2> QED BY <2>4, <2>5
<1>3. G \in SUBSET Seq(O)
  OBVIOUS
<1>4. L \in G
  <2> HIDE DEF G
  <2> QED BY <1>1, <1>2, <1>3, ApplyFold!SeqInduction
<1> QED BY <1>4

LEMMA ConcatAppend ==
    ASSUME NEW O, NEW s \in Seq(O), NEW r \in Seq(O), NEW e \in O
    PROVE  s \o Append(r, e) = Append(s \o r, e) /\ s \o r \in Seq(O)
<1>1. Append(r, e) = r \o <<e>> /\ <<e>> \in Seq(O)
  BY AppendIsConcat
<1>2. s \o r \in Seq(O)
  BY ConcatProperties
<1>3. Append(s \o r, e) = (s \o r) \o <<e>>
  BY <1>2, AppendIsConcat
<1>4. (s \o r) \o <<e>> = s \o (r \o <<e>>)
  BY <1>1, ConcatAssociative
<1> QED BY <1>1, <1>2, <1>3, <1>4

\* One sequence of ops after another.
LEMMA ApplyOpsConcat ==
    ASSUME NEW D, NEW O, NEW A \in Seq(O), NEW B \in Seq(O)
    PROVE  /\ ApplyOps(D, A \o B) = ApplyOps(ApplyOps(D, A), B)
           /\ Valid(D, A \o B) <=> Valid(D, A) /\ Valid(ApplyOps(D, A), B)
<1>1. PICK E : E = ApplyOps(D, A)
  OBVIOUS
<1> DEFINE G == {s \in Seq(O) : /\ ApplyOps(D, A \o s) = ApplyOps(E, s)
                                /\ Valid(D, A \o s) <=> Valid(D, A) /\ Valid(E, s)}
<1>2. << >> \in G
  <2>1. PICK e : e = << >>
    OBVIOUS
  <2>2. e \in Seq(O) /\ A \o e = A
    BY <2>1, ConcatEmptySeq
  <2>3. ApplyOps(E, e) = E /\ Valid(E, e)
    BY <2>1, ApplyOpsEmpty, ValidEmpty
  <2>4. e \in G
    BY <1>1, <2>2, <2>3
  <2> HIDE DEF G
  <2> QED BY <2>1, <2>4
<1>3. ASSUME NEW s \in G, NEW b \in O PROVE Append(s, b) \in G
  <2>1. s \in Seq(O) /\ Append(s, b) \in Seq(O)
    OBVIOUS
  <2>2. A \o Append(s, b) = Append(A \o s, b) /\ A \o s \in Seq(O)
    BY <2>1, ConcatAppend
  <2>3. /\ ApplyOps(D, A \o s) = ApplyOps(E, s)
        /\ Valid(D, A \o s) <=> Valid(D, A) /\ Valid(E, s)
    OBVIOUS
  <2>4. PICK t : t = A \o s
    OBVIOUS
  <2>5. t \in Seq(O) /\ A \o Append(s, b) = Append(t, b)
    BY <2>2, <2>4
  <2>6. /\ ApplyOps(D, Append(t, b)) = ApplyOp(ApplyOps(D, t), b)
        /\ ApplyOps(E, Append(s, b)) = ApplyOp(ApplyOps(E, s), b)
    BY <2>1, <2>5, ApplyOpsAppend
  <2>7. /\ Valid(D, Append(t, b)) <=> Valid(D, t) /\ Fits(b, ApplyOps(D, t))
        /\ Valid(E, Append(s, b)) <=> Valid(E, s) /\ Fits(b, ApplyOps(E, s))
    BY <2>1, <2>5, ValidAppend
  <2> QED BY <2>1, <2>3, <2>4, <2>5, <2>6, <2>7
<1>4. G \in SUBSET Seq(O)
  OBVIOUS
<1>5. B \in G
  <2> HIDE DEF G
  <2> QED BY <1>2, <1>3, <1>4, ApplyFold!SeqInduction
<1> QED BY <1>1, <1>5

-----------------------------------------------------------------------------
(* The ops of users who insert and delete: marks that make text dead        *)

DeadMarks(S) == [type : {"Mark"}, segs : Seq(Segs), live : {FALSE}, site : S]
EditOps(C, S) == InsOps(C, S) \cup DeadMarks(S)

LEMMA DeadMarkIs ==
    ASSUME NEW S, NEW op
    PROVE  op \in DeadMarks(S) <=> op \in MarkOps(S) /\ op.live = FALSE
BY DEF DeadMarks, MarkOps

LEMMA EditOpsClosed ==
    ASSUME NEW C, NEW S, AreSites(S)
    PROVE  Closed(EditOps(C, S))
<1> SUFFICES ASSUME NEW op \in EditOps(C, S), NEW base \in EditOps(C, S)
             PROVE  /\ Transform(op, base) \in EditOps(C, S)
                    /\ Transform(op, base).site = op.site
  BY DEF Closed
<1>1. op \in InsOps(C, S) \/ (op \in MarkOps(S) /\ op.live = FALSE)
  BY DeadMarkIs DEF EditOps
<1>2. base \in InsOps(C, S) \/ base \in MarkOps(S)
  BY DeadMarkIs DEF EditOps
<1>3. CASE base \in MarkOps(S)
  <2>1. Transform(op, base) = op
    BY <1>3, TransformPastMark
  <2> QED BY <2>1
<1>4. CASE base \in InsOps(C, S) /\ op \in InsOps(C, S)
  <2>1. Transform(op, base) \in InsOps(C, S) /\ Transform(op, base).site = op.site
    BY <1>4, TransformIns
  <2> QED BY <2>1 DEF EditOps
<1>5. CASE base \in InsOps(C, S) /\ op \in MarkOps(S) /\ op.live = FALSE
  <2>1. /\ Transform(op, base) \in MarkOps(S) /\ Transform(op, base).site = op.site
        /\ Transform(op, base).live = op.live
    BY <1>5, TransformMark
  <2>2. Transform(op, base) \in DeadMarks(S)
    BY <1>5, <2>1, DeadMarkIs
  <2> QED BY <2>1, <2>2 DEF EditOps
<1> QED BY <1>1, <1>2, <1>3, <1>4, <1>5

\* An op makes sense after an op that came before it.
LEMMA FitsAfter ==
    ASSUME NEW C, NEW S, AreSites(S), NEW D \in Seq(Cells(C)), NEW a \in Ops(C, S),
           NEW b \in Ops(C, S), Fits(a, D), Fits(b, D)
    PROVE  Fits(Transform(b, a), ApplyOp(D, a))
<1>1. CASE a \in MarkOps(S)
  <2>1. Transform(b, a) = b
    BY <1>1, TransformPastMark
  <2>2. Len(ApplyOp(D, a)) = Len(D)
    BY <1>1, ApplyMarkIs
  <2> QED BY <2>1, <2>2 DEF Fits
<1>2. CASE a \in InsOps(C, S) /\ b \in MarkOps(S)
  <2>1. Transform(b, a) \in MarkOps(S)
    BY <1>2, TransformMark
  <2>2. Transform(b, a).type # "Ins"
    BY <2>1, OpTypes
  <2> QED BY <2>2 DEF Fits
<1>3. CASE a \in InsOps(C, S) /\ b \in InsOps(C, S)
  <2>1. PICK x, E, n : x = Transform(b, a) /\ E = ApplyOp(D, a) /\ n = Len(a.str)
    OBVIOUS
  <2>2. Len(E) = Len(D) + n /\ Len(D) \in Nat
    BY <1>3, <2>1, ApplyInsIs
  <2>3. n \in Nat /\ b.pos \in Nat
    BY <1>3, <2>1, InsFacts
  <2>4. x.pos = b.pos \/ x.pos = b.pos + n
    BY <1>3, <2>1, TransformIns
  <2>5. b.pos <= Len(D)
    BY <1>3, OpTypes DEF Fits
  <2>6. x.pos <= Len(E)
    BY <2>2, <2>3, <2>4, <2>5
  <2> QED BY <2>1, <2>6 DEF Fits
<1> QED BY <1>1, <1>2, <1>3 DEF Ops

LEMMA EditOpsConfluent ==
    ASSUME NEW C, NEW S, AreSites(S)
    PROVE  Confluent(EditOps(C, S), C)
<1> SUFFICES ASSUME NEW D \in Seq(Cells(C)), NEW a \in EditOps(C, S), NEW b \in EditOps(C, S),
                    Fits(a, D)
             PROVE  /\ ApplyOp(D, a) \in Seq(Cells(C))
                    /\ Fits(b, D) => Fits(Transform(b, a), ApplyOp(D, a))
                    /\ (Fits(b, D) /\ a.site # b.site) =>
                          ApplyOp(ApplyOp(D, a), Transform(b, a))
                             = ApplyOp(ApplyOp(D, b), Transform(a, b))
  BY DEF Confluent
<1>1. a \in Ops(C, S) /\ b \in Ops(C, S)
  BY DeadMarkIs DEF EditOps, Ops
<1>2. ApplyOp(D, a) \in Seq(Cells(C))
  BY <1>1, ApplyInsIs, ApplyMarkIs DEF Ops
<1>3. ~Oppose(a, b)
  <2>1. \A op \in EditOps(C, S) : op.type = "Mark" => op.live = FALSE
    <3> SUFFICES ASSUME NEW op \in EditOps(C, S), op.type = "Mark" PROVE op.live = FALSE
      OBVIOUS
    <3>1. op \notin InsOps(C, S)
      BY OpTypes
    <3> QED BY <3>1, DeadMarkIs DEF EditOps
  <2> QED BY <2>1 DEF Oppose
<1>4. Fits(b, D) => Fits(Transform(b, a), ApplyOp(D, a))
  BY <1>1, FitsAfter
<1>5. ASSUME Fits(b, D), a.site # b.site
      PROVE  ApplyOp(ApplyOp(D, a), Transform(b, a)) = ApplyOp(ApplyOp(D, b), Transform(a, b))
  BY <1>1, <1>3, <1>5, OpsCommute
<1> QED BY <1>2, <1>4, <1>5

-----------------------------------------------------------------------------
(* Two concurrent ops of two sites on a document (MCTextOp)                *)
(*                                                                         *)
(* The invariant is that the two ops are ops that two different sites made *)
(* on the document; everything else follows from what the operators        *)
(* compute.                                                                *)

\* The characters of documents and insertions.
PairChars == Int \X Int

\* The ops of a site, by kind.
InsertionsOf(site) ==
    {Ins(p, [k \in 1..n |-> <<site, k>>], site) : p \in 0..DocLen, n \in 1..MaxStr}
MarksOf(site) == {Mark(s, live, site) : s \in SegLists, live \in BOOLEAN}

\* Two sites made the ops on the document.
Concurrent ==
    /\ before \in Docs
    /\ \E p \in Pairs : op1 \in OpsOf(p[1]) /\ op2 \in OpsOf(p[2])

LEMMA OpsOfKinds ==
    ASSUME NEW site
    PROVE  OpsOf(site) = InsertionsOf(site) \cup MarksOf(site)
BY DEF OpsOf, InsertionsOf, MarksOf

LEMMA InsertionsOfType ==
    ASSUME NEW site \in Sites, NEW op \in InsertionsOf(site)
    PROVE  op \in InsOps(PairChars, Sites) /\ op.site = site /\ op.pos <= DocLen
<1>1. PICK p \in 0..DocLen, n \in 1..MaxStr : op = Ins(p, [k \in 1..n |-> <<site, k>>], site)
  BY DEF InsertionsOf
<1>2. PICK s : s = [k \in 1..n |-> <<site, k>>]
  OBVIOUS
<1>3. site \in Int /\ p \in Nat /\ p <= DocLen /\ n \in Nat /\ 1 \in 1..n
  BY TextOpAssumption
<1>4. s \in [1..n -> PairChars]
  BY <1>2, <1>3 DEF PairChars
<1>5. s \in Seq(PairChars) /\ Len(s) = n
  BY <1>3, <1>4
<1>6. s # << >>
  BY <1>3, <1>5
<1>7. op = [type |-> "Ins", pos |-> p, str |-> s, site |-> site]
  BY <1>1, <1>2 DEF Ins
<1> QED BY <1>3, <1>5, <1>6, <1>7 DEF InsOps

\* Segments that do not touch their neighbours are in order.
LEMMA SegListsAscending ==
    ASSUME NEW s \in SegLists
    PROVE  /\ s \in Seq(Segs) /\ Ascending(s)
           /\ \A q \in AllCovered(s) : q \in 0..(DocLen - 1)
<1>1. PICK n \in 1..MaxSegs : s \in [1..n -> [pos : 0..(DocLen - 1), len : 1..DocLen]]
  BY DEF SegLists
<1>2. n \in Nat /\ DocLen \in Nat
  BY TextOpAssumption
<1>3. DOMAIN s = 1..n
  BY <1>1
<1>4. ASSUME NEW i \in 1..n
      PROVE  /\ s[i] \in Segs /\ s[i].pos \in Nat /\ s[i].len \in Nat \ {0}
             /\ s[i].pos + s[i].len <= DocLen
  <2>1. s[i] \in [pos : 0..(DocLen - 1), len : 1..DocLen]
    BY <1>1
  <2>2. s[i].pos \in 0..(DocLen - 1) /\ s[i].len \in 1..DocLen
    BY <2>1
  <2>3. s[i].pos \in Nat /\ s[i].len \in Nat \ {0}
    BY <1>2, <2>2
  <2>4. s[i] = [pos |-> s[i].pos, len |-> s[i].len]
    BY <2>1
  <2>5. s[i] \in Segs
    BY <2>3, <2>4 DEF Segs
  <2>6. s[i].pos + s[i].len <= DocLen
    BY <1>3 DEF SegLists
  <2> QED BY <2>3, <2>5, <2>6
<1>5. s \in [1..n -> Segs]
  BY <1>1, <1>4
<1>6. s \in Seq(Segs) /\ Len(s) = n
  BY <1>2, <1>5
<1>7. ASSUME NEW i \in 1..(n - 1) PROVE s[i].pos + s[i].len < s[i + 1].pos
  BY <1>6 DEF SegLists
<1>8. Ascending(s)
  <2> SUFFICES ASSUME NEW i \in 1..n PROVE \A j \in 1..n : i < j => s[i].pos + s[i].len <= s[j].pos
    BY <1>6 DEF Ascending
  <2>1. PICK e : e = s[i].pos + s[i].len
    OBVIOUS
  <2> DEFINE G == {d \in Nat : (i + 1) + d <= n => e <= s[(i + 1) + d].pos}
  <2>2. e \in Int
    BY <1>4, <2>1
  <2>3. 0 \in G
    <3>1. SUFFICES ASSUME i + 1 <= n PROVE e <= s[i + 1].pos
      BY <1>2
    <3>2. i \in 1..(n - 1) /\ i + 1 \in 1..n
      BY <1>2, <3>1
    <3>3. s[i + 1].pos \in Nat
      BY <1>4, <3>2
    <3>4. e < s[i + 1].pos
      BY <1>7, <2>1, <3>2
    <3> QED BY <2>2, <3>3, <3>4
  <2>4. ASSUME NEW d \in G PROVE d + 1 \in G
    <3>1. PICK k, m : k = (i + 1) + d /\ m = k + 1
      OBVIOUS
    <3>2. d \in Nat /\ k \in Nat /\ m \in Nat /\ m = (i + 1) + (d + 1)
      BY <1>2, <3>1
    <3>3. SUFFICES ASSUME m <= n PROVE e <= s[m].pos
      BY <3>2
    <3>4. k \in 1..(n - 1) /\ k \in 1..n /\ m \in 1..n
      BY <1>2, <3>1, <3>2, <3>3
    <3>5. e <= s[k].pos
      BY <3>1, <3>4
    <3>6. PICK x, y, z : x = s[k].pos /\ y = s[k].len /\ z = s[m].pos
      OBVIOUS
    <3>7. x \in Nat /\ y \in Nat /\ z \in Nat
      BY <1>4, <3>4, <3>6
    <3>8. x + y < z
      BY <1>7, <3>1, <3>4, <3>6
    <3>9. e <= z
      BY <2>2, <3>5, <3>6, <3>7, <3>8
    <3> QED BY <3>6, <3>9
  <2>5. G \in SUBSET Nat
    OBVIOUS
  <2> HIDE DEF G
  <2>6. G = Nat
    BY <2>3, <2>4, <2>5, ApplyFold!Induction
  <2>7. ASSUME NEW j \in 1..n, i < j PROVE e <= s[j].pos
    <3>1. PICK d : d = j - (i + 1)
      OBVIOUS
    <3>2. d \in Nat /\ (i + 1) + d = j
      BY <1>2, <2>7, <3>1
    <3>3. d \in G
      BY <2>6, <3>2
    <3> QED BY <3>2, <3>3 DEF G
  <2> QED BY <2>1, <2>7
<1>9. ASSUME NEW q \in AllCovered(s) PROVE q \in 0..(DocLen - 1)
  <2>1. PICK i \in 1..n : q \in Covered(s[i])
    BY <1>3 DEF AllCovered, Elems
  <2>2. PICK x, y : x = s[i].pos /\ y = s[i].len
    OBVIOUS
  <2>3. x \in Nat /\ y \in Nat /\ x + y <= DocLen
    BY <1>4, <2>2
  <2>4. q \in x .. (x + y - 1)
    BY <2>1, <2>2 DEF Covered
  <2> QED BY <1>2, <2>3, <2>4
<1> QED BY <1>6, <1>8, <1>9

LEMMA MarksOfType ==
    ASSUME NEW site \in Sites, NEW op \in MarksOf(site)
    PROVE  /\ op \in MarkOps(Sites) /\ op.site = site
           /\ Ascending(op.segs) /\ Positions(op) \subseteq 0..(DocLen - 1)
<1>1. PICK s \in SegLists, live \in BOOLEAN : op = Mark(s, live, site)
  BY DEF MarksOf
<1>2. s \in Seq(Segs) /\ Ascending(s) /\ \A q \in AllCovered(s) : q \in 0..(DocLen - 1)
  BY SegListsAscending
<1>3. op = [type |-> "Mark", segs |-> s, live |-> live, site |-> site]
  BY <1>1 DEF Mark
<1>4. op \in MarkOps(Sites) /\ op.site = site /\ op.segs = s
  BY <1>2, <1>3 DEF MarkOps
<1>5. Positions(op) = AllCovered(s)
  BY <1>4, PositionsCovered
<1> QED BY <1>2, <1>4, <1>5

LEMMA DocsType ==
    ASSUME NEW d \in Docs
    PROVE  d \in Seq(Cells(PairChars)) /\ Len(d) = DocLen
<1>1. PICK f \in [1..DocLen -> BOOLEAN] : d = [i \in 1..DocLen |-> Cell(<<0, i>>, f[i])]
  BY DEF Docs
<1>2. \A i \in 1..DocLen : Cell(<<0, i>>, f[i]) \in Cells(PairChars)
  BY DEF Cell, Cells, PairChars
<1>3. d \in [1..DocLen -> Cells(PairChars)]
  BY <1>1, <1>2
<1> QED BY <1>3, TextOpAssumption

LEMMA SitesCompared == AreSites(Sites)
BY TextOpAssumption DEF AreSites

LEMMA OpsOfType ==
    ASSUME NEW site \in Sites, NEW op \in OpsOf(site), NEW d \in Docs
    PROVE  op \in Ops(PairChars, Sites) /\ op.site = site /\ Fits(op, d)
<1>1. CASE op \in InsertionsOf(site)
  BY <1>1, InsertionsOfType, DocsType DEF Ops, Fits
<1>2. CASE op \in MarksOf(site)
  <2>1. op \in MarkOps(Sites) /\ op.site = site
    BY <1>2, MarksOfType
  <2>2. op.type = "Mark" /\ "Mark" # "Ins"
    BY <2>1, OpTypes
  <2> QED BY <2>1, <2>2 DEF Ops, Fits
<1> QED BY <1>1, <1>2, OpsOfKinds

\* What the invariant says of the two ops.
LEMMA ConcurrentOps ==
    ASSUME Concurrent
    PROVE  /\ before \in Seq(Cells(PairChars)) /\ Len(before) = DocLen
           /\ op1 \in Ops(PairChars, Sites) /\ op2 \in Ops(PairChars, Sites)
           /\ op1.site # op2.site /\ Fits(op1, before) /\ Fits(op2, before)
           /\ op1.type = "Mark" => /\ op1 \in MarkOps(Sites) /\ Ascending(op1.segs)
                                   /\ Positions(op1) \subseteq 0..(DocLen - 1)
<1>1. PICK p \in Pairs : op1 \in OpsOf(p[1]) /\ op2 \in OpsOf(p[2])
  BY DEF Concurrent
<1>2. p[1] \in Sites /\ p[2] \in Sites /\ p[1] # p[2]
  BY DEF Pairs
<1>3. before \in Docs
  BY DEF Concurrent
<1>4. op1 \in Ops(PairChars, Sites) /\ op1.site = p[1] /\ Fits(op1, before)
  BY <1>1, <1>2, <1>3, OpsOfType
<1>5. op2 \in Ops(PairChars, Sites) /\ op2.site = p[2] /\ Fits(op2, before)
  BY <1>1, <1>2, <1>3, OpsOfType
<1>6. ASSUME op1.type = "Mark"
      PROVE  /\ op1 \in MarkOps(Sites) /\ Ascending(op1.segs)
             /\ Positions(op1) \subseteq 0..(DocLen - 1)
  <2>1. op1 \notin InsOps(PairChars, Sites)
    BY <1>6, OpTypes
  <2>2. op1 \in MarksOf(p[1])
    BY <1>1, <1>2, <2>1, OpsOfKinds, InsertionsOfType
  <2> QED BY <1>2, <2>2, MarksOfType
<1> QED BY <1>2, <1>3, <1>4, <1>5, <1>6, DocsType

\* The two ops stay two concurrent ops of two sites: exchanging them only
\* asks for the other order.
THEOREM OpsStayConcurrent == PairSpec => []Concurrent
<1>1. PairInit => Concurrent
  BY DEF PairInit, Concurrent
<1>2. Concurrent /\ [OtherOrder]_pairVars => Concurrent'
  <2> SUFFICES ASSUME Concurrent, [OtherOrder]_pairVars PROVE Concurrent'
    OBVIOUS
  <2>1. CASE OtherOrder
    <3>1. PICK p \in Pairs : op1 \in OpsOf(p[1]) /\ op2 \in OpsOf(p[2])
      BY DEF Concurrent
    <3>2. PICK r : r = <<p[2], p[1]>>
      OBVIOUS
    <3>3. r \in Pairs /\ r[1] = p[2] /\ r[2] = p[1]
      BY <3>2 DEF Pairs
    <3>4. op1' \in OpsOf(r[1]) /\ op2' \in OpsOf(r[2]) /\ before' \in Docs
      BY <2>1, <3>1, <3>3 DEF OtherOrder, Concurrent
    <3> QED BY <3>3, <3>4 DEF Concurrent
  <2>2. CASE UNCHANGED pairVars
    BY <2>2 DEF Concurrent, pairVars
  <2> QED BY <2>1, <2>2
<1> QED BY <1>1, <1>2, PTL DEF PairSpec

\* TP1 of op.rs's transform: for any two concurrent ops that do not make
\* one character live and dead, each order of the two, the second
\* transformed against the first, gives the same document.
THEOREM TransformationConverges == PairSpec => []TP1
<1>1. Concurrent => TP1
  <2> SUFFICES ASSUME Concurrent, ~Opposite
               PROVE  ApplyOps(before, <<op1, Transform(op2, op1)>>)
                         = ApplyOps(before, <<op2, Transform(op1, op2)>>)
    BY DEF TP1
  <2>1. ~Oppose(op1, op2)
    BY DEF Opposite, Oppose
  <2>2. ApplyOp(ApplyOp(before, op1), Transform(op2, op1))
           = ApplyOp(ApplyOp(before, op2), Transform(op1, op2))
    BY <2>1, ConcurrentOps, SitesCompared, OpsCommute
  <2> QED BY <2>2, ApplyOpsTwo
<1> QED BY <1>1, OpsStayConcurrent, PTL

\* IP3 of op.rs's transform and inverse: the inverse of an op, moved past
\* what a concurrent op became, is the inverse of what the op became.
THEOREM InverseFollowsOp == PairSpec => []IP3
<1>1. Concurrent => IP3
  BY ConcurrentOps, SitesCompared, InverseMoves DEF IP3
<1> QED BY <1>1, OpsStayConcurrent, PTL

\* transform_di: however an insertion splits or moves the segments of a
\* mark, they cover the same characters, none is empty, and they stay in
\* order without overlap.
THEOREM MarksFollowText == PairSpec => []MarkFollowsText
<1>1. Concurrent => MarkFollowsText
  <2> SUFFICES ASSUME Concurrent, op1.type = "Mark", op2.type = "Ins"
               PROVE  /\ {ApplyOp(before, op2)[q + 1].ch : q \in Positions(Transform(op1, op2))}
                            = {before[q + 1].ch : q \in Positions(op1)}
                      /\ \A i \in DOMAIN Transform(op1, op2).segs :
                           Transform(op1, op2).segs[i].len > 0
                      /\ \A i \in 1..(Len(Transform(op1, op2).segs) - 1) :
                           Transform(op1, op2).segs[i].pos + Transform(op1, op2).segs[i].len
                              <= Transform(op1, op2).segs[i + 1].pos
    BY DEF MarkFollowsText
  <2>1. /\ op1 \in MarkOps(Sites) /\ Ascending(op1.segs)
        /\ Positions(op1) \subseteq 0..(DocLen - 1)
        /\ before \in Seq(Cells(PairChars)) /\ Len(before) = DocLen /\ Fits(op2, before)
    BY ConcurrentOps
  <2>2. op2 \in InsOps(PairChars, Sites)
    BY ConcurrentOps, OpTypes DEF Ops
  <2>3. PICK t, d, P, p, n : /\ t = Transform(op1, op2) /\ d = ApplyOp(before, op2)
                             /\ P = Positions(op1) /\ p = op2.pos /\ n = Len(op2.str)
    OBVIOUS
  <2>4. p \in Nat /\ n \in Nat /\ DocLen \in Nat
    BY <2>2, <2>3, SitesCompared, InsFacts, TextOpAssumption
  <2>5. t \in MarkOps(Sites) /\ Positions(t) = Shifted(P, p, n)
    BY <2>1, <2>2, <2>3, SitesCompared, TransformMark
  <2>6. Inserted(d, before, DocLen, p, op2.str, n)
    BY <2>1, <2>2, <2>3, ApplyInsIs
  <2>7. ASSUME NEW q \in P PROVE d[Shift(q, p, n) + 1] = before[q + 1]
    <3>1. q \in 0..(DocLen - 1)
      BY <2>1, <2>3
    <3>2. CASE q < p
      <4>1. Shift(q, p, n) + 1 = q + 1 /\ q + 1 \in 1..(DocLen + n) /\ q + 1 <= p
        BY <2>4, <3>1, <3>2 DEF Shift
      <4> QED BY <2>6, <4>1 DEF Inserted
    <3>3. CASE ~(q < p)
      <4>1. PICK k : k = (q + n) + 1
        OBVIOUS
      <4>2. /\ Shift(q, p, n) + 1 = k /\ k \in 1..(DocLen + n)
            /\ ~(k <= p) /\ ~(k <= p + n) /\ k - n = q + 1
        BY <2>4, <3>1, <3>3, <4>1 DEF Shift
      <4> QED BY <2>6, <4>2 DEF Inserted
    <3> QED BY <3>2, <3>3
  <2>8. {d[q + 1].ch : q \in Positions(t)} = {before[q + 1].ch : q \in P}
    BY <2>5, <2>7 DEF Shifted
  <2>9. t.segs \in Seq(Segs)
    BY <2>5 DEF MarkOps
  <2>10. ASSUME NEW i \in DOMAIN t.segs PROVE t.segs[i].len > 0
    <3>1. t.segs[i] \in Segs
      BY <2>9
    <3>2. t.segs[i].len \in Nat \ {0}
      BY <3>1 DEF Segs
    <3> QED BY <3>2
  <2>11. Ascending(t.segs)
    BY <2>1, <2>2, <2>3, SitesCompared, TransformMarkOrder
  <2>12. ASSUME NEW i \in 1..(Len(t.segs) - 1)
         PROVE  t.segs[i].pos + t.segs[i].len <= t.segs[i + 1].pos
    <3>1. i \in 1..Len(t.segs) /\ i + 1 \in 1..Len(t.segs) /\ i < i + 1
      BY <2>9
    <3> QED BY <2>11, <3>1 DEF Ascending
  <2> QED BY <2>3, <2>8, <2>10, <2>12
<1> QED BY <1>1, OpsStayConcurrent, PTL
=============================================================================
