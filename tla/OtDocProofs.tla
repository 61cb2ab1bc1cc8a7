---------------------------- MODULE OtDocProofs ----------------------------
(***************************************************************************)
(* The client and server engines with real ops: for any number of clients, *)
(* any document and any edits, a client that has processed everything      *)
(* shows the owner's document, and an acknowledgement is the head of its   *)
(* local history.  Both are about users who insert and delete: an undo     *)
(* makes text live that another deletes, and two such marks do not commute.*)
(***************************************************************************)
EXTENDS OtDoc, TextOpProofs

\* The users insert and delete.
EditsOnly == \A c \in Clients : Kinds[c] \subseteq {"Ins", "Del"}

\* Characters of the file, and characters a client inserts.
Chars == (Nat \X Nat) \cup (Nat \X Nat \X Nat)
O == EditOps(Chars, Clients)
FatOps == [op : O, seq : Nat, group : Nat]
Batches == [context : Nat, ops : Seq(FatOps)]

LEMMA ClientsCompared == AreSites(Clients)
BY ClientAssumption DEF AreSites

LEMMA OpsOk == Closed(O) /\ Confluent(O, Chars)
BY ClientsCompared, EditOpsClosed, EditOpsConfluent DEF O

RemoteFold == INSTANCE FoldLemmas WITH Op <- LAMBDA p, x, y : RemoteOp(x, p, y)

-----------------------------------------------------------------------------
(* Stretches of sequences *)

\* An element more, and the last elements of one more.
LEMMA StretchNext ==
    ASSUME NEW T, NEW s \in Seq(T), NEW n \in Nat, n < Len(s), NEW i \in 0..n
    PROVE  /\ SubSeq(s, i + 1, n) \in Seq(T)
           /\ SubSeq(s, i + 1, n + 1) = Append(SubSeq(s, i + 1, n), s[n + 1])
<1>1. PICK l, m, a : l = Len(s) /\ m = n + 1 /\ a = i + 1
  OBVIOUS
<1>2. l \in Nat /\ m \in 1..l /\ a \in 1..m /\ a \in Int /\ n \in Int /\ m \in Int
  BY <1>1
<1>3. \A k \in 1..l : s[k] \in T
  BY <1>1
<1>4. \A k \in a..n : s[k] \in T
  BY <1>1, <1>2, <1>3
<1>5. \A k \in a..m : s[k] \in T
  BY <1>1, <1>2, <1>3
<1>6. PICK x, y : x = SubSeq(s, a, n) /\ y = SubSeq(s, a, m)
  OBVIOUS
<1>7. /\ x \in Seq(T) /\ Len(x) = (IF a <= n THEN n - a + 1 ELSE 0)
      /\ \A k \in 1..(n - a + 1) : x[k] = s[a + k - 1]
  BY <1>2, <1>4, <1>6, SubSeqProperties
<1>8. /\ y \in Seq(T) /\ Len(y) = (IF a <= m THEN m - a + 1 ELSE 0)
      /\ \A k \in 1..(m - a + 1) : y[k] = s[a + k - 1]
  BY <1>2, <1>5, <1>6, SubSeqProperties
<1>9. PICK h : h = n - i
  OBVIOUS
<1>10. h \in Nat /\ Len(x) = h /\ Len(y) = h + 1
  BY <1>1, <1>2, <1>7, <1>8, <1>9
<1>11. s[m] \in T
  BY <1>2, <1>3
<1>12. PICK z : z = Append(x, s[m])
  OBVIOUS
<1>13. z \in Seq(T) /\ Len(z) = h + 1 /\ z[h + 1] = s[m] /\ \A k \in 1..h : z[k] = x[k]
  BY <1>7, <1>10, <1>11, <1>12
<1>14. ASSUME NEW k \in 1..(h + 1) PROVE y[k] = z[k]
  <2>1. k \in 1..(m - a + 1)
    BY <1>1, <1>2, <1>9, <1>10
  <2>2. y[k] = s[a + k - 1]
    BY <1>8, <2>1
  <2>3. CASE k \in 1..h
    <3>1. k \in 1..(n - a + 1)
      BY <1>1, <1>2, <1>9, <1>10, <2>3
    <3> QED BY <1>7, <1>13, <2>2, <2>3, <3>1
  <2>4. CASE k \notin 1..h
    <3>1. k = h + 1 /\ a + k - 1 = m
      BY <1>1, <1>2, <1>9, <1>10, <2>4
    <3> QED BY <1>13, <2>2, <3>1
  <2> QED BY <2>3, <2>4
<1>15. PICK g : g = h + 1
  OBVIOUS
<1>16. Agree(y, z, g) /\ Len(y) = g /\ Len(z) = g
  BY <1>10, <1>13, <1>14, <1>15 DEF Agree
<1>17. y = z
  BY <1>8, <1>13, <1>16, SameSeq
<1> QED BY <1>1, <1>6, <1>7, <1>12, <1>17

LEMMA StretchNone ==
    ASSUME NEW T, NEW s \in Seq(T), NEW i \in 0..Len(s)
    PROVE  SubSeq(s, i + 1, i) = << >>
<1>1. PICK a : a = i + 1
  OBVIOUS
<1>2. a \in Int /\ i \in Int /\ ~(a <= i)
  BY <1>1
<1>3. \A k \in a..i : s[k] \in T
  BY <1>2
<1>4. SubSeq(s, a, i) \in Seq(T) /\ Len(SubSeq(s, a, i)) = IF a <= i THEN i - a + 1 ELSE 0
  BY <1>2, <1>3, SubSeqProperties
<1> QED BY <1>1, <1>2, <1>4, EmptySeq

LEMMA StretchType ==
    ASSUME NEW T, NEW s \in Seq(T), NEW n \in 0..Len(s), NEW i \in 0..n
    PROVE  SubSeq(s, i + 1, n) \in Seq(T)
<1>1. PICK a : a = i + 1
  OBVIOUS
<1>2. a \in Int /\ n \in Int /\ a \in 1..(n + 1)
  BY <1>1
<1>3. \A k \in a..n : s[k] \in T
  BY <1>2
<1> QED BY <1>1, <1>2, <1>3, SubSeqProperties

\* What comes later does not change a stretch.
LEMMA StretchKept ==
    ASSUME NEW T, NEW s \in Seq(T), NEW r \in Seq(T), NEW n \in 0..Len(s), NEW i \in 0..n
    PROVE  SubSeq(s \o r, i + 1, n) = SubSeq(s, i + 1, n)
<1>1. PICK t, a, l, m : t = s \o r /\ a = i + 1 /\ l = Len(s) /\ m = Len(r)
  OBVIOUS
<1>2. /\ l \in Nat /\ m \in Nat /\ t \in Seq(T) /\ Len(t) = l + m
      /\ \A k \in 1..l : t[k] = s[k] /\ t[k] \in T
  <2>1. /\ t \in Seq(T) /\ Len(t) = l + m /\ l \in Nat /\ m \in Nat
        /\ \A k \in 1..(l + m) : t[k] = IF k <= l THEN s[k] ELSE r[k - l]
    BY <1>1, ConcatProperties
  <2>2. \A k \in 1..l : k \in 1..(l + m) /\ k <= l
    BY <2>1
  <2>3. \A k \in 1..l : s[k] \in T
    BY <1>1
  <2> QED BY <2>1, <2>2, <2>3
<1>3. a \in Int /\ n \in Int /\ a \in 1..(n + 1) /\ n \in 0..l
  BY <1>1
<1>4. \A k \in a..n : k \in 1..l
  BY <1>2, <1>3
<1>5. \A k \in a..n : t[k] \in T /\ s[k] \in T
  BY <1>2, <1>4
<1>6. PICK x, y : x = SubSeq(t, a, n) /\ y = SubSeq(s, a, n)
  OBVIOUS
<1>7. PICK h : h = IF a <= n THEN n - a + 1 ELSE 0
  OBVIOUS
<1>8. x \in Seq(T) /\ Len(x) = h /\ \A k \in 1..(n - a + 1) : x[k] = t[a + k - 1]
  BY <1>3, <1>5, <1>6, <1>7, SubSeqProperties
<1>9. y \in Seq(T) /\ Len(y) = h /\ \A k \in 1..(n - a + 1) : y[k] = s[a + k - 1]
  BY <1>3, <1>5, <1>6, <1>7, SubSeqProperties
<1>10. \A k \in 1..h : k \in 1..(n - a + 1) /\ a + k - 1 \in 1..l
  BY <1>2, <1>3, <1>7
<1>11. Agree(x, y, h)
  BY <1>2, <1>8, <1>9, <1>10 DEF Agree
<1>12. x = y
  BY <1>8, <1>9, <1>11, SameSeq
<1> QED BY <1>1, <1>6, <1>12

LEMMA StretchAll ==
    ASSUME NEW T, NEW s \in Seq(T)
    PROVE  SubSeq(s, 1, Len(s)) = s
<1>1. PICK n : n = Len(s)
  OBVIOUS
<1>2. n \in Nat /\ \A k \in 1..n : s[k] \in T
  BY <1>1
<1>3. PICK x : x = SubSeq(s, 1, n)
  OBVIOUS
<1>4. x \in Seq(T) /\ Len(x) = n /\ \A k \in 1..n : x[k] = s[k]
  BY <1>1, <1>2, <1>3, SubSeqProperties
<1>5. Agree(x, s, n)
  BY <1>4 DEF Agree
<1> QED BY <1>1, <1>3, <1>4, <1>5, SameSeq

-----------------------------------------------------------------------------
(* The ops of fat ops *)

LEMMA PlainIs ==
    ASSUME NEW F \in Seq(FatOps)
    PROVE  /\ Plain(F) \in Seq(O) /\ Len(Plain(F)) = Len(F)
           /\ \A i \in 1..Len(F) : Plain(F)[i] = F[i].op /\ F[i].op \in O
<1>1. PICK n, p : n = Len(F) /\ p = Plain(F)
  OBVIOUS
<1>2. n \in Nat /\ DOMAIN F = 1..n /\ \A i \in 1..n : F[i] \in FatOps
  BY <1>1
<1>3. p = [i \in 1..n |-> F[i].op] /\ \A i \in 1..n : F[i].op \in O
  BY <1>1, <1>2 DEF Plain, FatOps
<1>4. p \in [1..n -> O]
  BY <1>3
<1> QED BY <1>1, <1>2, <1>3, <1>4

LEMMA PlainAppend ==
    ASSUME NEW F \in Seq(FatOps), NEW f \in FatOps
    PROVE  Plain(Append(F, f)) = Append(Plain(F), f.op)
<1>1. PICK n, m, t : n = Len(F) /\ m = n + 1 /\ t = Append(F, f)
  OBVIOUS
<1>2. /\ n \in Nat /\ m \in Nat /\ t \in Seq(FatOps) /\ Len(t) = m /\ t[m] = f
      /\ \A i \in 1..n : t[i] = F[i]
  BY <1>1
<1>3. PICK p, q : p = Plain(F) /\ q = Plain(t)
  OBVIOUS
<1>4. p \in Seq(O) /\ Len(p) = n /\ \A i \in 1..n : p[i] = F[i].op
  BY <1>1, <1>3, PlainIs
<1>5. q \in Seq(O) /\ Len(q) = m /\ \A i \in 1..m : q[i] = t[i].op
  BY <1>2, <1>3, PlainIs
<1>6. f.op \in O
  BY DEF FatOps
<1>7. PICK r : r = Append(p, f.op)
  OBVIOUS
<1>8. r \in Seq(O) /\ Len(r) = m /\ r[m] = f.op /\ \A i \in 1..n : r[i] = p[i]
  BY <1>1, <1>4, <1>6, <1>7
<1>9. \A i \in 1..m : i = m \/ i \in 1..n
  BY <1>1, <1>2
<1>10. Agree(q, r, m)
  BY <1>2, <1>4, <1>5, <1>8, <1>9 DEF Agree
<1>11. q = r
  BY <1>5, <1>8, <1>10, SameSeq
<1> QED BY <1>1, <1>3, <1>7, <1>11

LEMMA PlainConcat ==
    ASSUME NEW F \in Seq(FatOps), NEW E \in Seq(FatOps)
    PROVE  Plain(F \o E) = Plain(F) \o Plain(E)
<1>1. PICK t, n, m, h : t = F \o E /\ n = Len(F) /\ m = Len(E) /\ h = n + m
  OBVIOUS
<1>2. /\ n \in Nat /\ m \in Nat /\ t \in Seq(FatOps) /\ Len(t) = h
      /\ \A i \in 1..h : t[i] = IF i <= n THEN F[i] ELSE E[i - n]
  BY <1>1, ConcatProperties
<1>3. PICK p, q, u : p = Plain(F) /\ q = Plain(E) /\ u = Plain(t)
  OBVIOUS
<1>4. p \in Seq(O) /\ Len(p) = n /\ \A i \in 1..n : p[i] = F[i].op
  BY <1>1, <1>3, PlainIs
<1>5. q \in Seq(O) /\ Len(q) = m /\ \A i \in 1..m : q[i] = E[i].op
  BY <1>1, <1>3, PlainIs
<1>6. u \in Seq(O) /\ Len(u) = h /\ \A i \in 1..h : u[i] = t[i].op
  BY <1>2, <1>3, PlainIs
<1>7. PICK r : r = p \o q
  OBVIOUS
<1>8. /\ r \in Seq(O) /\ Len(r) = h
      /\ \A i \in 1..h : r[i] = IF i <= n THEN p[i] ELSE q[i - n]
  <2>1. /\ r \in Seq(O) /\ Len(r) = Len(p) + Len(q)
        /\ \A i \in 1..(Len(p) + Len(q)) : r[i] = IF i <= Len(p) THEN p[i] ELSE q[i - Len(p)]
    BY <1>4, <1>5, <1>7, ConcatProperties
  <2> QED BY <1>1, <1>4, <1>5, <2>1
<1>9. ASSUME NEW i \in 1..h PROVE u[i] = r[i]
  <2>1. CASE i <= n
    <3>1. i \in 1..n
      BY <1>2, <2>1
    <3> QED BY <1>2, <1>4, <1>6, <1>8, <2>1, <3>1
  <2>2. CASE ~(i <= n)
    <3>1. i - n \in 1..m
      BY <1>1, <1>2, <2>2
    <3> QED BY <1>2, <1>5, <1>6, <1>8, <2>2, <3>1
  <2> QED BY <2>1, <2>2
<1>10. Agree(u, r, h)
  BY <1>9 DEF Agree
<1>11. u = r
  BY <1>6, <1>8, <1>10, SameSeq
<1> QED BY <1>1, <1>3, <1>7, <1>11

LEMMA PlainStretch ==
    ASSUME NEW F \in Seq(FatOps), NEW n \in 0..Len(F), NEW i \in 0..n
    PROVE  Plain(SubSeq(F, i + 1, n)) = SubSeq(Plain(F), i + 1, n)
<1> DEFINE G == {k \in Nat : i + k <= Len(F) =>
                    Plain(SubSeq(F, i + 1, i + k)) = SubSeq(Plain(F), i + 1, i + k)}
<1>1. PICK l, p : l = Len(F) /\ p = Plain(F)
  OBVIOUS
<1>2. l \in Nat /\ p \in Seq(O) /\ Len(p) = l /\ \A k \in 1..l : p[k] = F[k].op
  BY <1>1, PlainIs
<1>3. 0 \in G
  <2>1. i \in 0..Len(F) /\ i \in 0..Len(p) /\ i + 0 = i
    BY <1>1, <1>2
  <2>2. SubSeq(F, i + 1, i) = << >>
    BY <2>1, StretchNone
  <2>3. SubSeq(p, i + 1, i) = << >>
    BY <1>2, <2>1, StretchNone
  <2>4. Plain(<< >>) = << >>
    BY DEF Plain
  <2> QED BY <1>1, <2>1, <2>2, <2>3, <2>4
<1>4. ASSUME NEW k \in G PROVE k + 1 \in G
  <2>1. PICK j : j = i + k
    OBVIOUS
  <2>2. k \in Nat /\ j \in Nat /\ i + (k + 1) = j + 1 /\ i \in 0..j
    BY <2>1
  <2>3. SUFFICES ASSUME j < l
                 PROVE  Plain(SubSeq(F, i + 1, j + 1)) = SubSeq(Plain(F), i + 1, j + 1)
    <3>1. PICK m, h : m = k + 1 /\ h = j + 1
      OBVIOUS
    <3>2. m \in Nat /\ i + m = h /\ (h <= l => j < l)
      BY <1>2, <2>2, <3>1
    <3>3. SUFFICES m \in G
      BY <3>1
    <3>4. SUFFICES ASSUME h <= l
                   PROVE  Plain(SubSeq(F, i + 1, h)) = SubSeq(Plain(F), i + 1, h)
      BY <1>1, <3>2
    <3> QED BY <3>1, <3>2, <3>4
  <2>4. Plain(SubSeq(F, i + 1, j)) = SubSeq(p, i + 1, j)
    BY <1>1, <1>2, <2>1, <2>2, <2>3
  <2>5. PICK x : x = SubSeq(F, i + 1, j)
    OBVIOUS
  <2> HIDE DEF G
  <2>6. x \in Seq(FatOps) /\ SubSeq(F, i + 1, j + 1) = Append(x, F[j + 1])
    BY <1>1, <2>2, <2>3, <2>5, StretchNext
  <2>7. SubSeq(p, i + 1, j + 1) = Append(SubSeq(p, i + 1, j), p[j + 1])
    BY <1>2, <2>2, <2>3, StretchNext
  <2>8. j + 1 \in 1..l
    BY <1>2, <2>2, <2>3
  <2>9. PICK f : f = F[j + 1]
    OBVIOUS
  <2>10. f \in FatOps /\ p[j + 1] = f.op
    BY <1>1, <1>2, <2>8, <2>9
  <2>11. Plain(Append(x, f)) = Append(Plain(x), f.op)
    BY <2>6, <2>10, PlainAppend
  <2> QED BY <1>1, <2>4, <2>5, <2>6, <2>7, <2>9, <2>10, <2>11
<1>5. G \in SUBSET Nat
  OBVIOUS
<1>6. n - i \in G
  <2>1. n - i \in Nat
    OBVIOUS
  <2> HIDE DEF G
  <2> QED BY <1>3, <1>4, <1>5, <2>1, ApplyFold!Induction
<1>7. i + (n - i) = n /\ n <= Len(F)
  OBVIOUS
<1> QED BY <1>6, <1>7

\* fat ops with their ops replaced.
LEMMA CarryIs ==
    ASSUME NEW F \in Seq(FatOps), NEW ops \in Seq(O), Len(ops) = Len(F)
    PROVE  /\ Carry(F, ops) \in Seq(FatOps) /\ Len(Carry(F, ops)) = Len(F)
           /\ \A i \in 1..Len(F) : /\ Carry(F, ops)[i] = [F[i] EXCEPT !.op = ops[i]]
                                   /\ Carry(F, ops)[i].op = ops[i]
                                   /\ Carry(F, ops)[i].seq = F[i].seq
           /\ Plain(Carry(F, ops)) = ops
<1>1. PICK n, t : n = Len(F) /\ t = Carry(F, ops)
  OBVIOUS
<1>2. /\ n \in Nat /\ DOMAIN F = 1..n /\ Len(ops) = n
      /\ \A i \in 1..n : F[i] \in FatOps /\ ops[i] \in O
  BY <1>1
<1>3. t = [i \in 1..n |-> [F[i] EXCEPT !.op = ops[i]]]
  BY <1>1, <1>2 DEF Carry
<1>4. ASSUME NEW i \in 1..n
      PROVE  /\ t[i] = [F[i] EXCEPT !.op = ops[i]] /\ t[i] \in FatOps
             /\ t[i].op = ops[i] /\ t[i].seq = F[i].seq
  <2>1. PICK f, o : f = F[i] /\ o = ops[i]
    OBVIOUS
  <2>2. f \in FatOps /\ o \in O /\ t[i] = [f EXCEPT !.op = o]
    BY <1>2, <1>3, <2>1
  <2>3. /\ [f EXCEPT !.op = o] \in FatOps /\ [f EXCEPT !.op = o].op = o
        /\ [f EXCEPT !.op = o].seq = f.seq
    BY <2>2 DEF FatOps
  <2> QED BY <2>1, <2>2, <2>3
<1>5. t \in [1..n -> FatOps]
  BY <1>3, <1>4
<1>6. t \in Seq(FatOps) /\ Len(t) = n
  BY <1>2, <1>5
<1>7. PICK p : p = Plain(t)
  OBVIOUS
<1>8. p \in Seq(O) /\ Len(p) = n /\ \A i \in 1..n : p[i] = t[i].op
  BY <1>6, <1>7, PlainIs
<1>9. Agree(p, ops, n)
  BY <1>4, <1>8 DEF Agree
<1>10. p = ops
  BY <1>2, <1>8, <1>9, SameSeq
<1> QED BY <1>1, <1>4, <1>6, <1>7, <1>10

LEMMA PrefixAgree ==
    ASSUME NEW T, NEW s \in Seq(T), NEW r \in Seq(T), NEW m \in Nat, m <= Len(s), m <= Len(r),
           Agree(s, r, m)
    PROVE  SubSeq(s, 1, m) = SubSeq(r, 1, m)
<1>1. \A k \in 1..m : s[k] \in T /\ r[k] \in T
  OBVIOUS
<1>2. PICK x, y : x = SubSeq(s, 1, m) /\ y = SubSeq(r, 1, m)
  OBVIOUS
<1>3. x \in Seq(T) /\ Len(x) = m /\ \A k \in 1..m : x[k] = s[k]
  BY <1>1, <1>2, SubSeqProperties
<1>4. y \in Seq(T) /\ Len(y) = m /\ \A k \in 1..m : y[k] = r[k]
  BY <1>1, <1>2, SubSeqProperties
<1>5. Agree(x, y, m)
  BY <1>3, <1>4 DEF Agree
<1>6. x = y
  BY <1>3, <1>4, <1>5, SameSeq
<1> QED BY <1>2, <1>6

-----------------------------------------------------------------------------
(* Where the ops of a client are                                            *)

\* l begins with F, transformed past the ops A.
Carried(l, F, A) ==
    \A i \in 1..Len(F) : l[i] = [F[i] EXCEPT !.op = QuatradicTransform(A, Plain(F))[i]]

\* F transformed past the ops A is in the history H after position j.
Block(H, j, F, A) ==
    \A i \in 1..Len(F) : H[j + i] = [F[i] EXCEPT !.op = QuatradicTransform(A, Plain(F))[i]]

Own(H, c, i) == H[i].op.site = c

\* The first m local ops l of client c, which has processed s ops of the
\* history H, are in flight: the batch b carried along what the client has
\* processed since it sent b; the owner has not handled it.
InFlightPhase(H, c, s, l, m, b) ==
    /\ b \in Batches /\ b.context \in 0..s /\ Len(b.ops) = m /\ m # 0
    /\ Carried(l, b.ops, SubSeq(Plain(H), b.context + 1, s))
    /\ \A i \in (s + 1)..Len(H) : ~Own(H, c, i)

\* The owner has handled them: the same batch carried along what the owner
\* had is a block of the history, which the client has not reached.
HandledAt(H, c, s, l, m, F, j, ctx) ==
    /\ Len(F) = m /\ m # 0 /\ j + m <= Len(H)
    /\ Carried(l, F, SubSeq(Plain(H), ctx + 1, s))
    /\ Block(H, j, F, SubSeq(Plain(H), ctx + 1, j))
    /\ \A i \in (s + 1)..Len(H) : Own(H, c, i) <=> i \in (j + 1)..(j + m)
HandledPhase(H, c, s, l, m) ==
    \E F \in Seq(FatOps), j \in s..Len(H), ctx \in 0..s : HandledAt(H, c, s, l, m, F, j, ctx)

\* The client is processing them: they are the next ops of the history.
AckPhase(H, c, s, l, m) ==
    /\ s + m <= Len(H)
    /\ \A i \in 1..m : H[s + i] = l[i]
    /\ \A i \in (s + 1)..Len(H) : Own(H, c, i) <=> i <= s + m

Phase(H, c, s, l, m, fl) ==
    \/ \E b : fl = <<b>> /\ InFlightPhase(H, c, s, l, m, b)
    \/ fl = << >> /\ (HandledPhase(H, c, s, l, m) \/ AckPhase(H, c, s, l, m))

\* The client reaches the block: what it carried is what the owner carried.
LEMMA BlockReached ==
    ASSUME NEW H, NEW c, NEW s, NEW l, NEW m, NEW F, NEW ctx,
           HandledAt(H, c, s, l, m, F, s, ctx), s \in Nat, m \in Nat
    PROVE  AckPhase(H, c, s, l, m)
<1>1. ASSUME NEW i \in 1..m PROVE H[s + i] = l[i]
  BY DEF HandledAt, Carried, Block
<1>2. \A i \in (s + 1)..Len(H) : Own(H, c, i) <=> i <= s + m
  BY DEF HandledAt
<1>3. s + m <= Len(H)
  BY DEF HandledAt
<1> QED BY <1>1, <1>2, <1>3 DEF AckPhase

\* The local ops after a remote op a.
After(l, a) == Carry(l, Row(a, Plain(l)))

LEMMA AfterIs ==
    ASSUME NEW l \in Seq(FatOps), NEW a \in O
    PROVE  /\ After(l, a) \in Seq(FatOps) /\ Len(After(l, a)) = Len(l)
           /\ Plain(After(l, a)) = Row(a, Plain(l))
           /\ \A i \in 1..Len(l) : /\ After(l, a)[i] = [l[i] EXCEPT !.op = Row(a, Plain(l))[i]]
                                   /\ After(l, a)[i].op.site = l[i].op.site
                                   /\ After(l, a)[i].seq = l[i].seq
<1>1. PICK p, r : p = Plain(l) /\ r = Row(a, p)
  OBVIOUS
<1>2. p \in Seq(O) /\ Len(p) = Len(l) /\ \A i \in 1..Len(l) : p[i] = l[i].op
  BY <1>1, PlainIs
<1>3. r \in Seq(O) /\ Len(r) = Len(l)
  BY <1>1, <1>2, OpsOk, RowType
<1>4. \A i \in 1..Len(l) : r[i].site = p[i].site
  <2>1. \A i \in 1..Len(p) : r[i].site = p[i].site
    BY <1>1, <1>2, OpsOk, RowElement
  <2> QED BY <1>2, <2>1
<1>5. /\ Carry(l, r) \in Seq(FatOps) /\ Len(Carry(l, r)) = Len(l) /\ Plain(Carry(l, r)) = r
      /\ \A i \in 1..Len(l) : /\ Carry(l, r)[i] = [l[i] EXCEPT !.op = r[i]]
                              /\ Carry(l, r)[i].op = r[i] /\ Carry(l, r)[i].seq = l[i].seq
  BY <1>3, CarryIs
<1>6. After(l, a) = Carry(l, r)
  BY <1>1 DEF After
<1> QED BY <1>1, <1>2, <1>4, <1>5, <1>6

LEMMA CarriedAfter ==
    ASSUME NEW l \in Seq(FatOps), NEW F \in Seq(FatOps), NEW A \in Seq(O), NEW a \in O,
           Len(F) <= Len(l), Carried(l, F, A)
    PROVE  Carried(After(l, a), F, Append(A, a))
<1>1. PICK p, x, f, n, m : /\ p = Plain(l) /\ f = Plain(F) /\ x = QuatradicTransform(A, f)
                           /\ n = Len(l) /\ m = Len(F)
  OBVIOUS
<1>2. /\ n \in Nat /\ m \in Nat /\ m <= n /\ p \in Seq(O) /\ Len(p) = n
      /\ \A i \in 1..n : p[i] = l[i].op
  BY <1>1, PlainIs
<1>3. f \in Seq(O) /\ Len(f) = m
  BY <1>1, PlainIs
<1>4. x \in Seq(O) /\ Len(x) = m
  BY <1>1, <1>3, OpsOk, TransportType
<1>5. QuatradicTransform(Append(A, a), f) = Row(a, x)
  BY <1>1, <1>3, OpsOk, TransportAppend
<1>6. ASSUME NEW i \in 1..m
      PROVE  l[i] = [F[i] EXCEPT !.op = x[i]] /\ p[i] = x[i] /\ i \in 1..n
  <2>1. l[i] = [F[i] EXCEPT !.op = x[i]]
    BY <1>1 DEF Carried
  <2>2. PICK g : g = F[i]
    OBVIOUS
  <2>3. g \in FatOps /\ i \in 1..n
    BY <1>1, <1>2, <2>2
  <2>4. [g EXCEPT !.op = x[i]].op = x[i]
    BY <2>3 DEF FatOps
  <2> QED BY <1>2, <2>1, <2>2, <2>3, <2>4
<1>7. ASSUME NEW i \in 1..m PROVE Row(a, p)[i] = Row(a, x)[i]
  <2>1. PICK k : k = i - 1
    OBVIOUS
  <2>2. k \in Nat /\ k <= n /\ k <= m /\ k <= Len(p) /\ k <= Len(x)
    BY <1>2, <1>4, <2>1
  <2>3. Agree(p, x, k)
    <3>1. \A h \in 1..k : h \in 1..m
      BY <1>2, <2>2
    <3> QED BY <1>6, <3>1 DEF Agree
  <2>4. SubSeq(p, 1, k) = SubSeq(x, 1, k)
    BY <1>2, <1>4, <2>2, <2>3, PrefixAgree
  <2>5. i \in 1..Len(p) /\ i \in 1..Len(x)
    BY <1>2, <1>4
  <2>6. Row(a, p)[i] = Transform(p[i], BatchTransform(a, SubSeq(p, 1, i - 1)))
    BY <1>2, <2>5, OpsOk, RowElement
  <2>7. Row(a, x)[i] = Transform(x[i], BatchTransform(a, SubSeq(x, 1, i - 1)))
    BY <1>4, <2>5, OpsOk, RowElement
  <2> QED BY <1>6, <2>1, <2>4, <2>6, <2>7
<1>8. ASSUME NEW i \in 1..m PROVE After(l, a)[i] = [F[i] EXCEPT !.op = Row(a, x)[i]]
  <2>1. After(l, a)[i] = [l[i] EXCEPT !.op = Row(a, p)[i]]
    <3>1. i \in 1..Len(l)
      BY <1>1, <1>6
    <3>2. After(l, a)[i] = [l[i] EXCEPT !.op = Row(a, Plain(l))[i]]
      BY <3>1, AfterIs
    <3> QED BY <1>1, <3>2
  <2>2. After(l, a)[i] = [[F[i] EXCEPT !.op = x[i]] EXCEPT !.op = Row(a, x)[i]]
    BY <1>6, <1>7, <2>1
  <2>3. PICK g, y, z : g = F[i] /\ y = x[i] /\ z = Row(a, x)[i]
    OBVIOUS
  <2>4. g \in FatOps
    BY <1>1, <2>3
  <2>5. [[g EXCEPT !.op = y] EXCEPT !.op = z] = [g EXCEPT !.op = z]
    BY <2>4 DEF FatOps
  <2> QED BY <2>2, <2>3, <2>5
<1> QED BY <1>1, <1>5, <1>8 DEF Carried

-----------------------------------------------------------------------------
(* The document after the first n ops of the history                        *)

DocAt(h, n) == ApplyOps(InitDoc, SubSeq(h, 1, n))

LEMMA PrefixStretches ==
    ASSUME NEW T, NEW s \in Seq(T), NEW n \in 0..Len(s)
    PROVE  /\ SubSeq(s, 1, n) \in Seq(T) /\ Len(SubSeq(s, 1, n)) = n
           /\ \A i \in 1..n : SubSeq(s, 1, n)[i] = s[i]
           /\ \A r \in Seq(T) : SubSeq(s \o r, 1, n) = SubSeq(s, 1, n)
           /\ n < Len(s) => SubSeq(s, 1, n + 1) = Append(SubSeq(s, 1, n), s[n + 1])
<1>1. 0 \in 0..n /\ 0 + 1 = 1 /\ n \in Nat
  OBVIOUS
<1>2. \A r \in Seq(T) : SubSeq(s \o r, 0 + 1, n) = SubSeq(s, 0 + 1, n)
  BY <1>1, StretchKept
<1>3. n < Len(s) => SubSeq(s, 0 + 1, n + 1) = Append(SubSeq(s, 0 + 1, n), s[n + 1])
  BY <1>1, StretchNext
<1>4. \A k \in 1..n : s[k] \in T
  OBVIOUS
<1>5. PICK x : x = SubSeq(s, 1, n)
  OBVIOUS
<1>6. x \in Seq(T) /\ Len(x) = n /\ \A k \in 1..n : x[k] = s[k]
  BY <1>1, <1>4, <1>5, SubSeqProperties
<1> QED BY <1>1, <1>2, <1>3, <1>5, <1>6

LEMMA ValidPrefix ==
    ASSUME NEW D, NEW L \in Seq(O), NEW m \in 0..Len(L), Valid(D, L)
    PROVE  Valid(D, SubSeq(L, 1, m))
<1>1. PICK x, n : x = SubSeq(L, 1, m) /\ n = Len(L)
  OBVIOUS
<1>2. /\ x \in Seq(O) /\ Len(x) = m /\ m \in Nat /\ n \in Nat /\ m <= n
      /\ \A i \in 1..m : x[i] = L[i]
  BY <1>1, PrefixStretches
<1>3. ASSUME NEW i \in 1..m PROVE Fits(x[i], ApplyOps(D, SubSeq(x, 1, i - 1)))
  <2>1. PICK k : k = i - 1
    OBVIOUS
  <2>2. k \in Nat /\ k <= Len(x) /\ k <= Len(L) /\ i \in 1..n
    BY <1>1, <1>2, <2>1
  <2>3. Agree(x, L, k)
    <3>1. \A j \in 1..k : j \in 1..m
      BY <1>2, <2>1
    <3> QED BY <1>2, <3>1 DEF Agree
  <2>4. SubSeq(x, 1, k) = SubSeq(L, 1, k)
    BY <1>2, <2>2, <2>3, PrefixAgree
  <2>5. Fits(L[i], ApplyOps(D, SubSeq(L, 1, i - 1)))
    BY <1>1, <2>2 DEF Valid
  <2> QED BY <1>2, <2>1, <2>4, <2>5
<1> QED BY <1>1, <1>2, <1>3 DEF Valid

LEMMA InitDocType == InitDoc \in Seq(Cells(Chars))
<1>1. InitLen \in Nat
  BY ClientAssumption
<1>2. \A i \in 1..InitLen : Cell(<<0, i>>, TRUE) \in Cells(Chars)
  BY <1>1 DEF Cell, Cells, Chars
<1>3. InitDoc \in [1..InitLen -> Cells(Chars)]
  BY <1>2 DEF InitDoc
<1>4. PICK d, n : d = InitDoc /\ n = InitLen
  OBVIOUS
<1>5. d \in Seq(Cells(Chars))
  BY <1>1, <1>3, <1>4
<1> QED BY <1>4, <1>5

LEMMA DocAtType ==
    ASSUME NEW h \in Seq(O), NEW n \in 0..Len(h), Valid(InitDoc, h)
    PROVE  DocAt(h, n) \in Seq(Cells(Chars))
<1>1. PICK x : x = SubSeq(h, 1, n)
  OBVIOUS
<1>2. x \in Seq(O) /\ Valid(InitDoc, x)
  BY <1>1, PrefixStretches, ValidPrefix
<1>3. ApplyOps(InitDoc, x) \in Seq(Cells(Chars))
  BY <1>2, InitDocType, OpsOk, ApplyOpsType
<1> QED BY <1>1, <1>3 DEF DocAt

LEMMA DocAtNext ==
    ASSUME NEW h \in Seq(O), NEW n \in Nat, n < Len(h), Valid(InitDoc, h)
    PROVE  /\ h[n + 1] \in O /\ Fits(h[n + 1], DocAt(h, n))
           /\ DocAt(h, n + 1) = ApplyOp(DocAt(h, n), h[n + 1])
<1>1. PICK m, x, a : m = n + 1 /\ x = SubSeq(h, 1, n) /\ a = h[m]
  OBVIOUS
<1>2. m \in 1..Len(h) /\ m - 1 = n /\ n \in 0..Len(h)
  BY <1>1
<1>3. a \in O
  BY <1>1, <1>2
<1>4. Fits(h[m], ApplyOps(InitDoc, SubSeq(h, 1, m - 1)))
  BY <1>2 DEF Valid
<1>5. x \in Seq(O) /\ SubSeq(h, 1, n + 1) = Append(x, h[n + 1])
  BY <1>1, <1>2, PrefixStretches
<1>6. ApplyOps(InitDoc, Append(x, a)) = ApplyOp(ApplyOps(InitDoc, x), a)
  BY <1>3, <1>5, ApplyOpsAppend
<1> QED BY <1>1, <1>2, <1>3, <1>4, <1>5, <1>6 DEF DocAt

LEMMA DocAtKept ==
    ASSUME NEW h \in Seq(O), NEW r \in Seq(O), NEW n \in 0..Len(h)
    PROVE  DocAt(h \o r, n) = DocAt(h, n)
BY PrefixStretches DEF DocAt

LEMMA DocAtAll ==
    ASSUME NEW h \in Seq(O)
    PROVE  DocAt(h, Len(h)) = ApplyOps(InitDoc, h)
BY StretchAll DEF DocAt

-----------------------------------------------------------------------------
(* How the phases of a client follow each other                             *)

LEMMA CarriedNext ==
    ASSUME NEW H \in Seq(FatOps), NEW l \in Seq(FatOps), NEW F \in Seq(FatOps),
           NEW s \in Nat, s < Len(H), NEW ctx \in 0..s, Len(F) <= Len(l),
           Carried(l, F, SubSeq(Plain(H), ctx + 1, s))
    PROVE  Carried(After(l, H[s + 1].op), F, SubSeq(Plain(H), ctx + 1, s + 1))
<1>1. PICK p, a, A : p = Plain(H) /\ a = H[s + 1].op /\ A = SubSeq(p, ctx + 1, s)
  OBVIOUS
<1>2. s + 1 \in 1..Len(H)
  OBVIOUS
<1>3. p \in Seq(O) /\ s < Len(p) /\ p[s + 1] = a /\ a \in O
  BY <1>1, <1>2, PlainIs
<1>4. A \in Seq(O) /\ SubSeq(p, ctx + 1, s + 1) = Append(A, a)
  BY <1>1, <1>3, StretchNext
<1>5. Carried(l, F, A)
  BY <1>1
<1>6. Carried(After(l, a), F, Append(A, a))
  BY <1>3, <1>4, <1>5, CarriedAfter
<1> QED BY <1>1, <1>4, <1>6

\* The next op is of another site.
LEMMA ForeignPhase ==
    ASSUME NEW H \in Seq(FatOps), NEW l \in Seq(FatOps), NEW s \in Nat, s < Len(H), NEW c,
           NEW m \in 0..Len(l), NEW fl, Phase(H, c, s, l, m, fl), ~Own(H, c, s + 1)
    PROVE  Phase(H, c, s + 1, After(l, H[s + 1].op), m, fl)
<1>1. PICK t, r, n : t = s + 1 /\ r = After(l, H[s + 1].op) /\ n = Len(H)
  OBVIOUS
<1>2. t \in Nat /\ t \in 1..n /\ n \in Nat /\ s < t /\ m \in Nat /\ m <= Len(l)
  BY <1>1
<1>3. ~Own(H, c, t)
  BY <1>1
<1>4. \A i \in (t + 1)..n : i \in (s + 1)..n
  BY <1>1, <1>2
<1>5. t \in (s + 1)..n
  BY <1>1, <1>2
<1>6. ASSUME NEW b, fl = <<b>>, InFlightPhase(H, c, s, l, m, b)
      PROVE  InFlightPhase(H, c, t, r, m, b)
  <2>1. PICK ctx, F : ctx = b.context /\ F = b.ops
    OBVIOUS
  <2>2. b \in Batches /\ ctx \in 0..s /\ Len(F) = m /\ m # 0
    BY <1>6, <2>1 DEF InFlightPhase
  <2>3. F \in Seq(FatOps) /\ ctx \in 0..t
    BY <1>2, <2>1, <2>2 DEF Batches
  <2>4. Carried(l, F, SubSeq(Plain(H), ctx + 1, s))
    BY <1>6, <2>1 DEF InFlightPhase
  <2>5. Carried(r, F, SubSeq(Plain(H), ctx + 1, t))
    BY <1>1, <1>2, <2>2, <2>3, <2>4, CarriedNext
  <2>6. \A i \in (s + 1)..n : ~Own(H, c, i)
    BY <1>1, <1>6 DEF InFlightPhase
  <2> QED BY <1>1, <1>4, <2>1, <2>2, <2>3, <2>5, <2>6 DEF InFlightPhase
<1>7. ASSUME HandledPhase(H, c, s, l, m)
      PROVE  HandledPhase(H, c, t, r, m)
  <2>1. PICK F \in Seq(FatOps), j \in s..n, ctx \in 0..s : HandledAt(H, c, s, l, m, F, j, ctx)
    BY <1>1, <1>7 DEF HandledPhase
  <2>2. /\ Len(F) = m /\ m # 0 /\ j + m <= n
        /\ Carried(l, F, SubSeq(Plain(H), ctx + 1, s))
        /\ Block(H, j, F, SubSeq(Plain(H), ctx + 1, j))
        /\ \A i \in (s + 1)..n : Own(H, c, i) <=> i \in (j + 1)..(j + m)
    BY <1>1, <2>1 DEF HandledAt
  <2>3. t \notin (j + 1)..(j + m)
    BY <1>3, <1>5, <2>2
  <2>4. j \in t..n /\ ctx \in 0..t
    BY <1>1, <1>2, <2>2, <2>3
  <2>5. Carried(r, F, SubSeq(Plain(H), ctx + 1, t))
    BY <1>1, <1>2, <2>2, CarriedNext
  <2>6. HandledAt(H, c, t, r, m, F, j, ctx)
    BY <1>1, <1>4, <2>2, <2>5 DEF HandledAt
  <2> QED BY <1>1, <2>4, <2>6 DEF HandledPhase
<1>8. ASSUME AckPhase(H, c, s, l, m)
      PROVE  AckPhase(H, c, t, r, m)
  <2>1. s + m <= n /\ \A i \in (s + 1)..n : Own(H, c, i) <=> i <= s + m
    BY <1>1, <1>8 DEF AckPhase
  <2>2. m = 0
    BY <1>1, <1>2, <1>3, <1>5, <2>1
  <2>3. \A i \in (t + 1)..n : ~(i <= s + m) /\ ~(i <= t + m)
    BY <1>1, <1>2, <2>2
  <2>4. \A i \in 1..m : H[t + i] = r[i]
    BY <2>2
  <2>5. t + m <= n
    BY <1>2, <2>2
  <2>6. \A i \in (t + 1)..n : Own(H, c, i) <=> i <= t + m
    BY <1>4, <2>1, <2>3
  <2> QED BY <1>1, <2>4, <2>5, <2>6 DEF AckPhase
<1>9. Phase(H, c, t, r, m, fl)
  BY <1>6, <1>7, <1>8 DEF Phase
<1> QED BY <1>1, <1>9

\* The next op is the client's own: it is the first of its local ops.
LEMMA OwnIsFirst ==
    ASSUME NEW H \in Seq(FatOps), NEW l \in Seq(FatOps), NEW s \in Nat, s < Len(H), NEW c,
           NEW m \in 0..Len(l), NEW fl, Phase(H, c, s, l, m, fl), Own(H, c, s + 1)
    PROVE  /\ m # 0 /\ l # << >> /\ l[1] = H[s + 1] /\ fl = << >>
           /\ AckPhase(H, c, s, l, m)
<1>1. PICK t, n : t = s + 1 /\ n = Len(H)
  OBVIOUS
<1>2. /\ t \in (s + 1)..n /\ Own(H, c, t) /\ m \in Nat /\ m <= Len(l) /\ n \in Nat
      /\ t \in Nat
  BY <1>1
<1>3. ASSUME NEW b, InFlightPhase(H, c, s, l, m, b) PROVE FALSE
  <2>1. \A i \in (s + 1)..n : ~Own(H, c, i)
    BY <1>1, <1>3 DEF InFlightPhase
  <2> QED BY <1>2, <2>1
<1>4. fl = << >> /\ (HandledPhase(H, c, s, l, m) \/ AckPhase(H, c, s, l, m))
  BY <1>3 DEF Phase
<1>5. ASSUME HandledPhase(H, c, s, l, m) PROVE AckPhase(H, c, s, l, m)
  <2>1. PICK F \in Seq(FatOps), j \in s..n, ctx \in 0..s : HandledAt(H, c, s, l, m, F, j, ctx)
    BY <1>1, <1>5 DEF HandledPhase
  <2>2. \A i \in (s + 1)..n : Own(H, c, i) <=> i \in (j + 1)..(j + m)
    BY <1>1, <2>1 DEF HandledAt
  <2>3. t \in (j + 1)..(j + m)
    BY <1>2, <2>2
  <2>4. j = s
    BY <1>1, <2>1, <2>3
  <2> QED BY <1>2, <2>1, <2>4, BlockReached
<1>6. AckPhase(H, c, s, l, m)
  BY <1>4, <1>5
<1>7. t <= s + m
  <2>1. \A i \in (s + 1)..n : Own(H, c, i) <=> i <= s + m
    BY <1>1, <1>6 DEF AckPhase
  <2> QED BY <1>2, <2>1
<1>8. m # 0 /\ 1 \in 1..m
  BY <1>1, <1>2, <1>7
<1>9. H[s + 1] = l[1]
  BY <1>6, <1>8 DEF AckPhase
<1>10. l # << >>
  BY <1>2, <1>8
<1> QED BY <1>4, <1>6, <1>8, <1>9, <1>10

LEMMA OwnPhase ==
    ASSUME NEW H \in Seq(FatOps), NEW l \in Seq(FatOps), NEW s \in Nat, s < Len(H), NEW c,
           NEW m \in 0..Len(l), m # 0, AckPhase(H, c, s, l, m)
    PROVE  AckPhase(H, c, s + 1, Tail(l), m - 1)
<1>1. PICK t, k, r, n : t = s + 1 /\ k = m - 1 /\ r = Tail(l) /\ n = Len(H)
  OBVIOUS
<1>2. /\ t \in Nat /\ n \in Nat /\ m \in Nat /\ k \in Nat /\ t + k = s + m /\ m <= Len(l)
      /\ Len(l) # 0
  BY <1>1
<1>3. /\ s + m <= n /\ \A i \in 1..m : H[s + i] = l[i]
      /\ \A i \in (s + 1)..n : Own(H, c, i) <=> i <= s + m
  BY <1>1 DEF AckPhase
<1>4. \A i \in 1..(Len(l) - 1) : r[i] = l[i + 1]
  BY <1>1, <1>2
<1>5. ASSUME NEW i \in 1..k PROVE H[t + i] = r[i]
  <2>1. PICK h : h = i + 1
    OBVIOUS
  <2>2. h \in 1..m /\ t + i = s + h /\ i \in 1..(Len(l) - 1)
    BY <1>1, <1>2, <2>1
  <2> QED BY <1>3, <1>4, <2>1, <2>2
<1>6. \A i \in (t + 1)..n : i \in (s + 1)..n
  BY <1>1, <1>2
<1>7. AckPhase(H, c, t, r, k)
  BY <1>1, <1>2, <1>3, <1>5, <1>6 DEF AckPhase
<1> QED BY <1>1, <1>7

\* None of its ops is pending: the client sends all it has.
LEMMA SendPhase ==
    ASSUME NEW H \in Seq(FatOps), NEW l \in Seq(FatOps), NEW s \in 0..Len(H), NEW c,
           l # << >>, AckPhase(H, c, s, l, 0)
    PROVE  InFlightPhase(H, c, s, l, Len(l), [context |-> s, ops |-> l])
<1>1. PICK p, n, m, e : p = Plain(H) /\ n = Len(H) /\ m = Len(l) /\ e = SubSeq(p, s + 1, s)
  OBVIOUS
<1>2. n \in Nat /\ m \in Nat /\ m # 0 /\ p \in Seq(O) /\ Len(p) = n /\ s \in Nat /\ s \in 0..s
  BY <1>1, PlainIs
<1>3. e = << >>
  BY <1>1, <1>2, StretchNone
<1>4. PICK f : f = Plain(l)
  OBVIOUS
<1>5. f \in Seq(O) /\ \A i \in 1..m : f[i] = l[i].op
  BY <1>1, <1>4, PlainIs
<1>6. QuatradicTransform(e, f) = f
  BY <1>3, <1>5, OpsOk, TransportEmpty
<1>7. ASSUME NEW i \in 1..m PROVE l[i] = [l[i] EXCEPT !.op = f[i]]
  <2>1. PICK g : g = l[i]
    OBVIOUS
  <2>2. g \in FatOps /\ f[i] = g.op
    BY <1>1, <1>5, <2>1
  <2>3. g = [g EXCEPT !.op = g.op]
    BY <2>2 DEF FatOps
  <2> QED BY <2>1, <2>2, <2>3
<1>8. Carried(l, l, e)
  BY <1>1, <1>4, <1>6, <1>7 DEF Carried
<1>9. \A i \in (s + 1)..n : ~Own(H, c, i)
  <2>1. \A i \in (s + 1)..n : Own(H, c, i) <=> i <= s + 0
    BY <1>1 DEF AckPhase
  <2>2. \A i \in (s + 1)..n : ~(i <= s + 0)
    BY <1>2
  <2> QED BY <2>1, <2>2
<1>10. PICK b : b = [context |-> s, ops |-> l]
  OBVIOUS
<1>11. b \in Batches /\ b.context = s /\ b.ops = l
  BY <1>2, <1>10 DEF Batches
<1>12. InFlightPhase(H, c, s, l, m, b)
  BY <1>1, <1>2, <1>8, <1>9, <1>11 DEF InFlightPhase
<1> QED BY <1>1, <1>10, <1>12

\* The client makes another op.
LEMMA AppendPhase ==
    ASSUME NEW H, NEW c, NEW s, NEW l, NEW r, NEW m, NEW fl, Agree(l, r, m),
           Phase(H, c, s, l, m, fl)
    PROVE  Phase(H, c, s, r, m, fl)
<1>1. \A i \in 1..m : l[i] = r[i]
  BY DEF Agree
<1>2. ASSUME NEW F, NEW A, Len(F) = m, Carried(l, F, A) PROVE Carried(r, F, A)
  BY <1>1, <1>2 DEF Carried
<1>3. ASSUME NEW b, InFlightPhase(H, c, s, l, m, b) PROVE InFlightPhase(H, c, s, r, m, b)
  BY <1>2, <1>3 DEF InFlightPhase
<1>4. ASSUME HandledPhase(H, c, s, l, m) PROVE HandledPhase(H, c, s, r, m)
  <2>1. PICK F \in Seq(FatOps), j \in s..Len(H), ctx \in 0..s :
               HandledAt(H, c, s, l, m, F, j, ctx)
    BY <1>4 DEF HandledPhase
  <2>2. HandledAt(H, c, s, r, m, F, j, ctx)
    BY <1>2, <2>1 DEF HandledAt
  <2> QED BY <2>2 DEF HandledPhase
<1>5. ASSUME AckPhase(H, c, s, l, m) PROVE AckPhase(H, c, s, r, m)
  BY <1>1, <1>5 DEF AckPhase
<1> QED BY <1>3, <1>4, <1>5 DEF Phase

LEMMA Extended ==
    ASSUME NEW H \in Seq(FatOps), NEW X \in Seq(FatOps), NEW c
    PROVE  /\ H \o X \in Seq(FatOps) /\ Len(H \o X) = Len(H) + Len(X)
           /\ \A i \in 1..Len(H) : /\ (H \o X)[i] = H[i]
                                   /\ Own(H \o X, c, i) <=> Own(H, c, i)
           /\ \A i \in 1..Len(X) : (H \o X)[Len(H) + i] = X[i]
           /\ \A n \in 0..Len(H) : \A i \in 0..n :
                 SubSeq(Plain(H \o X), i + 1, n) = SubSeq(Plain(H), i + 1, n)
<1>1. PICK G, n, m, h : G = H \o X /\ n = Len(H) /\ m = Len(X) /\ h = n + m
  OBVIOUS
<1>2. /\ n \in Nat /\ m \in Nat /\ G \in Seq(FatOps) /\ Len(G) = h
      /\ \A i \in 1..h : G[i] = IF i <= n THEN H[i] ELSE X[i - n]
  BY <1>1, ConcatProperties
<1>3. \A i \in 1..n : i \in 1..h /\ i <= n
  BY <1>1, <1>2
<1>4. \A i \in 1..n : G[i] = H[i]
  BY <1>2, <1>3
<1>5. \A i \in 1..n : Own(G, c, i) <=> Own(H, c, i)
  BY <1>4 DEF Own
<1>7. ASSUME NEW i \in 1..m PROVE G[n + i] = X[i]
  <2>1. PICK k : k = n + i
    OBVIOUS
  <2>2. k \in 1..h /\ ~(k <= n) /\ k - n = i
    BY <1>1, <1>2, <2>1
  <2>3. G[k] = X[k - n]
    BY <1>2, <2>2
  <2> QED BY <2>1, <2>2, <2>3
<1>8. PICK p, x : p = Plain(H) /\ x = Plain(X)
  OBVIOUS
<1>9. p \in Seq(O) /\ x \in Seq(O) /\ Len(p) = n /\ Plain(G) = p \o x
  BY <1>1, <1>8, PlainIs, PlainConcat
<1>10. ASSUME NEW k \in 0..n, NEW i \in 0..k
       PROVE  SubSeq(Plain(G), i + 1, k) = SubSeq(Plain(H), i + 1, k)
  BY <1>8, <1>9, StretchKept
<1> QED BY <1>1, <1>2, <1>4, <1>5, <1>7, <1>10

\* The owner sequences ops of another client.
LEMMA ExtendPhase ==
    ASSUME NEW H \in Seq(FatOps), NEW X \in Seq(FatOps), NEW c, NEW s \in 0..Len(H), NEW l,
           NEW m \in Nat, NEW fl, Phase(H, c, s, l, m, fl),
           \A i \in 1..Len(X) : X[i].op.site # c
    PROVE  Phase(H \o X, c, s, l, m, fl)
<1>1. PICK G, n, x, h : G = H \o X /\ n = Len(H) /\ x = Len(X) /\ h = n + x
  OBVIOUS
<1>2. /\ n \in Nat /\ x \in Nat /\ h \in Nat /\ s \in 0..n /\ Len(G) = h
      /\ \A i \in 1..n : G[i] = H[i] /\ (Own(G, c, i) <=> Own(H, c, i))
      /\ \A i \in 1..x : G[n + i] = X[i]
      /\ \A k \in 0..n : \A i \in 0..k :
            SubSeq(Plain(G), i + 1, k) = SubSeq(Plain(H), i + 1, k)
  <2>1. n \in Nat /\ x \in Nat /\ h \in Nat /\ s \in 0..n
    BY <1>1
  <2>2. /\ Len(H \o X) = Len(H) + Len(X)
        /\ \A i \in 1..Len(H) : /\ (H \o X)[i] = H[i]
                                /\ Own(H \o X, c, i) <=> Own(H, c, i)
    BY Extended
  <2>3. \A i \in 1..Len(X) : (H \o X)[Len(H) + i] = X[i]
    BY Extended
  <2>4. \A k \in 0..Len(H) : \A i \in 0..k :
           SubSeq(Plain(H \o X), i + 1, k) = SubSeq(Plain(H), i + 1, k)
    BY Extended
  <2> QED BY <1>1, <2>1, <2>2, <2>3, <2>4
<1>3. ASSUME NEW i \in (n + 1)..h PROVE ~Own(G, c, i)
  <2>1. PICK k : k = i - n
    OBVIOUS
  <2>2. k \in 1..x /\ n + k = i
    BY <1>1, <1>2, <2>1
  <2> QED BY <1>1, <1>2, <2>2 DEF Own
<1>4. \A i \in (s + 1)..h : i \in (n + 1)..h \/ (i \in (s + 1)..n /\ i \in 1..n)
  BY <1>2
<1>5. ASSUME NEW b, InFlightPhase(H, c, s, l, m, b) PROVE InFlightPhase(G, c, s, l, m, b)
  <2>1. /\ b \in Batches /\ b.context \in 0..s /\ Len(b.ops) = m /\ m # 0
        /\ Carried(l, b.ops, SubSeq(Plain(H), b.context + 1, s))
        /\ \A i \in (s + 1)..n : ~Own(H, c, i)
    BY <1>1, <1>5 DEF InFlightPhase
  <2>2. SubSeq(Plain(G), b.context + 1, s) = SubSeq(Plain(H), b.context + 1, s)
    BY <1>2, <2>1
  <2>3. \A i \in (s + 1)..h : ~Own(G, c, i)
    BY <1>2, <1>3, <1>4, <2>1
  <2> QED BY <1>2, <2>1, <2>2, <2>3 DEF InFlightPhase
<1>6. ASSUME HandledPhase(H, c, s, l, m) PROVE HandledPhase(G, c, s, l, m)
  <2>1. PICK F \in Seq(FatOps), j \in s..n, ctx \in 0..s : HandledAt(H, c, s, l, m, F, j, ctx)
    BY <1>1, <1>6 DEF HandledPhase
  <2>2. /\ Len(F) = m /\ m # 0 /\ j + m <= n
        /\ Carried(l, F, SubSeq(Plain(H), ctx + 1, s))
        /\ Block(H, j, F, SubSeq(Plain(H), ctx + 1, j))
        /\ \A i \in (s + 1)..n : Own(H, c, i) <=> i \in (j + 1)..(j + m)
    BY <1>1, <2>1 DEF HandledAt
  <2>3. j \in 0..n /\ ctx \in 0..j /\ j \in s..h
    BY <1>1, <1>2, <2>1
  <2>4. /\ SubSeq(Plain(G), ctx + 1, s) = SubSeq(Plain(H), ctx + 1, s)
        /\ SubSeq(Plain(G), ctx + 1, j) = SubSeq(Plain(H), ctx + 1, j)
    BY <1>2, <2>3
  <2>5. \A i \in 1..m : j + i \in 1..n
    BY <1>2, <2>2, <2>3
  <2>6. \A i \in 1..m : G[j + i] = H[j + i]
    BY <1>2, <2>5
  <2>7. Block(G, j, F, SubSeq(Plain(G), ctx + 1, j))
    BY <2>2, <2>4, <2>6 DEF Block
  <2>8. \A i \in (n + 1)..h : i \notin (j + 1)..(j + m)
    BY <1>2, <2>2, <2>3
  <2>9. \A i \in (s + 1)..h : Own(G, c, i) <=> i \in (j + 1)..(j + m)
    BY <1>2, <1>3, <1>4, <2>2, <2>8
  <2>10. j + m <= h
    BY <1>1, <1>2, <2>2, <2>3
  <2>11. HandledAt(G, c, s, l, m, F, j, ctx)
    BY <1>2, <2>2, <2>4, <2>7, <2>9, <2>10 DEF HandledAt
  <2> QED BY <1>2, <2>3, <2>11 DEF HandledPhase
<1>7. ASSUME AckPhase(H, c, s, l, m) PROVE AckPhase(G, c, s, l, m)
  <2>1. /\ s + m <= n /\ \A i \in 1..m : H[s + i] = l[i]
        /\ \A i \in (s + 1)..n : Own(H, c, i) <=> i <= s + m
    BY <1>1, <1>7 DEF AckPhase
  <2>2. \A i \in 1..m : s + i \in 1..n
    BY <1>2, <2>1
  <2>3. \A i \in 1..m : G[s + i] = l[i]
    BY <1>2, <2>1, <2>2
  <2>4. \A i \in (n + 1)..h : ~(i <= s + m)
    BY <1>2, <2>1
  <2>5. \A i \in (s + 1)..h : Own(G, c, i) <=> i <= s + m
    BY <1>2, <1>3, <1>4, <2>1, <2>4
  <2>6. s + m <= h
    BY <1>1, <1>2, <2>1
  <2> QED BY <1>2, <2>3, <2>5, <2>6 DEF AckPhase
<1>8. Phase(G, c, s, l, m, fl)
  BY <1>5, <1>6, <1>7 DEF Phase
<1> QED BY <1>1, <1>8

\* The ops l of client c, of site seq n at most and in the order of the seqs.
LocalOk(c, l, n) ==
    /\ l \in Seq(FatOps)
    /\ \A i \in 1..Len(l) : l[i].op.site = c /\ l[i].seq <= n
    /\ \A i, j \in 1..Len(l) : i <= j => l[i].seq <= l[j].seq

\* The ops are of client c.
AllBy(c, ops) == \A i \in 1..Len(ops) : ops[i].site = c

\* The ops of a client that are in flight are its own.
LEMMA BatchIsOwn ==
    ASSUME NEW H \in Seq(FatOps), NEW c, NEW s \in 0..Len(H), NEW l, NEW n, LocalOk(c, l, n),
           NEW m \in 0..Len(l), NEW b, InFlightPhase(H, c, s, l, m, b)
    PROVE  /\ b.context \in 0..s /\ b.ops \in Seq(FatOps) /\ Len(b.ops) = m /\ m # 0
           /\ AllBy(c, Plain(b.ops))
           /\ Agree(Plain(l),
                    QuatradicTransform(SubSeq(Plain(H), b.context + 1, s), Plain(b.ops)), m)
<1>1. PICK ctx, F, A, p, f : /\ ctx = b.context /\ F = b.ops /\ p = Plain(H) /\ f = Plain(F)
                             /\ A = SubSeq(p, ctx + 1, s)
  OBVIOUS
<1>2. /\ b \in Batches /\ ctx \in 0..s /\ Len(F) = m /\ m # 0 /\ Carried(l, F, A)
  BY <1>1 DEF InFlightPhase
<1>3. F \in Seq(FatOps) /\ m \in Nat /\ s \in Nat
  BY <1>1, <1>2 DEF Batches
<1>4. p \in Seq(O) /\ Len(p) = Len(H)
  BY <1>1, PlainIs
<1>5. A \in Seq(O)
  BY <1>1, <1>2, <1>4, StretchType
<1>6. f \in Seq(O) /\ Len(f) = m /\ \A i \in 1..m : f[i] = F[i].op
  <2>1. Plain(F) \in Seq(O) /\ Len(Plain(F)) = Len(F)
        /\ \A i \in 1..Len(F) : Plain(F)[i] = F[i].op
    BY <1>3, PlainIs
  <2> QED BY <1>1, <1>2, <2>1
<1>7. PICK q : q = QuatradicTransform(A, f)
  OBVIOUS
<1>8. \A i \in 1..m : q[i].site = f[i].site
  BY <1>5, <1>6, <1>7, OpsOk, TransportSites
<1>9. l \in Seq(FatOps) /\ \A i \in 1..Len(l) : l[i].op.site = c
  BY DEF LocalOk
<1>10. Plain(l) \in Seq(O) /\ \A i \in 1..Len(l) : Plain(l)[i] = l[i].op
  BY <1>9, PlainIs
<1>11. ASSUME NEW i \in 1..m PROVE f[i].site = c /\ Plain(l)[i] = q[i]
  <2>1. l[i] = [F[i] EXCEPT !.op = q[i]]
    BY <1>1, <1>2, <1>7 DEF Carried
  <2>2. PICK g, o : g = F[i] /\ o = q[i]
    OBVIOUS
  <2>3. g \in FatOps /\ i \in 1..Len(l)
    BY <1>2, <1>3, <2>2
  <2>4. [g EXCEPT !.op = o].op = o
    BY <2>3 DEF FatOps
  <2>5. l[i].op = q[i]
    BY <2>1, <2>2, <2>4
  <2>6. q[i].site = c
    BY <1>9, <2>3, <2>5
  <2> QED BY <1>8, <1>10, <2>3, <2>5, <2>6
<1>12. AllBy(c, f) /\ Agree(Plain(l), q, m)
  BY <1>6, <1>11 DEF AllBy, Agree
<1> QED BY <1>1, <1>2, <1>3, <1>7, <1>12

\* The owner sequences the ops of the client.
LEMMA HandlePhase ==
    ASSUME NEW H \in Seq(FatOps), NEW c, NEW s \in 0..Len(H), NEW l, NEW n, LocalOk(c, l, n),
           NEW m \in 0..Len(l), NEW b, InFlightPhase(H, c, s, l, m, b),
           NEW q, q = QuatradicTransform(SubSeq(Plain(H), b.context + 1, Len(H)), Plain(b.ops))
    PROVE  /\ q \in Seq(O) /\ Carry(b.ops, q) \in Seq(FatOps) /\ Plain(Carry(b.ops, q)) = q
           /\ \A i \in 1..Len(Carry(b.ops, q)) : Carry(b.ops, q)[i].op.site = c
           /\ HandledPhase(H \o Carry(b.ops, q), c, s, l, m)
<1>1. PICK ctx, F, A, p, f, k : /\ ctx = b.context /\ F = b.ops /\ p = Plain(H) /\ f = Plain(F)
                                /\ A = SubSeq(p, ctx + 1, k) /\ k = Len(H)
  OBVIOUS
<1>2. /\ ctx \in 0..s /\ F \in Seq(FatOps) /\ Len(F) = m /\ m # 0
      /\ AllBy(c, f)
  BY <1>1, BatchIsOwn
<1>3. k \in Nat /\ m \in Nat /\ s \in Nat /\ s <= k /\ k \in 0..k /\ ctx \in 0..k
  BY <1>1, <1>2
<1>4. p \in Seq(O) /\ Len(p) = k
  BY <1>1, PlainIs
<1>5. A \in Seq(O)
  BY <1>1, <1>3, <1>4, StretchType
<1>6. f \in Seq(O) /\ Len(f) = m
  BY <1>1, <1>2, PlainIs
<1>7. q = QuatradicTransform(A, f)
  BY <1>1
<1>8. q \in Seq(O) /\ Len(q) = m /\ \A i \in 1..m : q[i].site = f[i].site
  <2>1. Closed(O)
    BY OpsOk
  <2>2. /\ QuatradicTransform(A, f) \in Seq(O)
        /\ Len(QuatradicTransform(A, f)) = Len(f)
    BY <1>5, <1>6, <2>1, TransportType
  <2>3. \A i \in 1..Len(f) : QuatradicTransform(A, f)[i].site = f[i].site
    BY <1>5, <1>6, <2>1, TransportSites
  <2> QED BY <1>6, <1>7, <2>2, <2>3
<1>9. PICK X : X = Carry(F, q)
  OBVIOUS
<1>10. /\ X \in Seq(FatOps) /\ Len(X) = m /\ Plain(X) = q
       /\ \A i \in 1..m : X[i] = [F[i] EXCEPT !.op = q[i]] /\ X[i].op = q[i]
  <2>1. Len(q) = Len(F)
    BY <1>2, <1>8
  <2>2. /\ Carry(F, q) \in Seq(FatOps) /\ Len(Carry(F, q)) = Len(F) /\ Plain(Carry(F, q)) = q
        /\ \A i \in 1..Len(F) : /\ Carry(F, q)[i] = [F[i] EXCEPT !.op = q[i]]
                                /\ Carry(F, q)[i].op = q[i]
    BY <1>2, <1>8, <2>1, CarryIs
  <2> QED BY <1>2, <1>9, <2>2
<1>11. \A i \in 1..m : X[i].op.site = c
  BY <1>2, <1>6, <1>8, <1>10 DEF AllBy
<1>12. PICK G, h : G = H \o X /\ h = k + m
  OBVIOUS
<1>13. /\ Len(G) = h
       /\ \A i \in 1..k : Own(G, c, i) <=> Own(H, c, i)
       /\ \A i \in 1..m : G[k + i] = X[i]
       /\ \A j \in 0..k : \A i \in 0..j :
             SubSeq(Plain(G), i + 1, j) = SubSeq(Plain(H), i + 1, j)
  <2>1. /\ Len(H \o X) = Len(H) + Len(X)
        /\ \A i \in 1..Len(H) : Own(H \o X, c, i) <=> Own(H, c, i)
    BY <1>10, Extended
  <2>2. \A i \in 1..Len(X) : (H \o X)[Len(H) + i] = X[i]
    BY <1>10, Extended
  <2>3. \A j \in 0..Len(H) : \A i \in 0..j :
           SubSeq(Plain(H \o X), i + 1, j) = SubSeq(Plain(H), i + 1, j)
    BY <1>10, Extended
  <2> QED BY <1>1, <1>10, <1>12, <2>1, <2>2, <2>3
<1>14. Carried(l, F, SubSeq(Plain(G), ctx + 1, s))
  <2>1. Carried(l, F, SubSeq(Plain(H), ctx + 1, s))
    BY <1>1 DEF InFlightPhase
  <2>2. s \in 0..k
    BY <1>3
  <2>3. SubSeq(Plain(G), ctx + 1, s) = SubSeq(Plain(H), ctx + 1, s)
    BY <1>2, <1>13, <2>2
  <2> QED BY <2>1, <2>3
<1>15. Block(G, k, F, SubSeq(Plain(G), ctx + 1, k))
  <2>1. SubSeq(Plain(G), ctx + 1, k) = A
    BY <1>1, <1>3, <1>13
  <2>2. \A i \in 1..m : G[k + i] = [F[i] EXCEPT !.op = QuatradicTransform(A, f)[i]]
    BY <1>7, <1>10, <1>13
  <2>3. Block(G, k, F, A)
    BY <1>1, <1>2, <2>2 DEF Block
  <2> QED BY <2>1, <2>3
<1>16. ASSUME NEW i \in (s + 1)..h PROVE Own(G, c, i) <=> i \in (k + 1)..(k + m)
  <2>1. CASE i \in 1..k
    <3>1. i \in (s + 1)..k
      BY <1>3, <2>1
    <3>2. ~Own(H, c, i)
      BY <1>1, <3>1 DEF InFlightPhase
    <3>3. i \notin (k + 1)..(k + m)
      BY <1>3, <2>1
    <3> QED BY <1>13, <2>1, <3>2, <3>3
  <2>2. CASE i \notin 1..k
    <3>1. PICK j : j = i - k
      OBVIOUS
    <3>2. j \in 1..m /\ i = k + j /\ i \in (k + 1)..(k + m)
      BY <1>3, <1>12, <2>2, <3>1
    <3>3. G[i].op.site = c
      BY <1>11, <1>13, <3>2
    <3> QED BY <3>2, <3>3 DEF Own
  <2> QED BY <2>1, <2>2
<1>17. HandledAt(G, c, s, l, m, F, k, ctx)
  <2>1. k + m <= h
    BY <1>3, <1>12
  <2> QED BY <1>2, <1>13, <1>14, <1>15, <1>16, <2>1 DEF HandledAt
<1>18. k \in s..Len(G)
  BY <1>3, <1>12, <1>13
<1>19. HandledPhase(G, c, s, l, m)
  BY <1>2, <1>17, <1>18 DEF HandledPhase
<1> QED BY <1>1, <1>8, <1>9, <1>10, <1>11, <1>12, <1>19

-----------------------------------------------------------------------------
(* Texts                                                                    *)

\* Ops of a client pass those of others and still make sense.
LEMMA TransportValid ==
    ASSUME NEW h \in Seq(O), Valid(InitDoc, h), NEW P \in Seq(O), NEW c, AllBy(c, P),
           NEW s \in 0..Len(h), NEW ctx \in 0..s,
           \A i \in (s + 1)..Len(h) : h[i].site # c,
           Valid(DocAt(h, s), QuatradicTransform(SubSeq(h, ctx + 1, s), P))
    PROVE  Valid(DocAt(h, Len(h)), QuatradicTransform(SubSeq(h, ctx + 1, Len(h)), P))
<1>1. PICK n : n = Len(h)
  OBVIOUS
<1>2. n \in Nat /\ s \in Nat /\ s <= n /\ ctx \in Nat /\ ctx <= s
  BY <1>1
<1> DEFINE V(j) == Valid(DocAt(h, j), QuatradicTransform(SubSeq(h, ctx + 1, j), P))
           G == {k \in Nat : s + k <= n => V(s + k)}
<1>3. 0 \in G
  BY <1>2
<1>4. ASSUME NEW j \in Nat, s <= j, j < n, V(j) PROVE V(j + 1)
  <2>1. PICK D, A, L, a : /\ D = DocAt(h, j) /\ A = SubSeq(h, ctx + 1, j)
                          /\ L = QuatradicTransform(A, P) /\ a = h[j + 1]
    OBVIOUS
  <2>2. j \in 0..Len(h) /\ ctx \in 0..j /\ j < Len(h) /\ j + 1 \in (s + 1)..Len(h)
    BY <1>1, <1>2, <1>4
  <2>3. a \in O /\ Fits(a, D) /\ DocAt(h, j + 1) = ApplyOp(D, a)
    BY <2>1, <2>2, DocAtNext
  <2>4. D \in Seq(Cells(Chars))
    BY <2>1, <2>2, DocAtType
  <2>5. A \in Seq(O) /\ SubSeq(h, ctx + 1, j + 1) = Append(A, a)
    BY <2>1, <2>2, StretchNext
  <2>6. L \in Seq(O) /\ Len(L) = Len(P)
    BY <2>1, <2>5, OpsOk, TransportType
  <2>7. \A i \in 1..Len(P) : L[i].site = P[i].site
    <3>1. Closed(O)
      BY OpsOk
    <3>2. \A i \in 1..Len(P) : QuatradicTransform(A, P)[i].site = P[i].site
      BY <2>5, <3>1, TransportSites
    <3> QED BY <2>1, <3>2
  <2>8. OtherSite(a, L)
    <3>1. a.site # c
      BY <2>1, <2>2
    <3>2. \A i \in 1..Len(P) : P[i].site = c
      BY DEF AllBy
    <3> QED BY <2>6, <2>7, <3>1, <3>2 DEF OtherSite
  <2>9. Valid(D, L)
    BY <1>4, <2>1
  <2> HIDE DEF V
  <2>10. Valid(ApplyOp(D, a), Row(a, L))
    BY <2>3, <2>4, <2>6, <2>8, <2>9, OpsOk, Square
  <2>11. QuatradicTransform(Append(A, a), P) = Row(a, L)
    BY <2>1, <2>3, <2>5, OpsOk, TransportAppend
  <2> QED BY <2>3, <2>5, <2>10, <2>11 DEF V
<1> HIDE DEF V
<1>5. ASSUME NEW k \in G PROVE k + 1 \in G
  <2>1. PICK j, m, t : j = s + k /\ m = k + 1 /\ t = j + 1
    OBVIOUS
  <2>2. /\ k \in Nat /\ j \in Nat /\ m \in Nat /\ s <= j /\ s + m = t
        /\ t <= n => j <= n /\ j < n
    BY <1>2, <2>1
  <2>3. t <= n => V(t)
    BY <1>4, <2>1, <2>2
  <2>4. m \in G
    BY <2>2, <2>3
  <2> QED BY <2>1, <2>4
<1>6. G \in SUBSET Nat
  OBVIOUS
<1>7. n - s \in G
  <2>1. n - s \in Nat
    BY <1>2
  <2> HIDE DEF G
  <2> QED BY <1>3, <1>5, <1>6, <2>1, ApplyFold!Induction
<1>8. V(n)
  <2>1. PICK k : k = n - s
    OBVIOUS
  <2>2. k \in G /\ s + k = n /\ s + k <= n
    BY <1>2, <1>7, <2>1
  <2>3. V(s + k)
    BY <2>2
  <2> QED BY <2>2, <2>3
<1> QED BY <1>1, <1>8 DEF V

\* A client's text: what it has processed of the history h, then its local ops.
TextOk(h, s, l, x) ==
    /\ Valid(DocAt(h, s), Plain(l))
    /\ x = ApplyOps(DocAt(h, s), Plain(l))

LEMMA TextType ==
    ASSUME NEW h \in Seq(O), Valid(InitDoc, h), NEW s \in 0..Len(h), NEW l \in Seq(FatOps),
           NEW x, TextOk(h, s, l, x)
    PROVE  x \in Seq(Cells(Chars))
<1>1. PICK D, p : D = DocAt(h, s) /\ p = Plain(l)
  OBVIOUS
<1>2. D \in Seq(Cells(Chars)) /\ p \in Seq(O)
  BY <1>1, DocAtType, PlainIs
<1>3. Valid(D, p) /\ x = ApplyOps(D, p)
  BY <1>1 DEF TextOk
<1> QED BY <1>2, <1>3, OpsOk, ApplyOpsType

\* process_remote_op on an op of another site.
LEMMA ForeignText ==
    ASSUME NEW h \in Seq(O), Valid(InitDoc, h), NEW s \in Nat, s < Len(h),
           NEW c, NEW l, NEW n, LocalOk(c, l, n), h[s + 1].site # c,
           NEW x, TextOk(h, s, l, x)
    PROVE  TextOk(h, s + 1, After(l, h[s + 1]),
                  ApplyOp(x, BatchTransform(h[s + 1], Plain(l))))
<1>1. PICK D, L, a : D = DocAt(h, s) /\ L = Plain(l) /\ a = h[s + 1]
  OBVIOUS
<1>2. l \in Seq(FatOps) /\ \A i \in 1..Len(l) : l[i].op.site = c
  BY DEF LocalOk
<1>3. L \in Seq(O) /\ Len(L) = Len(l) /\ \A i \in 1..Len(l) : L[i] = l[i].op
  BY <1>1, <1>2, PlainIs
<1>4. OtherSite(a, L)
  <2>1. a.site # c
    BY <1>1
  <2> QED BY <1>2, <1>3, <2>1 DEF OtherSite
<1>5. a \in O /\ Fits(a, D) /\ DocAt(h, s + 1) = ApplyOp(D, a)
  BY <1>1, DocAtNext
<1>6. D \in Seq(Cells(Chars))
  <2>1. s \in 0..Len(h)
    OBVIOUS
  <2> QED BY <1>1, <2>1, DocAtType
<1>7. Valid(D, L) /\ x = ApplyOps(D, L)
  BY <1>1 DEF TextOk
<1>8. /\ Valid(ApplyOp(D, a), Row(a, L))
      /\ ApplyOp(ApplyOps(D, L), BatchTransform(a, L)) = ApplyOps(ApplyOp(D, a), Row(a, L))
  BY <1>3, <1>4, <1>5, <1>6, <1>7, OpsOk, Square
<1>9. Plain(After(l, a)) = Row(a, L)
  BY <1>1, <1>2, <1>5, AfterIs
<1> QED BY <1>1, <1>5, <1>7, <1>8, <1>9 DEF TextOk

\* process_remote_op on an op of the client's own.
LEMMA OwnText ==
    ASSUME NEW h \in Seq(O), Valid(InitDoc, h), NEW s \in Nat, s < Len(h),
           NEW l \in Seq(FatOps), l # << >>, l[1].op = h[s + 1], NEW x, TextOk(h, s, l, x)
    PROVE  TextOk(h, s + 1, Tail(l), x)
<1>1. PICK D, L, a, n : D = DocAt(h, s) /\ L = Plain(l) /\ a = h[s + 1] /\ n = Len(l)
  OBVIOUS
<1>2. /\ n \in Nat /\ n # 0 /\ L \in Seq(O) /\ Len(L) = n
      /\ \A i \in 1..n : L[i] = l[i].op
  BY <1>1, PlainIs
<1>3. L # << >> /\ Head(L) = a
  BY <1>1, <1>2
<1>4. DocAt(h, s + 1) = ApplyOp(D, a)
  BY <1>1, DocAtNext
<1>5. Valid(D, L) /\ x = ApplyOps(D, L)
  BY <1>1 DEF TextOk
<1>6. /\ ApplyOps(D, L) = ApplyOps(ApplyOp(D, a), Tail(L))
      /\ Valid(ApplyOp(D, a), Tail(L))
  BY <1>2, <1>3, <1>5, ApplyFirst
<1>7. Plain(Tail(l)) = Tail(L)
  <2>1. PICK r, q, t, m : r = Tail(l) /\ q = Plain(r) /\ t = Tail(L) /\ m = n - 1
    OBVIOUS
  <2>2. /\ m \in Nat /\ r \in Seq(FatOps) /\ Len(r) = m
        /\ \A i \in 1..m : r[i] = l[i + 1]
    BY <1>1, <1>2, <2>1
  <2>3. t \in Seq(O) /\ Len(t) = m /\ \A i \in 1..m : t[i] = L[i + 1]
    BY <1>2, <2>1
  <2>4. q \in Seq(O) /\ Len(q) = m /\ \A i \in 1..m : q[i] = r[i].op
    BY <2>1, <2>2, PlainIs
  <2>5. \A i \in 1..m : i + 1 \in 1..n
    BY <1>2, <2>1
  <2>6. Agree(q, t, m)
    BY <1>2, <2>2, <2>3, <2>4, <2>5 DEF Agree
  <2>7. q = t
    BY <2>3, <2>4, <2>6, SameSeq
  <2> QED BY <2>1, <2>7
<1> QED BY <1>4, <1>5, <1>6, <1>7 DEF TextOk

-----------------------------------------------------------------------------
(* One op processed by a client                                             *)

Record(s, g, l, x, q, t) ==
    [seq |-> s, global |-> g, local |-> l, text |-> x, queue |-> q, tip |-> t]
Shaped(e) == e = Record(e.seq, e.global, e.local, e.text, e.queue, e.tip)

\* The first m ops were sent: their seqs are at most the last one sent.
SentBy(l, m, last) == \A i \in 1..m : l[i].seq <= last

PhaseOk(H, c, s, l, fl, last) ==
    \E m \in 0..Len(l) : Phase(H, c, s, l, m, fl) /\ SentBy(l, m, last)

\* A client with the history H at the owner, a snapshot of k ops, the batch fl
\* in flight, the site seq last sent, and n site seqs given.
EngineOk(H, c, e, k, fl, last, n) ==
    /\ Shaped(e)
    /\ e.seq \in 0..Len(H) /\ e.global \in Seq(FatOps) /\ e.seq = k + Len(e.global)
    /\ LocalOk(c, e.local, n)
    /\ PhaseOk(H, c, e.seq, e.local, fl, last)
    /\ TextOk(Plain(H), e.seq, e.local, e.text)

LEMMA OwnOpIs ==
    ASSUME NEW e, Shaped(e), NEW c, NEW fat, fat.op.site = c
    PROVE  RemoteOp(e, c, fat) = Record(e.seq + 1, Append(e.global, fat), Tail(e.local),
                                        e.text, e.queue, e.tip)
<1>1. PICK s, g, l, x, q, t : e = Record(s, g, l, x, q, t)
  BY DEF Shaped
<1>2. /\ e.seq = s /\ e.global = g /\ e.local = l /\ e.text = x /\ e.queue = q /\ e.tip = t
  BY <1>1 DEF Record
<1>3. RemoteOp(e, c, fat) =
        [e EXCEPT !.seq = e.seq + 1, !.global = Append(e.global, fat), !.local = Tail(e.local)]
  BY DEF RemoteOp, Acknowledge
<1>4. PICK u, v, w : u = s + 1 /\ v = Append(g, fat) /\ w = Tail(l)
  OBVIOUS
<1>5. RemoteOp(e, c, fat) = [e EXCEPT !.seq = u, !.global = v, !.local = w]
  BY <1>2, <1>3, <1>4
<1>6. [e EXCEPT !.seq = u, !.global = v, !.local = w] = Record(u, v, w, x, q, t)
  <2>1. PICK e1 : e1 = [e EXCEPT !.seq = u]
    OBVIOUS
  <2>2. e1 = Record(u, g, l, x, q, t)
    BY <1>1, <2>1 DEF Record
  <2>3. PICK e2 : e2 = [e1 EXCEPT !.global = v]
    OBVIOUS
  <2>4. e2 = Record(u, v, l, x, q, t)
    BY <2>2, <2>3 DEF Record
  <2>5. [e2 EXCEPT !.local = w] = Record(u, v, w, x, q, t)
    BY <2>4 DEF Record
  <2>6. [e EXCEPT !.seq = u, !.global = v, !.local = w] = [e2 EXCEPT !.local = w]
    BY <2>1, <2>3
  <2> QED BY <2>5, <2>6
<1> QED BY <1>2, <1>4, <1>5, <1>6

LEMMA ForeignOpIs ==
    ASSUME NEW e, Shaped(e), NEW c, NEW fat, fat.op.site # c
    PROVE  RemoteOp(e, c, fat) =
              Record(e.seq + 1,
                     Append(e.global,
                            [fat EXCEPT !.op = BatchTransform(fat.op, Plain(e.local))]),
                     After(e.local, fat.op),
                     ApplyOp(e.text, BatchTransform(fat.op, Plain(e.local))),
                     ShiftQueue(e), e.tip)
<1>1. PICK s, g, l, x, q, t : e = Record(s, g, l, x, q, t)
  BY DEF Shaped
<1>2. /\ e.seq = s /\ e.global = g /\ e.local = l /\ e.text = x /\ e.queue = q /\ e.tip = t
  BY <1>1 DEF Record
<1>3. PICK y, z : y = ApplyRemote(e, fat.op) /\ z = LocalAfter(e, fat.op)
  OBVIOUS
<1>4. y = ApplyOp(e.text, BatchTransform(fat.op, Plain(e.local)))
  BY <1>3 DEF ApplyRemote
<1>5. z = After(e.local, fat.op)
  BY <1>3, SymmetricIs DEF LocalAfter, After
<1>6. PICK f : f = [fat EXCEPT !.op = BatchTransform(fat.op, Plain(e.local))]
  OBVIOUS
<1>7. PICK v, u, w : v = Append(e.global, f) /\ u = e.seq + 1 /\ w = ShiftQueue(e)
  OBVIOUS
<1>8. RemoteOp(e, c, fat) =
        [e EXCEPT !.seq = u, !.text = y, !.local = z, !.queue = w, !.global = v]
  BY <1>3, <1>6, <1>7 DEF RemoteOp
<1>9. [e EXCEPT !.seq = u, !.text = y, !.local = z, !.queue = w, !.global = v]
        = Record(u, v, z, y, w, t)
  <2>1. PICK e1 : e1 = [e EXCEPT !.seq = u]
    OBVIOUS
  <2>2. e1 = Record(u, g, l, x, q, t)
    BY <1>1, <2>1 DEF Record
  <2>3. PICK e2 : e2 = [e1 EXCEPT !.text = y]
    OBVIOUS
  <2>4. e2 = Record(u, g, l, y, q, t)
    BY <2>2, <2>3 DEF Record
  <2>5. PICK e3 : e3 = [e2 EXCEPT !.local = z]
    OBVIOUS
  <2>6. e3 = Record(u, g, z, y, q, t)
    BY <2>4, <2>5 DEF Record
  <2>7. PICK e4 : e4 = [e3 EXCEPT !.queue = w]
    OBVIOUS
  <2>8. e4 = Record(u, g, z, y, w, t)
    BY <2>6, <2>7 DEF Record
  <2>9. [e4 EXCEPT !.global = v] = Record(u, v, z, y, w, t)
    BY <2>8 DEF Record
  <2>10. [e EXCEPT !.seq = u, !.text = y, !.local = z, !.queue = w, !.global = v]
           = [e4 EXCEPT !.global = v]
    BY <2>1, <2>3, <2>5, <2>7
  <2> QED BY <2>9, <2>10
<1> QED BY <1>2, <1>4, <1>5, <1>6, <1>7, <1>8, <1>9

LEMMA LocalAfterOk ==
    ASSUME NEW c, NEW l, NEW n, LocalOk(c, l, n), NEW a \in O
    PROVE  LocalOk(c, After(l, a), n)
<1>1. /\ l \in Seq(FatOps)
      /\ \A i \in 1..Len(l) : l[i].op.site = c /\ l[i].seq <= n
      /\ \A i, j \in 1..Len(l) : i <= j => l[i].seq <= l[j].seq
  BY DEF LocalOk
<1>2. PICK r : r = After(l, a)
  OBVIOUS
<1>3. /\ r \in Seq(FatOps) /\ Len(r) = Len(l)
      /\ \A i \in 1..Len(l) : r[i].op.site = l[i].op.site /\ r[i].seq = l[i].seq
  BY <1>1, <1>2, AfterIs
<1> QED BY <1>1, <1>2, <1>3 DEF LocalOk

LEMMA LocalTailOk ==
    ASSUME NEW c, NEW l, NEW n, LocalOk(c, l, n), l # << >>
    PROVE  LocalOk(c, Tail(l), n)
<1>1. /\ l \in Seq(FatOps)
      /\ \A i \in 1..Len(l) : l[i].op.site = c /\ l[i].seq <= n
      /\ \A i, j \in 1..Len(l) : i <= j => l[i].seq <= l[j].seq
  BY DEF LocalOk
<1>2. PICK r, k, m : r = Tail(l) /\ k = Len(l) /\ m = k - 1
  OBVIOUS
<1>3. /\ k \in Nat /\ m \in Nat /\ r \in Seq(FatOps) /\ Len(r) = m
      /\ \A i \in 1..m : r[i] = l[i + 1]
  BY <1>1, <1>2
<1>4. \A i \in 1..m : i + 1 \in 1..k
  BY <1>2, <1>3
<1>5. \A i \in 1..m : r[i].op.site = c /\ r[i].seq <= n
  BY <1>1, <1>2, <1>3, <1>4
<1>6. ASSUME NEW i \in 1..m, NEW j \in 1..m, i <= j PROVE r[i].seq <= r[j].seq
  <2>1. PICK u, v : u = i + 1 /\ v = j + 1
    OBVIOUS
  <2>2. u \in 1..Len(l) /\ v \in 1..Len(l) /\ u <= v
    BY <1>2, <1>3, <1>6, <2>1
  <2>3. l[u].seq <= l[v].seq
    BY <1>1, <2>2
  <2> QED BY <1>3, <2>1, <2>3
<1> QED BY <1>2, <1>3, <1>5, <1>6 DEF LocalOk

\* process_remote_op keeps the client right.
LEMMA RemoteOpOk ==
    ASSUME NEW H \in Seq(FatOps), Valid(InitDoc, Plain(H)), NEW c, NEW e, NEW k, NEW fl,
           NEW last, NEW n, EngineOk(H, c, e, k, fl, last, n), e.seq < Len(H), k \in Nat
    PROVE  /\ EngineOk(H, c, RemoteOp(e, c, H[e.seq + 1]), k, fl, last, n)
           /\ RemoteOp(e, c, H[e.seq + 1]).seq = e.seq + 1
<1>1. PICK s, t, l, g, h, f, r : /\ s = e.seq /\ t = s + 1 /\ l = e.local /\ g = e.global
                                 /\ h = Plain(H) /\ f = H[t] /\ r = RemoteOp(e, c, f)
  OBVIOUS
<1>2. /\ Shaped(e) /\ s \in 0..Len(H) /\ g \in Seq(FatOps) /\ s = k + Len(g)
      /\ LocalOk(c, l, n) /\ PhaseOk(H, c, s, l, fl, last) /\ TextOk(h, s, l, e.text)
  BY <1>1 DEF EngineOk
<1>3. s \in Nat /\ s < Len(H) /\ t \in 1..Len(H) /\ t \in 0..Len(H) /\ l \in Seq(FatOps)
  BY <1>1, <1>2 DEF LocalOk
<1>4. f \in FatOps /\ h \in Seq(O) /\ Len(h) = Len(H) /\ h[t] = f.op /\ f.op \in O
  <2>1. /\ Plain(H) \in Seq(O) /\ Len(Plain(H)) = Len(H)
        /\ \A i \in 1..Len(H) : Plain(H)[i] = H[i].op /\ H[i].op \in O
    BY PlainIs
  <2>2. H[t] \in FatOps
    BY <1>3
  <2> QED BY <1>1, <1>3, <2>1, <2>2
<1>5. Valid(InitDoc, h)
  BY <1>1
<1>6. PICK m \in 0..Len(l) : Phase(H, c, s, l, m, fl) /\ SentBy(l, m, last)
  BY <1>2 DEF PhaseOk
<1>7. ASSUME NEW v \in FatOps PROVE Append(g, v) \in Seq(FatOps) /\ t = k + Len(Append(g, v))
  <2>1. Append(g, v) \in Seq(FatOps) /\ Len(Append(g, v)) = Len(g) + 1 /\ Len(g) \in Nat
    BY <1>2
  <2> QED BY <1>1, <1>2, <2>1
<1>8. CASE f.op.site = c
  <2>1. r = Record(t, Append(g, f), Tail(l), e.text, e.queue, e.tip)
    BY <1>1, <1>2, <1>8, OwnOpIs
  <2>2. /\ r.seq = t /\ r.global = Append(g, f) /\ r.local = Tail(l) /\ r.text = e.text
        /\ Shaped(r)
    BY <2>1 DEF Record, Shaped
  <2>3. Own(H, c, s + 1)
    BY <1>1, <1>8 DEF Own
  <2>4. /\ m # 0 /\ l # << >> /\ l[1] = f /\ fl = << >> /\ AckPhase(H, c, s, l, m)
    <3>1. Phase(H, c, s, l, m, fl)
      BY <1>6
    <3>2. /\ m # 0 /\ l # << >> /\ l[1] = H[s + 1] /\ fl = << >>
          /\ AckPhase(H, c, s, l, m)
      BY <1>3, <2>3, <3>1, OwnIsFirst
    <3> QED BY <1>1, <3>2
  <2>5. AckPhase(H, c, t, Tail(l), m - 1)
    BY <1>1, <1>3, <2>4, OwnPhase
  <2>6. m - 1 \in 0..Len(Tail(l)) /\ SentBy(Tail(l), m - 1, last)
    <3>1. PICK z, w : z = m - 1 /\ w = Tail(l)
      OBVIOUS
    <3>2. /\ Len(l) \in Nat /\ Len(l) # 0 /\ Len(w) = Len(l) - 1
          /\ \A i \in 1..(Len(l) - 1) : w[i] = l[i + 1]
      BY <1>3, <2>4, <3>1
    <3>3. z \in 0..Len(w) /\ \A i \in 1..z : i \in 1..(Len(l) - 1) /\ i + 1 \in 1..m
      BY <2>4, <3>1, <3>2
    <3>4. \A i \in 1..z : w[i].seq <= last
      BY <1>6, <3>2, <3>3 DEF SentBy
    <3> QED BY <3>1, <3>3, <3>4 DEF SentBy
  <2>7. PhaseOk(H, c, t, Tail(l), fl, last)
    BY <2>4, <2>5, <2>6 DEF PhaseOk, Phase
  <2>8. LocalOk(c, Tail(l), n)
    BY <1>2, <2>4, LocalTailOk
  <2>9. TextOk(h, t, Tail(l), e.text)
    <3>1. l[1].op = h[s + 1]
      BY <1>1, <1>4, <2>4
    <3>2. s < Len(h)
      BY <1>3, <1>4
    <3> QED BY <1>1, <1>2, <1>3, <1>4, <1>5, <2>4, <3>1, <3>2, OwnText
  <2>10. EngineOk(H, c, r, k, fl, last, n)
    BY <1>1, <1>3, <1>4, <1>7, <2>2, <2>7, <2>8, <2>9 DEF EngineOk
  <2> QED BY <1>1, <2>2, <2>10
<1>9. CASE f.op.site # c
  <2>1. PICK o, v, x : /\ o = BatchTransform(f.op, Plain(l)) /\ v = [f EXCEPT !.op = o]
                       /\ x = ApplyOp(e.text, o)
    OBVIOUS
  <2>2. r = Record(t, Append(g, v), After(l, f.op), x, ShiftQueue(e), e.tip)
    BY <1>1, <1>2, <1>9, <2>1, ForeignOpIs
  <2>3. /\ r.seq = t /\ r.global = Append(g, v) /\ r.local = After(l, f.op) /\ r.text = x
        /\ Shaped(r)
    BY <2>2 DEF Record, Shaped
  <2>4. o \in O
    <3>1. Plain(l) \in Seq(O)
      BY <1>3, PlainIs
    <3> QED BY <1>4, <2>1, <3>1, OpsOk, BatchType
  <2>5. v \in FatOps
    BY <1>4, <2>1, <2>4 DEF FatOps
  <2>6. ~Own(H, c, s + 1)
    BY <1>1, <1>9 DEF Own
  <2>7. Phase(H, c, t, After(l, f.op), m, fl)
    BY <1>1, <1>3, <1>6, <2>6, ForeignPhase
  <2>8. /\ Len(After(l, f.op)) = Len(l)
        /\ \A i \in 1..Len(l) : After(l, f.op)[i].seq = l[i].seq
    BY <1>3, <1>4, AfterIs
  <2>9. SentBy(After(l, f.op), m, last)
    <3>1. \A i \in 1..m : i \in 1..Len(l)
      BY <1>3
    <3> QED BY <1>6, <2>8, <3>1 DEF SentBy
  <2>10. PhaseOk(H, c, t, After(l, f.op), fl, last)
    BY <2>7, <2>8, <2>9 DEF PhaseOk
  <2>11. LocalOk(c, After(l, f.op), n)
    BY <1>2, <1>4, LocalAfterOk
  <2>12. TextOk(h, t, After(l, f.op), x)
    <3>1. s < Len(h) /\ h[s + 1] = f.op
      BY <1>1, <1>3, <1>4
    <3>2. TextOk(h, s + 1, After(l, h[s + 1]),
                 ApplyOp(e.text, BatchTransform(h[s + 1], Plain(l))))
      BY <1>2, <1>3, <1>4, <1>5, <1>9, <3>1, ForeignText
    <3> QED BY <1>1, <2>1, <3>1, <3>2
  <2>13. EngineOk(H, c, r, k, fl, last, n)
    BY <1>1, <1>3, <1>7, <2>3, <2>5, <2>10, <2>11, <2>12 DEF EngineOk
  <2> QED BY <1>1, <2>3, <2>13
<1> QED BY <1>8, <1>9

-----------------------------------------------------------------------------
(* Several ops processed by a client, an edit, and what it sends            *)

Received(H, e, c, k) == RemoteFold!Fold(c, e, SubSeq(H, e.seq + 1, e.seq + k))

LEMMA ReceivedOk ==
    ASSUME NEW H \in Seq(FatOps), Valid(InitDoc, Plain(H)), NEW c, NEW e, NEW b \in Nat, NEW fl,
           NEW last, NEW n, EngineOk(H, c, e, b, fl, last, n), NEW k \in 0..(Len(H) - e.seq)
    PROVE  EngineOk(H, c, Received(H, e, c, k), b, fl, last, n)
<1>1. PICK s, h : s = e.seq /\ h = Len(H)
  OBVIOUS
<1>2. s \in Nat /\ h \in Nat /\ s <= h /\ k \in Nat /\ s + k <= h
  BY <1>1 DEF EngineOk
<1> DEFINE Right(r, j) == EngineOk(H, c, r, b, fl, last, n) /\ r.seq = j
           R(j) == RemoteFold!Fold(c, e, SubSeq(H, s + 1, s + j))
           G == {j \in Nat : s + j <= h => Right(R(j), s + j)}
<1>3. 0 \in G
  <2>1. s \in 0..Len(H) /\ s + 0 = s
    BY <1>1, <1>2
  <2>2. SubSeq(H, s + 1, s) = << >>
    BY <2>1, StretchNone
  <2>3. RemoteFold!Fold(c, e, << >>) = e
    BY RemoteFold!FoldEmpty
  <2>4. R(0) = e
    BY <2>1, <2>2, <2>3
  <2> HIDE DEF R
  <2> QED BY <1>1, <2>1, <2>4
<1>4. ASSUME NEW j \in Nat, s + j < h, Right(R(j), s + j)
      PROVE  R(j + 1) = RemoteOp(R(j), c, H[s + j + 1])
  <2>0. PICK i : i = s + j
    OBVIOUS
  <2>1. PICK x, f : i = s + j /\ x = SubSeq(H, s + 1, i) /\ f = H[i + 1]
    BY <2>0
  <2>2. i \in Nat /\ i < Len(H) /\ s \in 0..i /\ i + 1 \in 1..Len(H) /\ s + (j + 1) = i + 1
    <3>1. s + j < h
      BY <1>4
    <3>2. i \in Nat /\ i < h /\ s \in 0..i /\ i + 1 \in 1..h /\ s + (j + 1) = i + 1
      BY <1>2, <2>0, <3>1
    <3> QED BY <1>1, <3>2
  <2>3. x \in Seq(FatOps) /\ SubSeq(H, s + 1, i + 1) = Append(x, f)
    BY <2>1, <2>2, StretchNext
  <2>4. f \in FatOps
    BY <2>1, <2>2
  <2>5. RemoteFold!Fold(c, e, Append(x, f)) = RemoteOp(RemoteFold!Fold(c, e, x), c, f)
    BY <2>3, <2>4, RemoteFold!FoldAppend
  <2> QED BY <2>1, <2>2, <2>3, <2>5
<1> HIDE DEF R
<1>5. ASSUME NEW j \in G PROVE j + 1 \in G
  <2>1. PICK i, m : i = s + j /\ m = j + 1
    OBVIOUS
  <2>2. /\ j \in Nat /\ m \in Nat /\ i \in Nat /\ s + m = i + 1
        /\ i + 1 <= h => i < h /\ i <= h
    BY <1>2, <2>1
  <2>3. ASSUME i + 1 <= h PROVE Right(R(m), i + 1)
    <3>1. PICK r : r = R(j)
      OBVIOUS
    <3>2. Right(r, i) /\ i < h
      BY <2>1, <2>2, <2>3, <3>1
    <3>3. EngineOk(H, c, r, b, fl, last, n) /\ r.seq = i /\ r.seq < Len(H)
      BY <1>1, <3>2
    <3>4. /\ EngineOk(H, c, RemoteOp(r, c, H[r.seq + 1]), b, fl, last, n)
          /\ RemoteOp(r, c, H[r.seq + 1]).seq = r.seq + 1
      BY <3>3, RemoteOpOk
    <3>5. R(m) = RemoteOp(r, c, H[i + 1])
      <4>1. R(j + 1) = RemoteOp(R(j), c, H[s + j + 1])
        BY <1>4, <2>1, <2>2, <3>1, <3>2
      <4>2. s + j + 1 = i + 1
        BY <2>1, <2>2
      <4> QED BY <2>1, <3>1, <4>1, <4>2
    <3> QED BY <3>3, <3>4, <3>5
  <2> HIDE DEF Right
  <2>4. m \in G
    BY <2>2, <2>3
  <2> QED BY <2>1, <2>4
<1>6. G \in SUBSET Nat
  OBVIOUS
<1>7. k \in G
  <2> HIDE DEF G
  <2> QED BY <1>2, <1>3, <1>5, <1>6, ApplyFold!Induction
<1>8. Right(R(k), s + k)
  BY <1>2, <1>7
<1> QED BY <1>1, <1>8 DEF R, Received

\* process_local_op: an insertion or deletion of the user.
LEMMA LocalEditIs ==
    ASSUME NEW e, Shaped(e), NEW op, NEW seq, NEW grp
    PROVE  \E q : LocalEdit(e, op, seq, grp) =
                     Record(e.seq, e.global, Append(e.local, FatOp(op, seq, grp)),
                            ApplyOp(e.text, op), q, NoTip)
<1>1. PICK s, g, l, x, q, t : e = Record(s, g, l, x, q, t)
  BY DEF Shaped
<1>2. /\ e.seq = s /\ e.global = g /\ e.local = l /\ e.text = x /\ e.queue = q /\ e.tip = t
  BY <1>1 DEF Record
<1>3. PICK y, f, w : y = ApplyOp(x, op) /\ f = FatOp(op, seq, grp) /\ w = Append(l, f)
  OBVIOUS
<1>4. PICK e1 : e1 = [e EXCEPT !.text = ApplyOp(@, op)]
  OBVIOUS
<1>5. e1 = [e EXCEPT !.text = y]
  BY <1>2, <1>3, <1>4
<1>6. e1 = Record(s, g, l, y, q, t)
  BY <1>1, <1>5 DEF Record
<1>7. PICK p : p = Append(IF e1.tip = NoTip THEN e1.queue ELSE SubSeq(e1.queue, 1, e1.tip),
                          Len(e1.global) + Len(e1.local) + 1)
  OBVIOUS
<1>8. PICK e2 : e2 = PushOriginal(e1)
  OBVIOUS
<1>9. e2 = [e1 EXCEPT !.queue = p, !.tip = NoTip]
  BY <1>7, <1>8 DEF PushOriginal
<1>10. e2 = Record(s, g, l, y, p, NoTip)
  <2>1. PICK e3 : e3 = [e1 EXCEPT !.queue = p]
    OBVIOUS
  <2>2. e3 = Record(s, g, l, y, p, t)
    BY <1>6, <2>1 DEF Record
  <2>3. PICK n : n = NoTip
    OBVIOUS
  <2>4. [e3 EXCEPT !.tip = n] = Record(s, g, l, y, p, n)
    BY <2>2 DEF Record
  <2>5. e2 = [e3 EXCEPT !.tip = n]
    BY <1>9, <2>1, <2>3
  <2> QED BY <2>3, <2>4, <2>5
<1>11. PICK e3 : e3 = LocalEdit(e, op, seq, grp)
  OBVIOUS
<1>12. e3 = [e2 EXCEPT !.local = Append(@, f)]
  BY <1>3, <1>4, <1>8, <1>11 DEF LocalEdit, PushLocal
<1>13. e2.local = l
  BY <1>10 DEF Record
<1>14. e3 = [e2 EXCEPT !.local = w]
  BY <1>3, <1>12, <1>13
<1>15. e3 = Record(s, g, w, y, p, NoTip)
  BY <1>10, <1>14 DEF Record
<1> QED BY <1>2, <1>3, <1>11, <1>15

LEMMA LocalEditOk ==
    ASSUME NEW H \in Seq(FatOps), Valid(InitDoc, Plain(H)), NEW c, NEW e, NEW b, NEW fl,
           NEW last, NEW n \in Nat, EngineOk(H, c, e, b, fl, last, n),
           NEW op \in O, op.site = c, Fits(op, e.text), NEW grp \in Nat
    PROVE  /\ EngineOk(H, c, LocalEdit(e, op, n + 1, grp), b, fl, last, n + 1)
           /\ LocalEdit(e, op, n + 1, grp).seq = e.seq
<1>1. PICK s, l, g, h, x, f, m, r, w : /\ s = e.seq /\ l = e.local /\ g = e.global
                                       /\ h = Plain(H) /\ x = e.text /\ m = n + 1
                                       /\ f = FatOp(op, m, grp)
                                       /\ r = LocalEdit(e, op, m, grp) /\ w = Append(l, f)
  OBVIOUS
<1>2. /\ Shaped(e) /\ s \in 0..Len(H) /\ g \in Seq(FatOps) /\ s = b + Len(g)
      /\ LocalOk(c, l, n) /\ PhaseOk(H, c, s, l, fl, last) /\ TextOk(h, s, l, x)
  BY <1>1 DEF EngineOk
<1>3. PICK q : r = Record(s, g, w, ApplyOp(x, op), q, NoTip)
  BY <1>1, <1>2, LocalEditIs
<1>4. /\ r.seq = s /\ r.global = g /\ r.local = w /\ r.text = ApplyOp(x, op) /\ Shaped(r)
  BY <1>3 DEF Record, Shaped
<1>5. f \in FatOps /\ f.op = op /\ f.seq = m /\ m \in Nat
  BY <1>1 DEF FatOp, FatOps
<1>6. PICK k, j : k = Len(l) /\ j = k + 1
  OBVIOUS
<1>7. /\ l \in Seq(FatOps) /\ k \in Nat /\ j \in Nat
      /\ \A i \in 1..k : l[i].op.site = c /\ l[i].seq <= n
      /\ \A i, u \in 1..k : i <= u => l[i].seq <= l[u].seq
  BY <1>2, <1>6 DEF LocalOk
<1>8. /\ w \in Seq(FatOps) /\ Len(w) = j /\ w[j] = f /\ \A i \in 1..k : w[i] = l[i]
  BY <1>1, <1>5, <1>6, <1>7
<1>9. \A i \in 1..j : i = j \/ i \in 1..k
  BY <1>6, <1>7
<1>10. \A i \in 1..k : l[i].seq <= m
  <2> SUFFICES ASSUME NEW i \in 1..k PROVE l[i].seq <= m
    OBVIOUS
  <2>1. PICK v, y : y = l[i] /\ v = y.seq
    OBVIOUS
  <2>2. y \in FatOps /\ v <= n
    BY <1>6, <1>7, <2>1
  <2>3. v \in Nat
    BY <2>1, <2>2 DEF FatOps
  <2> QED BY <1>1, <2>1, <2>2, <2>3
<1>11. LocalOk(c, w, m)
  <2>1. \A i \in 1..Len(w) : w[i].op.site = c /\ w[i].seq <= m
    <3> SUFFICES ASSUME NEW i \in 1..j PROVE w[i].op.site = c /\ w[i].seq <= m
      BY <1>8
    <3>1. CASE i = j
      <4>1. w[i] = f /\ m <= m
        BY <1>5, <1>8, <3>1
      <4> QED BY <1>5, <4>1
    <3>2. CASE i \in 1..k
      BY <1>7, <1>8, <1>10, <3>2
    <3> QED BY <1>9, <3>1, <3>2
  <2>2. ASSUME NEW i \in 1..Len(w), NEW u \in 1..Len(w), i <= u
        PROVE  w[i].seq <= w[u].seq
    <3>1. CASE u = j
      BY <1>5, <1>8, <2>1, <3>1
    <3>2. CASE u # j
      <4>1. u \in 1..k /\ i \in 1..k
        BY <1>6, <1>7, <1>8, <2>2, <3>2
      <4> QED BY <1>7, <1>8, <2>2, <4>1
    <3> QED BY <3>1, <3>2
  <2> QED BY <1>8, <2>1, <2>2 DEF LocalOk
<1>12. PhaseOk(H, c, s, w, fl, last)
  <2>1. PICK z \in 0..k : Phase(H, c, s, l, z, fl) /\ SentBy(l, z, last)
    BY <1>2, <1>6 DEF PhaseOk
  <2>2. \A i \in 1..z : i \in 1..k
    BY <1>7, <2>1
  <2>3. Agree(l, w, z)
    BY <1>8, <2>2 DEF Agree
  <2>4. Phase(H, c, s, w, z, fl)
    BY <2>1, <2>3, AppendPhase
  <2>5. SentBy(w, z, last)
    BY <1>8, <2>1, <2>2 DEF SentBy
  <2>6. z \in 0..Len(w)
    BY <1>6, <1>7, <1>8, <2>1
  <2> QED BY <2>4, <2>5, <2>6 DEF PhaseOk
<1>13. TextOk(h, s, w, ApplyOp(x, op))
  <2>1. PICK D, p : D = DocAt(h, s) /\ p = Plain(l)
    OBVIOUS
  <2>2. Valid(D, p) /\ x = ApplyOps(D, p)
    BY <1>2, <2>1 DEF TextOk
  <2>3. p \in Seq(O)
    BY <1>7, <2>1, PlainIs
  <2>4. Plain(w) = Append(p, op)
    BY <1>1, <1>5, <1>7, <2>1, PlainAppend
  <2>5. ApplyOps(D, Append(p, op)) = ApplyOp(x, op)
    BY <2>2, <2>3, ApplyOpsAppend
  <2>6. Fits(op, ApplyOps(D, p))
    BY <1>1, <2>2
  <2>7. Valid(D, Append(p, op))
    BY <2>2, <2>3, <2>6, ValidAppend
  <2> QED BY <2>1, <2>4, <2>5, <2>7 DEF TextOk
<1>14. EngineOk(H, c, r, b, fl, last, m)
  BY <1>2, <1>4, <1>11, <1>12, <1>13, <1>1 DEF EngineOk
<1> QED BY <1>1, <1>4, <1>14

\* prev_op_acked holds: none of its ops is pending, and it sends them all.
LEMMA SendOk ==
    ASSUME NEW H \in Seq(FatOps), NEW c, NEW e, NEW b, NEW fl, NEW last \in Nat, NEW n,
           EngineOk(H, c, e, b, fl, last, n), e.local # << >>, e.local[1].seq = last + 1
    PROVE  /\ EngineOk(H, c, e, b, Append(fl, [context |-> e.seq, ops |-> e.local]),
                       Last(e.local).seq, n)
           /\ Last(e.local).seq \in Nat
<1>1. PICK s, l, k, z : s = e.seq /\ l = e.local /\ k = Len(l) /\ z = Last(l).seq
  OBVIOUS
<1>2. /\ s \in 0..Len(H) /\ LocalOk(c, l, n) /\ PhaseOk(H, c, s, l, fl, last)
      /\ l # << >> /\ l[1].seq = last + 1
  BY <1>1 DEF EngineOk
<1>3. /\ l \in Seq(FatOps) /\ \A i, j \in 1..k : i <= j => l[i].seq <= l[j].seq
  BY <1>1, <1>2 DEF LocalOk
<1>4. k \in Nat /\ k # 0 /\ 1 \in 1..k /\ k \in 1..k
  BY <1>1, <1>2, <1>3
<1>5. z \in Nat /\ z = l[k].seq
  <2>1. PICK f : f = l[k]
    OBVIOUS
  <2>2. f \in FatOps /\ z = f.seq
    BY <1>1, <1>3, <1>4, <2>1 DEF Last
  <2> QED BY <2>1, <2>2 DEF FatOps
<1>6. PICK m \in 0..k : Phase(H, c, s, l, m, fl) /\ SentBy(l, m, last)
  BY <1>1, <1>2 DEF PhaseOk
<1>7. m = 0
  <2>1. SUFFICES ASSUME m # 0 PROVE FALSE
    OBVIOUS
  <2>2. 1 \in 1..m
    BY <1>4, <1>6, <2>1
  <2>3. l[1].seq <= last
    BY <1>6, <2>2 DEF SentBy
  <2> QED BY <1>2, <2>3
<1>8. AckPhase(H, c, s, l, 0) /\ fl = << >>
  <2>1. Phase(H, c, s, l, 0, fl)
    BY <1>6, <1>7
  <2>2. \A x : ~InFlightPhase(H, c, s, l, 0, x)
    BY DEF InFlightPhase
  <2>3. ~HandledPhase(H, c, s, l, 0)
    BY DEF HandledPhase, HandledAt
  <2> QED BY <2>1, <2>2, <2>3 DEF Phase
<1>9. PICK x : x = [context |-> s, ops |-> l]
  OBVIOUS
<1>10. InFlightPhase(H, c, s, l, k, x)
  BY <1>1, <1>2, <1>3, <1>8, <1>9, SendPhase
<1>11. Append(fl, x) = <<x>>
  BY <1>8
<1>12. SentBy(l, k, z)
  BY <1>3, <1>4, <1>5 DEF SentBy
<1>13. k \in 0..Len(l)
  BY <1>1, <1>4
<1>14. PhaseOk(H, c, s, l, Append(fl, x), z)
  BY <1>10, <1>11, <1>12, <1>13 DEF PhaseOk, Phase
<1> QED BY <1>1, <1>5, <1>9, <1>14 DEF EngineOk

\* What has been processed is not changed by what the owner sequences.
LEMMA TextKept ==
    ASSUME NEW H \in Seq(FatOps), NEW X \in Seq(FatOps), NEW s \in 0..Len(H), NEW l, NEW x,
           TextOk(Plain(H), s, l, x)
    PROVE  TextOk(Plain(H \o X), s, l, x)
<1>1. PICK h, r : h = Plain(H) /\ r = Plain(X)
  OBVIOUS
<1>2. /\ h \in Seq(O) /\ r \in Seq(O) /\ Len(h) = Len(H) /\ Plain(H \o X) = h \o r
  BY <1>1, PlainIs, PlainConcat
<1>3. DocAt(h \o r, s) = DocAt(h, s)
  BY <1>2, DocAtKept
<1> QED BY <1>1, <1>2, <1>3 DEF TextOk

\* process_ops of the owner, for the client whose batch it is.
LEMMA SenderOk ==
    ASSUME NEW H \in Seq(FatOps), NEW c, NEW e, NEW b, NEW fl, NEW last, NEW n,
           EngineOk(H, c, e, b, fl, last, n), fl # << >>, NEW q,
           q = QuatradicTransform(SubSeq(Plain(H), Head(fl).context + 1, Len(H)),
                                  Plain(Head(fl).ops))
    PROVE  /\ q \in Seq(O) /\ Carry(Head(fl).ops, q) \in Seq(FatOps)
           /\ Plain(Carry(Head(fl).ops, q)) = q
           /\ AllBy(c, q)
           /\ Head(fl) \in Batches /\ Head(fl).context \in 0..Len(H)
           /\ EngineOk(H \o Carry(Head(fl).ops, q), c, e, b, Tail(fl), last, n)
<1>1. PICK s, l, k : s = e.seq /\ l = e.local /\ k = Len(l)
  OBVIOUS
<1>2. /\ Shaped(e) /\ s \in 0..Len(H) /\ e.global \in Seq(FatOps) /\ s = b + Len(e.global)
      /\ LocalOk(c, l, n) /\ PhaseOk(H, c, s, l, fl, last) /\ TextOk(Plain(H), s, l, e.text)
  BY <1>1 DEF EngineOk
<1>3. PICK m \in 0..Len(l) : Phase(H, c, s, l, m, fl) /\ SentBy(l, m, last)
  BY <1>2 DEF PhaseOk
<1>4. PICK x : fl = <<x>> /\ InFlightPhase(H, c, s, l, m, x)
  BY <1>3 DEF Phase
<1>5. Head(fl) = x /\ Tail(fl) = << >>
  BY <1>4
<1>6. q = QuatradicTransform(SubSeq(Plain(H), x.context + 1, Len(H)), Plain(x.ops))
  BY <1>5
<1>7. PICK X : X = Carry(x.ops, q)
  OBVIOUS
<1>8. /\ q \in Seq(O) /\ X \in Seq(FatOps) /\ Plain(X) = q
      /\ \A i \in 1..Len(X) : X[i].op.site = c
      /\ HandledPhase(H \o X, c, s, l, m)
  BY <1>2, <1>4, <1>6, <1>7, HandlePhase
<1>9. AllBy(c, q)
  <2>1. /\ Len(Plain(X)) = Len(X) /\ \A i \in 1..Len(X) : Plain(X)[i] = X[i].op
    BY <1>8, PlainIs
  <2> QED BY <1>8, <2>1 DEF AllBy
<1>10. x \in Batches /\ x.context \in 0..s
  BY <1>4 DEF InFlightPhase
<1>11. x.context \in 0..Len(H)
  BY <1>2, <1>10
<1>12. PhaseOk(H \o X, c, s, l, << >>, last)
  BY <1>3, <1>8 DEF PhaseOk, Phase
<1>13. TextOk(Plain(H \o X), s, l, e.text)
  BY <1>2, <1>8, TextKept
<1>14. s \in 0..Len(H \o X)
  <2>1. Len(H \o X) = Len(H) + Len(X) /\ Len(X) \in Nat
    BY <1>8, Extended
  <2> QED BY <1>2, <2>1
<1>15. EngineOk(H \o X, c, e, b, << >>, last, n)
  BY <1>1, <1>2, <1>12, <1>13, <1>14 DEF EngineOk
<1> QED BY <1>5, <1>7, <1>8, <1>9, <1>10, <1>11, <1>15

\* For the other clients.
LEMMA OthersOk ==
    ASSUME NEW H \in Seq(FatOps), NEW X \in Seq(FatOps), NEW c, NEW d, c # d,
           AllBy(d, Plain(X)), NEW e, NEW b, NEW fl, NEW last, NEW n,
           EngineOk(H, c, e, b, fl, last, n)
    PROVE  EngineOk(H \o X, c, e, b, fl, last, n)
<1>1. PICK s, l, G : s = e.seq /\ l = e.local /\ G = H \o X
  OBVIOUS
<1>2. /\ Shaped(e) /\ s \in 0..Len(H) /\ e.global \in Seq(FatOps) /\ s = b + Len(e.global)
      /\ LocalOk(c, l, n) /\ PhaseOk(H, c, s, l, fl, last) /\ TextOk(Plain(H), s, l, e.text)
  BY <1>1 DEF EngineOk
<1>3. PICK m \in 0..Len(l) : Phase(H, c, s, l, m, fl) /\ SentBy(l, m, last)
  BY <1>2 DEF PhaseOk
<1>4. \A i \in 1..Len(X) : X[i].op.site # c
  <2>1. /\ Len(Plain(X)) = Len(X) /\ \A i \in 1..Len(X) : Plain(X)[i] = X[i].op
    BY PlainIs
  <2> QED BY <2>1 DEF AllBy
<1>5. m \in Nat
  BY <1>3
<1>6. Phase(G, c, s, l, m, fl)
  BY <1>1, <1>2, <1>3, <1>4, <1>5, ExtendPhase
<1>7. PhaseOk(G, c, s, l, fl, last)
  BY <1>3, <1>6 DEF PhaseOk
<1>8. TextOk(Plain(G), s, l, e.text)
  BY <1>1, <1>2, TextKept
<1>9. s \in 0..Len(G)
  <2>1. Len(H \o X) = Len(H) + Len(X) /\ Len(X) \in Nat
    BY Extended
  <2> QED BY <1>1, <1>2, <2>1
<1>10. EngineOk(G, c, e, b, fl, last, n)
  BY <1>1, <1>2, <1>7, <1>8, <1>9 DEF EngineOk
<1> QED BY <1>1, <1>10

\* process_ops of the owner: the ops make sense on its document.
LEMMA OwnerOk ==
    ASSUME NEW H \in Seq(FatOps), Valid(InitDoc, Plain(H)), NEW c, NEW e, NEW b, NEW fl,
           NEW last, NEW n, EngineOk(H, c, e, b, fl, last, n), fl # << >>, NEW q,
           q = QuatradicTransform(SubSeq(Plain(H), Head(fl).context + 1, Len(H)),
                                  Plain(Head(fl).ops))
    PROVE  /\ Valid(InitDoc, Plain(H \o Carry(Head(fl).ops, q)))
           /\ ApplyOps(InitDoc, Plain(H \o Carry(Head(fl).ops, q)))
                 = ApplyOps(ApplyOps(InitDoc, Plain(H)), q)
<1>1. PICK s, l, h, n1 : s = e.seq /\ l = e.local /\ h = Plain(H) /\ n1 = Len(H)
  OBVIOUS
<1>2. /\ s \in 0..Len(H) /\ LocalOk(c, l, n) /\ PhaseOk(H, c, s, l, fl, last)
      /\ TextOk(h, s, l, e.text)
  BY <1>1 DEF EngineOk
<1>3. PICK m \in 0..Len(l) : Phase(H, c, s, l, m, fl) /\ SentBy(l, m, last)
  BY <1>2 DEF PhaseOk
<1>4. PICK x : fl = <<x>> /\ InFlightPhase(H, c, s, l, m, x)
  BY <1>3 DEF Phase
<1>5. Head(fl) = x
  BY <1>4
<1>6. PICK P, ctx, A : P = Plain(x.ops) /\ ctx = x.context /\ A = SubSeq(h, ctx + 1, s)
  OBVIOUS
<1>7. /\ ctx \in 0..s /\ x.ops \in Seq(FatOps) /\ Len(x.ops) = m /\ AllBy(c, P)
      /\ Agree(Plain(l), QuatradicTransform(A, P), m)
  BY <1>1, <1>2, <1>3, <1>4, <1>6, BatchIsOwn
<1>8. P \in Seq(O) /\ Len(P) = m /\ h \in Seq(O) /\ Len(h) = Len(H)
  BY <1>1, <1>6, <1>7, PlainIs
<1>9. A \in Seq(O)
  BY <1>2, <1>6, <1>7, <1>8, StretchType
<1>10. PICK t, p : t = QuatradicTransform(A, P) /\ p = Plain(l)
  OBVIOUS
<1>11. t \in Seq(O) /\ Len(t) = m
  BY <1>8, <1>9, <1>10, OpsOk, TransportType
<1>12. p \in Seq(O) /\ Len(p) = Len(l) /\ l \in Seq(FatOps)
  BY <1>2, <1>10, PlainIs DEF LocalOk
<1>13. m \in Nat /\ m <= Len(p) /\ m \in 0..Len(p) /\ m <= Len(t)
  BY <1>3, <1>11, <1>12
<1>14. SubSeq(p, 1, m) = t
  <2>1. SubSeq(p, 1, m) = SubSeq(t, 1, m)
    BY <1>7, <1>10, <1>11, <1>12, <1>13, PrefixAgree
  <2>2. SubSeq(t, 1, m) = t
    BY <1>11, StretchAll
  <2> QED BY <2>1, <2>2
<1>15. Valid(DocAt(h, s), p)
  BY <1>2, <1>10 DEF TextOk
<1>16. Valid(DocAt(h, s), t)
  BY <1>12, <1>13, <1>14, <1>15, ValidPrefix
<1>17. \A i \in (s + 1)..Len(h) : h[i].site # c
  <2>1. \A i \in (s + 1)..Len(H) : H[i].op.site # c
    BY <1>4 DEF InFlightPhase, Own
  <2>2. \A i \in (s + 1)..Len(H) : i \in 1..Len(H)
    BY <1>2
  <2>3. \A i \in 1..Len(H) : h[i] = H[i].op
    BY <1>1, PlainIs
  <2> QED BY <1>8, <2>1, <2>2, <2>3
<1>18. Valid(DocAt(h, Len(h)), QuatradicTransform(SubSeq(h, ctx + 1, Len(h)), P))
  <2>1. Valid(InitDoc, h) /\ s \in 0..Len(h)
    BY <1>1, <1>2, <1>8
  <2>2. Valid(DocAt(h, s), QuatradicTransform(SubSeq(h, ctx + 1, s), P))
    BY <1>6, <1>10, <1>16
  <2> QED BY <1>7, <1>8, <1>17, <2>1, <2>2, TransportValid
<1>19. q = QuatradicTransform(SubSeq(h, ctx + 1, Len(h)), P)
  BY <1>1, <1>5, <1>6, <1>8
<1>20. Valid(ApplyOps(InitDoc, h), q)
  BY <1>8, <1>18, <1>19, DocAtAll
<1>21. PICK X : X = Carry(Head(fl).ops, q)
  OBVIOUS
<1>22. q \in Seq(O) /\ X \in Seq(FatOps) /\ Plain(X) = q
  BY <1>21, SenderOk
<1>23. Plain(H \o X) = h \o q
  BY <1>1, <1>22, PlainConcat
<1>24. /\ ApplyOps(InitDoc, h \o q) = ApplyOps(ApplyOps(InitDoc, h), q)
       /\ Valid(InitDoc, h \o q) <=> Valid(InitDoc, h) /\ Valid(ApplyOps(InitDoc, h), q)
  BY <1>8, <1>22, ApplyOpsConcat
<1> QED BY <1>1, <1>20, <1>21, <1>23, <1>24

-----------------------------------------------------------------------------
(* The ops the editor sends                                                 *)

LiveFold == INSTANCE FoldLemmas
                WITH Op <- LAMBDA p, x, y : IF p[y].live THEN Append(x, y - 1) ELSE x

\* One position more: the last run grows, or another begins.
RunStep(x, y) == IF x # << >> /\ Last(x).pos + Last(x).len = y
                 THEN [x EXCEPT ![Len(x)].len = @ + 1]
                 ELSE Append(x, Seg(y, 1))
RunFold == INSTANCE FoldLemmas WITH Op <- LAMBDA p, x, y : RunStep(x, y)

LEMMA LivePositionsType ==
    ASSUME NEW T, NEW d \in Seq(T)
    PROVE  LivePositions(d) \in Seq(0..(Len(d) - 1))
<1>1. PICK n : n = Len(d)
  OBVIOUS
<1>2. PICK P : P = 0..(n - 1)
  OBVIOUS
<1> DEFINE G == {s \in Seq(1..n) : LiveFold!Fold(d, << >>, s) \in Seq(P)}
<1>3. << >> \in G
  <2>1. PICK e : e = << >>
    OBVIOUS
  <2>2. LiveFold!Fold(d, << >>, e) = e
    BY <2>1, LiveFold!FoldEmpty
  <2>3. e \in Seq(1..n) /\ e \in Seq(P)
    BY <2>1
  <2>4. e \in G
    BY <2>2, <2>3
  <2> HIDE DEF G
  <2> QED BY <2>1, <2>4
<1>4. ASSUME NEW s \in G, NEW i \in 1..n PROVE Append(s, i) \in G
  <2>1. s \in Seq(1..n) /\ Append(s, i) \in Seq(1..n)
    OBVIOUS
  <2>2. PICK x : x = LiveFold!Fold(d, << >>, s)
    OBVIOUS
  <2>3. x \in Seq(P)
    BY <2>2
  <2>4. LiveFold!Fold(d, << >>, Append(s, i)) = IF d[i].live THEN Append(x, i - 1) ELSE x
    BY <2>1, <2>2, LiveFold!FoldAppend
  <2>5. i - 1 \in P
    BY <1>1, <1>2
  <2>6. Append(x, i - 1) \in Seq(P)
    BY <2>3, <2>5
  <2> QED BY <2>1, <2>3, <2>4, <2>6
<1>5. G \in SUBSET Seq(1..n)
  OBVIOUS
<1>6. PICK r : r = [i \in 1..n |-> i]
  OBVIOUS
<1>7. r \in Seq(1..n)
  <2>1. n \in Nat
    BY <1>1
  <2>2. r \in [1..n -> 1..n]
    BY <1>6
  <2> QED BY <2>1, <2>2
<1>8. r \in G
  <2> HIDE DEF G
  <2> QED BY <1>3, <1>4, <1>5, <1>7, ApplyFold!SeqInduction
<1>9. LivePositions(d) = LiveFold!Fold(d, << >>, r)
  BY <1>1, <1>6 DEF LivePositions, LiveFold!Fold, FoldLeft, MapThenFoldSet,
     LiveFold!FoldLeft, LiveFold!MapThenFoldSet, Max, LiveFold!Max
<1> QED BY <1>1, <1>2, <1>8, <1>9

LEMMA RunsType ==
    ASSUME NEW ps \in Seq(Nat)
    PROVE  Runs(ps) \in Seq(Segs)
<1> DEFINE G == {s \in Seq(Nat) : RunFold!Fold({}, << >>, s) \in Seq(Segs)}
<1>1. << >> \in G
  <2>1. PICK e : e = << >>
    OBVIOUS
  <2>2. RunFold!Fold({}, << >>, e) = e
    BY <2>1, RunFold!FoldEmpty
  <2>3. e \in Seq(Nat) /\ e \in Seq(Segs)
    BY <2>1
  <2>4. e \in G
    BY <2>2, <2>3
  <2> HIDE DEF G
  <2> QED BY <2>1, <2>4
<1>2. ASSUME NEW s \in G, NEW q \in Nat PROVE Append(s, q) \in G
  <2>1. s \in Seq(Nat) /\ Append(s, q) \in Seq(Nat)
    OBVIOUS
  <2>2. PICK x : x = RunFold!Fold({}, << >>, s)
    OBVIOUS
  <2>3. x \in Seq(Segs)
    BY <2>2
  <2>4. RunFold!Fold({}, << >>, Append(s, q)) = RunStep(x, q)
    BY <2>1, <2>2, RunFold!FoldAppend
  <2>5. Append(x, Seg(q, 1)) \in Seq(Segs)
    BY <2>3 DEF Segs, Seg
  <2>6. ASSUME x # << >> PROVE [x EXCEPT ![Len(x)].len = @ + 1] \in Seq(Segs)
    <3>1. PICK n, g : n = Len(x) /\ g = x[n]
      OBVIOUS
    <3>2. n \in Nat /\ n \in 1..n /\ g \in Segs
      BY <2>3, <2>6, <3>1
    <3>3. PICK l, f : l = g.len + 1 /\ f = [g EXCEPT !.len = l]
      OBVIOUS
    <3>4. f \in Segs
      <4>1. g.len \in Nat
        BY <3>2 DEF Segs
      <4>2. l \in Nat \ {0}
        BY <3>3, <4>1
      <4> QED BY <3>2, <3>3, <4>2 DEF Segs
    <3>5. [x EXCEPT ![Len(x)].len = @ + 1] = [x EXCEPT ![n] = f]
      BY <3>1, <3>3
    <3>6. [x EXCEPT ![n] = f] \in Seq(Segs)
      BY <2>3, <3>1, <3>2, <3>4
    <3> QED BY <3>5, <3>6
  <2>7. RunStep(x, q) \in Seq(Segs)
    BY <2>5, <2>6 DEF RunStep
  <2> QED BY <2>1, <2>4, <2>7
<1>3. G \in SUBSET Seq(Nat)
  OBVIOUS
<1>4. ps \in G
  <2> HIDE DEF G
  <2> QED BY <1>1, <1>2, <1>3, ApplyFold!SeqInduction
<1>5. Runs(ps) = RunFold!Fold({}, << >>, ps)
  BY DEF Runs, RunStep, RunFold!Fold, FoldLeft, MapThenFoldSet, RunFold!FoldLeft,
     RunFold!MapThenFoldSet, Max, RunFold!Max
<1> QED BY <1>4, <1>5

LEMMA DelOpType ==
    ASSUME NEW T, NEW d \in Seq(T), NEW p \in Nat, NEW n \in Nat,
           p + n <= Len(LivePositions(d)), NEW c \in Clients
    PROVE  DelOp(d, p, n, c) \in O /\ DelOp(d, p, n, c).site = c /\ Fits(DelOp(d, p, n, c), d)
<1>1. PICK ps, k : ps = LivePositions(d) /\ k = p + n
  OBVIOUS
<1>2. ps \in Seq(0..(Len(d) - 1))
  BY <1>1, LivePositionsType
<1>3. ps \in Seq(Nat)
  <2>1. Len(ps) \in Nat /\ \A i \in 1..Len(ps) : ps[i] \in Nat
    BY <1>2
  <2>2. ps = [i \in 1..Len(ps) |-> ps[i]]
    BY <1>2
  <2> QED BY <2>1, <2>2
<1>4. k \in 0..Len(ps) /\ p \in 0..k
  BY <1>1, <1>2
<1>5. SubSeq(ps, p + 1, k) \in Seq(Nat)
  BY <1>3, <1>4, StretchType
<1>6. PICK r : r = Runs(SubSeq(ps, p + 1, k))
  OBVIOUS
<1>7. r \in Seq(Segs)
  BY <1>5, <1>6, RunsType
<1>8. DelOp(d, p, n, c) = Mark(r, FALSE, c)
  BY <1>1, <1>6 DEF DelOp
<1>9. PICK op : op = Mark(r, FALSE, c)
  OBVIOUS
<1>10. op \in DeadMarks(Clients) /\ op.site = c /\ op.type = "Mark"
  BY <1>7, <1>9 DEF DeadMarks, Mark
<1> QED BY <1>8, <1>9, <1>10 DEF O, EditOps, Fits

LEMMA InternalPosType ==
    ASSUME NEW T, NEW d \in Seq(T), NEW p \in 0..Len(LivePositions(d)),
           NEW q \in InternalPos(d, p)
    PROVE  q \in 0..Len(d)
<1>1. PICK ps, n : ps = LivePositions(d) /\ n = Len(d)
  OBVIOUS
<1>2. ps \in Seq(0..(n - 1)) /\ n \in Nat
  BY <1>1, LivePositionsType
<1>3. CASE p = 0
  <2>1. q = 0
    BY <1>3 DEF InternalPos
  <2> QED BY <1>1, <1>2, <2>1
<1>4. CASE p # 0
  <2>1. q = ps[p] + 1 \/ (p < Len(ps) /\ q = ps[p + 1])
    BY <1>1, <1>4 DEF InternalPos
  <2>2. p \in 1..Len(ps) /\ (p < Len(ps) => p + 1 \in 1..Len(ps))
    BY <1>1, <1>2, <1>4
  <2>3. ps[p] \in 0..(n - 1) /\ (p < Len(ps) => ps[p + 1] \in 0..(n - 1))
    BY <1>2, <2>2
  <2> QED BY <1>1, <1>2, <2>1, <2>3
<1> QED BY <1>3, <1>4

LEMMA InsOpType ==
    ASSUME NEW d, NEW q \in Nat, q <= Len(d), NEW n \in Nat, n # 0, NEW seq \in Nat,
           NEW c \in Clients
    PROVE  /\ Ins(q, NewChars(c, seq, n), c) \in O
           /\ Ins(q, NewChars(c, seq, n), c).site = c
           /\ Fits(Ins(q, NewChars(c, seq, n), c), d)
<1>1. PICK s : s = NewChars(c, seq, n)
  OBVIOUS
<1>2. c \in Nat
  BY ClientAssumption
<1>3. \A k \in 1..n : <<c, seq, k>> \in Chars
  BY <1>2 DEF Chars
<1>4. s \in [1..n -> Chars]
  BY <1>1, <1>3 DEF NewChars
<1>5. s \in Seq(Chars) /\ s # << >>
  BY <1>4
<1>6. PICK op : op = Ins(q, s, c)
  OBVIOUS
<1>7. op \in InsOps(Chars, Clients) /\ op.site = c /\ op.pos = q
  BY <1>5, <1>6 DEF InsOps, Ins
<1> QED BY <1>1, <1>6, <1>7 DEF O, EditOps, Fits

-----------------------------------------------------------------------------
(* The inductive invariant                                                  *)

OnClients(f) == f = [c \in Clients |-> f[c]]

ClientOk(H, c, s, g, l, x, k, fl, last, n) ==
    /\ s \in 0..Len(H) /\ g \in Seq(FatOps) /\ s = k + Len(g)
    /\ LocalOk(c, l, n)
    /\ PhaseOk(H, c, s, l, fl, last)
    /\ TextOk(Plain(H), s, l, x)

\* The history H and document D of the owner; of each client: joined J,
\* base B, global G, local L, text X, in flight F, last sent S, site seq N.
SystemOk(H, D, J, B, G, L, X, F, S, N) ==
    /\ H \in Seq(FatOps) /\ Valid(InitDoc, Plain(H)) /\ D = ApplyOps(InitDoc, Plain(H))
    /\ OnClients(J) /\ OnClients(B) /\ OnClients(G) /\ OnClients(L) /\ OnClients(X)
    /\ OnClients(F) /\ OnClients(S) /\ OnClients(N)
    /\ \A c \in Clients : B[c] \in Nat /\ S[c] \in Nat /\ N[c] \in Nat
    /\ \A c \in Clients : J[c] => ClientOk(H, c, B[c] + Len(G[c]), G[c], L[c], X[c], B[c],
                                           F[c], S[c], N[c])
    /\ \A c \in Clients : ~J[c] => G[c] = << >> /\ L[c] = << >> /\ F[c] = << >>

Inv == SystemOk(history, doc, joined, base, global, local, text, inFlight, lastSent, siteSeq)

LEMMA EngineClient ==
    ASSUME NEW H, NEW c, NEW e, NEW k, NEW fl, NEW last, NEW n
    PROVE  EngineOk(H, c, e, k, fl, last, n) <=>
              Shaped(e) /\ ClientOk(H, c, e.seq, e.global, e.local, e.text, k, fl, last, n)
BY DEF EngineOk, ClientOk

\* g is f but for c.
Put(g, f, c, v) == g = [f EXCEPT ![c] = v]

LEMMA Updated ==
    ASSUME NEW f, OnClients(f), NEW c \in Clients, NEW v, NEW g, Put(g, f, c, v)
    PROVE  /\ OnClients(g) /\ g[c] = v
           /\ \A d \in Clients : d # c => g[d] = f[d]
BY DEF OnClients, Put

\* A client that does something.
LEMMA ClientStep ==
    ASSUME NEW H, NEW D, NEW J, NEW B, NEW G, NEW L, NEW X, NEW F, NEW S, NEW N,
           SystemOk(H, D, J, B, G, L, X, F, S, N), NEW c \in Clients, J[c],
           NEW s, NEW g, NEW l, NEW x, NEW fl, NEW last \in Nat, NEW n \in Nat,
           ClientOk(H, c, s, g, l, x, B[c], fl, last, n),
           NEW G2, NEW L2, NEW X2, NEW F2, NEW S2, NEW N2,
           Put(G2, G, c, g), Put(L2, L, c, l), Put(X2, X, c, x),
           Put(F2, F, c, fl), Put(S2, S, c, last), Put(N2, N, c, n)
    PROVE  SystemOk(H, D, J, B, G2, L2, X2, F2, S2, N2)
<1>1. /\ H \in Seq(FatOps) /\ Valid(InitDoc, Plain(H)) /\ D = ApplyOps(InitDoc, Plain(H))
      /\ OnClients(J) /\ OnClients(B) /\ OnClients(G) /\ OnClients(L) /\ OnClients(X)
      /\ OnClients(F) /\ OnClients(S) /\ OnClients(N)
  BY DEF SystemOk
<1>2. \A d \in Clients : B[d] \in Nat /\ S[d] \in Nat /\ N[d] \in Nat
  BY DEF SystemOk
<1>3. \A d \in Clients : J[d] => ClientOk(H, d, B[d] + Len(G[d]), G[d], L[d], X[d], B[d],
                                          F[d], S[d], N[d])
  BY DEF SystemOk
<1>4. \A d \in Clients : ~J[d] => G[d] = << >> /\ L[d] = << >> /\ F[d] = << >>
  BY DEF SystemOk
<1>5. OnClients(G2) /\ G2[c] = g /\ \A d \in Clients : d # c => G2[d] = G[d]
  BY <1>1, Updated
<1>6. OnClients(L2) /\ L2[c] = l /\ \A d \in Clients : d # c => L2[d] = L[d]
  BY <1>1, Updated
<1>7. OnClients(X2) /\ X2[c] = x /\ \A d \in Clients : d # c => X2[d] = X[d]
  BY <1>1, Updated
<1>8. OnClients(F2) /\ F2[c] = fl /\ \A d \in Clients : d # c => F2[d] = F[d]
  BY <1>1, Updated
<1>9. OnClients(S2) /\ S2[c] = last /\ \A d \in Clients : d # c => S2[d] = S[d]
  BY <1>1, Updated
<1>10. OnClients(N2) /\ N2[c] = n /\ \A d \in Clients : d # c => N2[d] = N[d]
  BY <1>1, Updated
<1>11. ASSUME NEW d \in Clients
       PROVE  B[d] \in Nat /\ S2[d] \in Nat /\ N2[d] \in Nat
  BY <1>2, <1>9, <1>10
<1>12. ASSUME NEW d \in Clients, J[d]
       PROVE  ClientOk(H, d, B[d] + Len(G2[d]), G2[d], L2[d], X2[d], B[d], F2[d], S2[d], N2[d])
  <2>1. CASE d = c
    <3>1. s = B[c] + Len(g)
      BY DEF ClientOk
    <3> QED BY <1>5, <1>6, <1>7, <1>8, <1>9, <1>10, <2>1, <3>1
  <2>2. CASE d # c
    BY <1>3, <1>5, <1>6, <1>7, <1>8, <1>9, <1>10, <1>12, <2>2
  <2> QED BY <2>1, <2>2
<1>13. ASSUME NEW d \in Clients, ~J[d]
       PROVE  G2[d] = << >> /\ L2[d] = << >> /\ F2[d] = << >>
  BY <1>4, <1>5, <1>6, <1>8, <1>13
<1> QED BY <1>1, <1>5, <1>6, <1>7, <1>8, <1>9, <1>10, <1>11, <1>12, <1>13 DEF SystemOk

\* A client that has processed all the owner has, and has made nothing.
LEMMA FreshClient ==
    ASSUME NEW H \in Seq(FatOps), NEW c, NEW n, NEW last
    PROVE  ClientOk(H, c, Len(H), << >>, << >>, ApplyOps(InitDoc, Plain(H)), Len(H), << >>,
                    last, n)
<1>1. PICK e, k, h, x : /\ e = << >> /\ k = Len(H) /\ h = Plain(H)
                        /\ x = ApplyOps(InitDoc, Plain(H))
  OBVIOUS
<1>2. k \in Nat /\ h \in Seq(O) /\ Len(h) = k
  BY <1>1, PlainIs
<1>3. e \in Seq(FatOps) /\ Len(e) = 0 /\ k \in 0..Len(H) /\ k = k + Len(e)
  BY <1>1, <1>2
<1>4. LocalOk(c, e, n)
  BY <1>3 DEF LocalOk
<1>5. AckPhase(H, c, k, e, 0)
  <2>1. \A i \in (k + 1)..Len(H) : FALSE
    BY <1>1, <1>2
  <2>2. k + 0 <= Len(H)
    BY <1>1, <1>2
  <2> QED BY <2>1, <2>2 DEF AckPhase
<1>6. PhaseOk(H, c, k, e, << >>, last)
  <2>1. 0 \in 0..Len(e) /\ SentBy(e, 0, last)
    BY <1>3 DEF SentBy
  <2> QED BY <1>5, <2>1 DEF PhaseOk, Phase
<1>7. TextOk(h, k, e, x)
  <2>1. Plain(e) = << >>
    BY <1>1 DEF Plain
  <2>2. DocAt(h, k) = x
    BY <1>1, <1>2, DocAtAll
  <2> QED BY <2>1, <2>2, ApplyOpsEmpty, ValidEmpty DEF TextOk
<1>8. ClientOk(H, c, k, e, e, x, k, e, last, n)
  BY <1>1, <1>3, <1>4, <1>6, <1>7 DEF ClientOk
<1> QED BY <1>1, <1>8

Yes(b) == b = TRUE

\* A client opens the document.
LEMMA JoinStep ==
    ASSUME NEW H, NEW D, NEW J, NEW B, NEW G, NEW L, NEW X, NEW F, NEW S, NEW N,
           SystemOk(H, D, J, B, G, L, X, F, S, N), NEW c \in Clients, ~J[c],
           NEW J2, NEW B2, NEW X2, NEW yes, Yes(yes),
           Put(J2, J, c, yes), Put(B2, B, c, Len(H)), Put(X2, X, c, D)
    PROVE  SystemOk(H, D, J2, B2, G, L, X2, F, S, N)
<1>1. /\ H \in Seq(FatOps) /\ Valid(InitDoc, Plain(H)) /\ D = ApplyOps(InitDoc, Plain(H))
      /\ OnClients(J) /\ OnClients(B) /\ OnClients(G) /\ OnClients(L) /\ OnClients(X)
      /\ OnClients(F) /\ OnClients(S) /\ OnClients(N)
  BY DEF SystemOk
<1>2. \A d \in Clients : B[d] \in Nat /\ S[d] \in Nat /\ N[d] \in Nat
  BY DEF SystemOk
<1>3. \A d \in Clients : J[d] => ClientOk(H, d, B[d] + Len(G[d]), G[d], L[d], X[d], B[d],
                                          F[d], S[d], N[d])
  BY DEF SystemOk
<1>4. \A d \in Clients : ~J[d] => G[d] = << >> /\ L[d] = << >> /\ F[d] = << >>
  BY DEF SystemOk
<1>6. OnClients(J2) /\ J2[c] = yes /\ \A d \in Clients : d # c => J2[d] = J[d]
  BY <1>1, Updated
<1>7. PICK h : h = Len(H)
  OBVIOUS
<1>8. h \in Nat
  BY <1>1, <1>7
<1>9. OnClients(B2) /\ B2[c] = h /\ \A d \in Clients : d # c => B2[d] = B[d]
  BY <1>1, <1>7, Updated
<1>10. OnClients(X2) /\ X2[c] = D /\ \A d \in Clients : d # c => X2[d] = X[d]
  BY <1>1, Updated
<1>11. ASSUME NEW d \in Clients PROVE B2[d] \in Nat /\ S[d] \in Nat /\ N[d] \in Nat
  BY <1>2, <1>8, <1>9
<1>12. ASSUME NEW d \in Clients, J2[d]
       PROVE  ClientOk(H, d, B2[d] + Len(G[d]), G[d], L[d], X2[d], B2[d], F[d], S[d], N[d])
  <2>1. CASE d = c
    <3>1. G[c] = << >> /\ L[c] = << >> /\ F[c] = << >>
      BY <1>4
    <3>2. PICK e, last, n : e = << >> /\ last = S[c] /\ n = N[c]
      OBVIOUS
    <3>3. ClientOk(H, c, h, e, e, D, h, e, last, n)
      BY <1>1, <1>7, <3>2, FreshClient
    <3>4. h + Len(e) = h
      BY <1>8, <3>2
    <3> QED BY <1>9, <1>10, <2>1, <3>1, <3>2, <3>3, <3>4
  <2>2. CASE d # c
    BY <1>3, <1>6, <1>9, <1>10, <1>12, <2>2
  <2> QED BY <2>1, <2>2
<1>13. ASSUME NEW d \in Clients, ~J2[d]
       PROVE  G[d] = << >> /\ L[d] = << >> /\ F[d] = << >>
  <2>1. d # c
    BY <1>6, <1>13 DEF Yes
  <2> QED BY <1>4, <1>6, <1>13, <2>1
<1> QED BY <1>1, <1>6, <1>9, <1>10, <1>11, <1>12, <1>13 DEF SystemOk

\* The owner handles the batch of client c.
LEMMA OwnerStep ==
    ASSUME NEW H, NEW D, NEW J, NEW B, NEW G, NEW L, NEW X, NEW F, NEW S, NEW N,
           SystemOk(H, D, J, B, G, L, X, F, S, N), NEW c \in Clients, F[c] # << >>,
           NEW q, q = QuatradicTransform(SubSeq(Plain(H), Head(F[c]).context + 1, Len(H)),
                                         Plain(Head(F[c]).ops)),
           NEW H2, NEW D2, NEW F2,
           H2 = H \o Carry(Head(F[c]).ops, q), D2 = ApplyOps(D, q),
           Put(F2, F, c, Tail(F[c]))
    PROVE  SystemOk(H2, D2, J, B, G, L, X, F2, S, N)
<1>1. /\ H \in Seq(FatOps) /\ Valid(InitDoc, Plain(H)) /\ D = ApplyOps(InitDoc, Plain(H))
      /\ OnClients(J) /\ OnClients(B) /\ OnClients(G) /\ OnClients(L) /\ OnClients(X)
      /\ OnClients(F) /\ OnClients(S) /\ OnClients(N)
  BY DEF SystemOk
<1>2. \A d \in Clients : B[d] \in Nat /\ S[d] \in Nat /\ N[d] \in Nat
  BY DEF SystemOk
<1>3. \A d \in Clients : J[d] => ClientOk(H, d, B[d] + Len(G[d]), G[d], L[d], X[d], B[d],
                                          F[d], S[d], N[d])
  BY DEF SystemOk
<1>4. \A d \in Clients : ~J[d] => G[d] = << >> /\ L[d] = << >> /\ F[d] = << >>
  BY DEF SystemOk
<1>5. J[c]
  BY <1>4
<1> DEFINE E(d) == Record(B[d] + Len(G[d]), G[d], L[d], X[d], 0, 0)
<1>6. ASSUME NEW d \in Clients
      PROVE  /\ Shaped(E(d)) /\ E(d).seq = B[d] + Len(G[d]) /\ E(d).global = G[d]
             /\ E(d).local = L[d] /\ E(d).text = X[d]
  BY DEF Shaped, Record
<1> HIDE DEF E
<1>7. ASSUME NEW d \in Clients, J[d] PROVE EngineOk(H, d, E(d), B[d], F[d], S[d], N[d])
  BY <1>3, <1>6, <1>7, EngineClient
<1>8. PICK e, fl, last, n, b, x : /\ e = E(c) /\ fl = F[c] /\ last = S[c] /\ n = N[c]
                                  /\ b = B[c] /\ x = Head(fl)
  OBVIOUS
<1>9. EngineOk(H, c, e, b, fl, last, n) /\ fl # << >>
  BY <1>5, <1>7, <1>8
<1>10. q = QuatradicTransform(SubSeq(Plain(H), Head(fl).context + 1, Len(H)),
                              Plain(Head(fl).ops))
  BY <1>8
<1>11. PICK Y : Y = Carry(Head(fl).ops, q)
  OBVIOUS
<1>12. H2 = H \o Y /\ Put(F2, F, c, Tail(fl))
  BY <1>8, <1>11
<1>13. /\ Y \in Seq(FatOps) /\ Plain(Y) = q /\ AllBy(c, q)
       /\ EngineOk(H2, c, e, b, Tail(fl), last, n)
  <2>1. /\ Carry(Head(fl).ops, q) \in Seq(FatOps) /\ Plain(Carry(Head(fl).ops, q)) = q
        /\ AllBy(c, q)
        /\ EngineOk(H \o Carry(Head(fl).ops, q), c, e, b, Tail(fl), last, n)
    BY <1>1, <1>9, <1>10, SenderOk
  <2> QED BY <1>11, <1>12, <2>1
<1>14. /\ Valid(InitDoc, Plain(H2))
       /\ ApplyOps(InitDoc, Plain(H2)) = ApplyOps(ApplyOps(InitDoc, Plain(H)), q)
  <2>1. /\ Valid(InitDoc, Plain(H \o Carry(Head(fl).ops, q)))
        /\ ApplyOps(InitDoc, Plain(H \o Carry(Head(fl).ops, q)))
              = ApplyOps(ApplyOps(InitDoc, Plain(H)), q)
    BY <1>1, <1>9, <1>10, OwnerOk
  <2> QED BY <1>11, <1>12, <2>1
<1>15. H2 \in Seq(FatOps)
  BY <1>1, <1>12, <1>13, Extended
<1>16. OnClients(F2) /\ F2[c] = Tail(fl) /\ \A d \in Clients : d # c => F2[d] = F[d]
  <2>1. PICK v : v = Tail(fl)
    OBVIOUS
  <2>2. Put(F2, F, c, v)
    BY <1>12, <2>1
  <2>3. OnClients(F2) /\ F2[c] = v /\ \A d \in Clients : d # c => F2[d] = F[d]
    BY <1>1, <2>2, Updated
  <2> QED BY <2>1, <2>3
<1>17. ASSUME NEW d \in Clients, J[d] PROVE EngineOk(H2, d, E(d), B[d], F2[d], S[d], N[d])
  <2>1. CASE d = c
    BY <1>8, <1>13, <1>16, <2>1
  <2>2. CASE d # c
    <3>1. PICK f, u, v, w, y : f = E(d) /\ u = B[d] /\ v = F[d] /\ w = S[d] /\ y = N[d]
      OBVIOUS
    <3>2. EngineOk(H, d, f, u, v, w, y)
      BY <1>7, <1>17, <3>1
    <3>3. EngineOk(H \o Y, d, f, u, v, w, y)
      BY <1>1, <1>13, <2>2, <3>2, OthersOk
    <3> QED BY <1>12, <1>16, <2>2, <3>1, <3>3
  <2> QED BY <2>1, <2>2
<1>18. ASSUME NEW d \in Clients, J[d]
       PROVE  ClientOk(H2, d, B[d] + Len(G[d]), G[d], L[d], X[d], B[d], F2[d], S[d], N[d])
  BY <1>6, <1>17, <1>18, EngineClient
<1>19. ASSUME NEW d \in Clients, ~J[d]
       PROVE  G[d] = << >> /\ L[d] = << >> /\ F2[d] = << >>
  BY <1>4, <1>5, <1>16, <1>19
<1> QED BY <1>1, <1>2, <1>14, <1>15, <1>16, <1>18, <1>19 DEF SystemOk

-----------------------------------------------------------------------------
(* The steps of the system                                                  *)

LEMMA InitOk == Init => Inv
<1> SUFFICES ASSUME Init PROVE Inv
  OBVIOUS
<1>1. PICK e, H, k : e = << >> /\ H = << >> /\ k = Len(H)
  OBVIOUS
<1>2. H \in Seq(FatOps) /\ k = 0 /\ Plain(H) = << >>
  BY <1>1 DEF Plain
<1>3. Valid(InitDoc, Plain(H)) /\ ApplyOps(InitDoc, Plain(H)) = InitDoc
  BY <1>2, ValidEmpty, ApplyOpsEmpty
<1>4. /\ history = H /\ doc = InitDoc /\ joined = [c \in Clients |-> c \notin LateJoin]
      /\ base = [c \in Clients |-> 0] /\ global = [c \in Clients |-> << >>]
      /\ local = [c \in Clients |-> << >>] /\ text = [c \in Clients |-> InitDoc]
      /\ siteSeq = [c \in Clients |-> 0] /\ lastSent = [c \in Clients |-> 0]
      /\ inFlight = [c \in Clients |-> << >>]
  BY <1>1 DEF Init
<1>5. /\ OnClients(joined) /\ OnClients(base) /\ OnClients(global) /\ OnClients(local)
      /\ OnClients(text) /\ OnClients(inFlight) /\ OnClients(lastSent) /\ OnClients(siteSeq)
  BY <1>4 DEF OnClients
<1>6. ASSUME NEW c \in Clients
      PROVE  /\ base[c] = 0 /\ global[c] = << >> /\ local[c] = << >> /\ text[c] = InitDoc
             /\ inFlight[c] = << >> /\ lastSent[c] = 0 /\ siteSeq[c] = 0
  BY <1>4
<1>7. ASSUME NEW c \in Clients
      PROVE  ClientOk(history, c, base[c] + Len(global[c]), global[c], local[c], text[c],
                      base[c], inFlight[c], lastSent[c], siteSeq[c])
  <2>1. ClientOk(H, c, Len(H), << >>, << >>, ApplyOps(InitDoc, Plain(H)), Len(H), << >>, 0, 0)
    BY <1>2, FreshClient
  <2>2. ClientOk(H, c, k, e, e, InitDoc, k, e, 0, 0)
    BY <1>1, <1>3, <2>1
  <2>3. 0 + Len(e) = k
    BY <1>1
  <2> QED BY <1>1, <1>2, <1>4, <1>6, <2>2, <2>3
<1>8. doc = ApplyOps(InitDoc, Plain(history)) /\ Valid(InitDoc, Plain(history))
  BY <1>3, <1>4
<1> QED BY <1>2, <1>4, <1>5, <1>6, <1>7, <1>8 DEF Inv, SystemOk

LEMMA ReceiveIs ==
    ASSUME NEW e, NEW c, NEW k
    PROVE  Receive(e, c, k) = Received(history, e, c, k)
BY DEF Receive, Received, RemoteFold!Fold, FoldLeft, MapThenFoldSet, RemoteFold!FoldLeft,
       RemoteFold!MapThenFoldSet, Max, RemoteFold!Max

\* The engine of a client, in a state of the invariant.
LEMMA EngineIs ==
    ASSUME Inv, NEW c \in Clients, joined[c]
    PROVE  /\ EngineOk(history, c, Engine(c), base[c], inFlight[c], lastSent[c], siteSeq[c])
           /\ Engine(c).seq = CurrentSeq(c) /\ Engine(c).text = text[c]
           /\ Engine(c).local = local[c]
<1>1. ClientOk(history, c, CurrentSeq(c), global[c], local[c], text[c], base[c], inFlight[c],
               lastSent[c], siteSeq[c])
  BY DEF Inv, SystemOk, CurrentSeq
<1>2. PICK e, s, q, t : /\ e = Engine(c) /\ s = CurrentSeq(c) /\ q = queue[c] /\ t = tip[c]
  OBVIOUS
<1>3. e = Record(s, global[c], local[c], text[c], q, t)
  BY <1>2 DEF Engine, Record
<1>4. /\ Shaped(e) /\ e.seq = s /\ e.global = global[c] /\ e.local = local[c]
      /\ e.text = text[c]
  BY <1>3 DEF Shaped, Record
<1>5. EngineOk(history, c, e, base[c], inFlight[c], lastSent[c], siteSeq[c])
  BY <1>1, <1>2, <1>4, EngineClient
<1> QED BY <1>2, <1>4, <1>5

LEMMA InvFacts ==
    ASSUME Inv
    PROVE  /\ history \in Seq(FatOps) /\ Valid(InitDoc, Plain(history))
           /\ \A c \in Clients : /\ base[c] \in Nat /\ lastSent[c] \in Nat
                                 /\ siteSeq[c] \in Nat
BY DEF Inv, SystemOk

\* The second half of handle_send_ops_from_editor.
LEMMA FinishOk ==
    ASSUME Inv, NEW c \in Clients, joined[c], NEW e, NEW n \in Nat, NEW k,
           EngineOk(history, c, e, base[c], inFlight[c], lastSent[c], n),
           k \in 0..(Len(history) - e.seq), Finish(c, e, k),
           Put(siteSeq', siteSeq, c, n)
    PROVE  Inv'
<1>1. PICK H, b, fl, last : /\ H = history /\ b = base[c] /\ fl = inFlight[c]
                            /\ last = lastSent[c]
  OBVIOUS
<1>2. H \in Seq(FatOps) /\ Valid(InitDoc, Plain(H)) /\ b \in Nat /\ last \in Nat
  BY <1>1, InvFacts
<1>3. PICK r : r = Receive(e, c, k)
  OBVIOUS
<1>4. EngineOk(H, c, r, b, fl, last, n)
  <2>1. EngineOk(H, c, Received(H, e, c, k), b, fl, last, n)
    BY <1>1, <1>2, ReceivedOk
  <2> QED BY <1>1, <1>3, <2>1, ReceiveIs
<1>5. PICK send : send = PrevOpAcked(c, r.local)
  OBVIOUS
<1>6. PICK f2, l2 : /\ f2 = (IF send THEN Append(fl, [context |-> r.seq, ops |-> r.local])
                             ELSE fl)
                    /\ l2 = (IF send THEN Last(r.local).seq ELSE last)
  OBVIOUS
<1>7. EngineOk(H, c, r, b, f2, l2, n) /\ l2 \in Nat
  <2>1. CASE send
    <3>1. r.local # << >> /\ r.local[1].seq = last + 1
      BY <1>1, <1>5, <2>1 DEF PrevOpAcked
    <3>2. /\ EngineOk(H, c, r, b, Append(fl, [context |-> r.seq, ops |-> r.local]),
                      Last(r.local).seq, n)
          /\ Last(r.local).seq \in Nat
      BY <1>2, <1>4, <3>1, SendOk
    <3> QED BY <1>6, <2>1, <3>2
  <2>2. CASE ~send
    BY <1>2, <1>4, <1>6, <2>2
  <2> QED BY <2>1, <2>2
<1>8. /\ Put(global', global, c, r.global) /\ Put(local', local, c, r.local)
      /\ Put(text', text, c, r.text)
      /\ history' = history /\ doc' = doc /\ joined' = joined /\ base' = base
  BY <1>3 DEF Finish, Put
<1>9. Put(lastSent', lastSent, c, l2)
  BY <1>1, <1>3, <1>5, <1>6 DEF Finish, Put
<1>10. Put(inFlight', inFlight, c, f2)
  BY <1>1, <1>3, <1>5, <1>6 DEF Finish, Put
<1>11. ClientOk(H, c, r.seq, r.global, r.local, r.text, b, f2, l2, n)
  BY <1>7, EngineClient
<1>12. PICK s, g, l, x : s = r.seq /\ g = r.global /\ l = r.local /\ x = r.text
  OBVIOUS
<1>13. ClientOk(history, c, s, g, l, x, base[c], f2, l2, n)
  BY <1>1, <1>11, <1>12
<1>14. /\ Put(global', global, c, g) /\ Put(local', local, c, l) /\ Put(text', text, c, x)
  BY <1>8, <1>12
<1>15. SystemOk(history, doc, joined, base, global, local, text, inFlight, lastSent, siteSeq)
  BY DEF Inv
<1>16. PICK D, J, B, G, L, X, F, S, N :
          /\ D = doc /\ J = joined /\ B = base /\ G = global /\ L = local /\ X = text
          /\ F = inFlight /\ S = lastSent /\ N = siteSeq
  OBVIOUS
<1>17. PICK G2, L2, X2, F2, S2, N2 :
          /\ G2 = global' /\ L2 = local' /\ X2 = text' /\ F2 = inFlight' /\ S2 = lastSent'
          /\ N2 = siteSeq'
  OBVIOUS
<1>18. SystemOk(H, D, J, B, G, L, X, F, S, N) /\ J[c]
  BY <1>1, <1>15, <1>16
<1>19. ClientOk(H, c, s, g, l, x, B[c], f2, l2, n)
  BY <1>1, <1>13, <1>16
<1>20. /\ Put(G2, G, c, g) /\ Put(L2, L, c, l) /\ Put(X2, X, c, x)
       /\ Put(F2, F, c, f2) /\ Put(S2, S, c, l2) /\ Put(N2, N, c, n)
  BY <1>9, <1>10, <1>14, <1>16, <1>17
<1>21. SystemOk(H, D, J, B, G2, L2, X2, F2, S2, N2)
  BY <1>7, <1>18, <1>19, <1>20, ClientStep
<1>22. SystemOk(history', doc', joined', base', global', local', text', inFlight', lastSent',
                siteSeq')
  BY <1>1, <1>8, <1>16, <1>17, <1>21
<1> QED BY <1>22 DEF Inv

\* SendOps with no ops of the editor's.
LEMMA FetchOk ==
    ASSUME Inv, NEW c \in Clients, NEW k \in Arrived(c), Fetch(c, k)
    PROVE  Inv'
<1>1. joined[c] /\ Finish(c, Engine(c), k) /\ siteSeq' = siteSeq
  BY DEF Fetch
<1>2. PICK e, n : e = Engine(c) /\ n = siteSeq[c]
  OBVIOUS
<1>3. EngineOk(history, c, e, base[c], inFlight[c], lastSent[c], n) /\ e.seq = CurrentSeq(c)
  BY <1>1, <1>2, EngineIs
<1>4. k \in 0..(Len(history) - e.seq) /\ Finish(c, e, k)
  BY <1>1, <1>2, <1>3 DEF Arrived
<1>5. n \in Nat /\ OnClients(siteSeq)
  BY <1>2 DEF Inv, SystemOk
<1>6. Put(siteSeq', siteSeq, c, n)
  BY <1>1, <1>2, <1>5 DEF OnClients, Put
<1> QED BY <1>1, <1>3, <1>4, <1>5, <1>6, FinishOk

\* The second half of SendIns and SendDel, for the op of the editor.
LEMMA SendEditOk ==
    ASSUME Inv, NEW c \in Clients, joined[c], NEW g \in Nat, NEW k \in Arrived(c),
           NEW op \in O, op.site = c, Fits(op, text[c]),
           Finish(c, LocalEdit(Engine(c), op, siteSeq[c] + 1, g), k),
           siteSeq' = [siteSeq EXCEPT ![c] = @ + 1]
    PROVE  Inv'
<1>1. PICK H, e, b, fl, last, n : /\ H = history /\ e = Engine(c) /\ b = base[c]
                                  /\ fl = inFlight[c] /\ last = lastSent[c]
                                  /\ n = siteSeq[c]
  OBVIOUS
<1>2. /\ EngineOk(H, c, e, b, fl, last, n) /\ e.seq = CurrentSeq(c) /\ Fits(op, e.text)
  BY <1>1, EngineIs
<1>3. H \in Seq(FatOps) /\ Valid(InitDoc, Plain(H)) /\ n \in Nat
  BY <1>1, InvFacts
<1>4. PICK f, m : f = LocalEdit(e, op, n + 1, g) /\ m = n + 1
  OBVIOUS
<1>5. EngineOk(H, c, f, b, fl, last, m) /\ f.seq = e.seq
  <2>1. /\ EngineOk(H, c, LocalEdit(e, op, n + 1, g), b, fl, last, n + 1)
        /\ LocalEdit(e, op, n + 1, g).seq = e.seq
    BY <1>2, <1>3, LocalEditOk
  <2> QED BY <1>4, <2>1
<1>6. k \in 0..(Len(history) - f.seq) /\ Finish(c, f, k)
  BY <1>1, <1>2, <1>4, <1>5 DEF Arrived
<1>7. Put(siteSeq', siteSeq, c, m) /\ m \in Nat
  BY <1>1, <1>3, <1>4 DEF Put
<1>8. EngineOk(history, c, f, base[c], inFlight[c], lastSent[c], m)
  BY <1>1, <1>5
<1> QED BY <1>6, <1>7, <1>8, FinishOk

\* The text of a client is a sequence of cells.
LEMMA TextIs ==
    ASSUME Inv, NEW c \in Clients, joined[c]
    PROVE  text[c] \in Seq(Cells(Chars))
<1>1. PICK H, e, s, l, x : H = history /\ e = Engine(c) /\ s = e.seq /\ l = e.local /\ x = text[c]
  OBVIOUS
<1>2. EngineOk(H, c, e, base[c], inFlight[c], lastSent[c], siteSeq[c]) /\ e.text = x
  BY <1>1, EngineIs
<1>3. s \in 0..Len(H) /\ LocalOk(c, l, siteSeq[c]) /\ TextOk(Plain(H), s, l, x)
  BY <1>1, <1>2 DEF EngineOk
<1>4. l \in Seq(FatOps)
  BY <1>3 DEF LocalOk
<1>5. H \in Seq(FatOps) /\ Valid(InitDoc, Plain(H))
  BY <1>1, InvFacts
<1>6. PICK h : h = Plain(H)
  OBVIOUS
<1>7. h \in Seq(O) /\ s \in 0..Len(h) /\ Valid(InitDoc, h) /\ TextOk(h, s, l, x)
  BY <1>3, <1>5, <1>6, PlainIs
<1> QED BY <1>1, <1>4, <1>7, TextType

\* SendOps with an insertion.
LEMMA SendInsOk ==
    ASSUME Inv, NEW c \in Clients, NEW g \in 1..MaxGroup, NEW k \in Arrived(c), SendIns(c, g, k)
    PROVE  Inv'
<1>1. joined[c] /\ siteSeq' = [siteSeq EXCEPT ![c] = @ + 1]
  BY DEF SendIns, NewEditorOp
<1>2. PICK p \in 0..Len(LivePositions(text[c])), n \in 1..MaxIns :
       \E q \in InternalPos(text[c], p) :
         Finish(c, LocalEdit(Engine(c), Ins(q, NewChars(c, siteSeq[c] + 1, n), c),
                             siteSeq[c] + 1, g), k)
  BY DEF SendIns
<1>3. PICK q \in InternalPos(text[c], p) :
         Finish(c, LocalEdit(Engine(c), Ins(q, NewChars(c, siteSeq[c] + 1, n), c),
                             siteSeq[c] + 1, g), k)
  BY <1>2
<1>4. PICK d : d = text[c]
  OBVIOUS
<1>5. d \in Seq(Cells(Chars))
  BY <1>1, <1>4, TextIs
<1>6. q \in 0..Len(d)
  BY <1>4, <1>5, InternalPosType
<1>7. q \in Nat /\ q <= Len(d) /\ n \in Nat /\ n # 0 /\ g \in Nat
  BY <1>5, <1>6, ClientAssumption
<1>8. PICK s : s = siteSeq[c] + 1
  OBVIOUS
<1>9. s \in Nat
  BY <1>8, InvFacts
<1>10. PICK op : op = Ins(q, NewChars(c, s, n), c)
  OBVIOUS
<1>11. op \in O /\ op.site = c /\ Fits(op, d)
  BY <1>7, <1>9, <1>10, InsOpType
<1>12. Finish(c, LocalEdit(Engine(c), op, siteSeq[c] + 1, g), k)
  BY <1>3, <1>8, <1>10
<1> QED BY <1>1, <1>4, <1>7, <1>11, <1>12, SendEditOk

\* SendOps with a deletion.
LEMMA SendDelOk ==
    ASSUME Inv, NEW c \in Clients, NEW g \in 1..MaxGroup, NEW k \in Arrived(c), SendDel(c, g, k)
    PROVE  Inv'
<1>1. joined[c] /\ siteSeq' = [siteSeq EXCEPT ![c] = @ + 1]
  BY DEF SendDel, NewEditorOp
<1>2. PICK p \in 0..(Len(LivePositions(text[c])) - 1), n \in 1..MaxDel :
         /\ p + n <= Len(LivePositions(text[c]))
         /\ Finish(c, LocalEdit(Engine(c), DelOp(text[c], p, n, c), siteSeq[c] + 1, g), k)
  BY DEF SendDel
<1>3. PICK d : d = text[c]
  OBVIOUS
<1>4. d \in Seq(Cells(Chars))
  BY <1>1, <1>3, TextIs
<1>5. p \in Nat /\ n \in Nat /\ p + n <= Len(LivePositions(d)) /\ g \in Nat
  BY <1>2, <1>3, ClientAssumption
<1>6. PICK op : op = DelOp(d, p, n, c)
  OBVIOUS
<1>7. op \in O /\ op.site = c /\ Fits(op, d)
  BY <1>4, <1>5, <1>6, DelOpType
<1>8. Finish(c, LocalEdit(Engine(c), op, siteSeq[c] + 1, g), k)
  BY <1>2, <1>3, <1>6
<1> QED BY <1>1, <1>3, <1>5, <1>7, <1>8, SendEditOk

\* A client opens the document.
LEMMA JoinOk ==
    ASSUME Inv, NEW c \in Clients, Join(c)
    PROVE  Inv'
<1>1. PICK H, D, J, B, X, yes :
          H = history /\ D = doc /\ J = joined /\ B = base /\ X = text /\ yes = TRUE
  OBVIOUS
<1>2. PICK J2, B2, X2 : J2 = joined' /\ B2 = base' /\ X2 = text'
  OBVIOUS
<1>3. SystemOk(H, D, J, B, global, local, X, inFlight, lastSent, siteSeq) /\ ~J[c]
  BY <1>1 DEF Inv, Join
<1>4. /\ Put(J2, J, c, yes) /\ Put(B2, B, c, Len(H)) /\ Put(X2, X, c, D) /\ Yes(yes)
  BY <1>1, <1>2 DEF Join, Put, Yes
<1>5. PICK G, L, F, S, N :
          G = global /\ L = local /\ F = inFlight /\ S = lastSent /\ N = siteSeq
  OBVIOUS
<1>6. SystemOk(H, D, J, B, G, L, X, F, S, N)
  BY <1>3, <1>5
<1>7. SystemOk(H, D, J2, B2, G, L, X2, F, S, N)
  BY <1>3, <1>4, <1>6, JoinStep
<1>8. /\ history' = H /\ doc' = D /\ global' = G /\ local' = L /\ inFlight' = F
      /\ lastSent' = S /\ siteSeq' = N
  BY <1>1, <1>5 DEF Join
<1>9. SystemOk(history', doc', joined', base', global', local', text', inFlight', lastSent',
               siteSeq')
  BY <1>2, <1>7, <1>8
<1> QED BY <1>9 DEF Inv

\* What is in flight knows a part of the history.
LEMMA InFlightKnows ==
    ASSUME NEW H \in Seq(FatOps), NEW c, NEW e, NEW b, NEW fl, NEW last, NEW n,
           EngineOk(H, c, e, b, fl, last, n), fl # << >>
    PROVE  Head(fl).context \in 0..Len(H)
<1>1. PICK s, l : s = e.seq /\ l = e.local
  OBVIOUS
<1>2. s \in 0..Len(H) /\ PhaseOk(H, c, s, l, fl, last)
  BY <1>1 DEF EngineOk
<1>3. PICK m : Phase(H, c, s, l, m, fl)
  BY <1>2 DEF PhaseOk
<1>4. PICK x : fl = <<x>> /\ InFlightPhase(H, c, s, l, m, x)
  BY <1>3 DEF Phase
<1>5. x.context \in 0..s
  BY <1>4 DEF InFlightPhase
<1>6. Head(fl) = x
  BY <1>4
<1> QED BY <1>2, <1>5, <1>6

\* The owner handles a batch.
LEMMA HandleOk ==
    ASSUME Inv, NEW c \in Clients, HandleOpFromClient(c)
    PROVE  Inv'
<1>1. PICK H, D, J, B, G, L, X, F, S, N :
          /\ H = history /\ D = doc /\ J = joined /\ B = base /\ G = global /\ L = local
          /\ X = text /\ F = inFlight /\ S = lastSent /\ N = siteSeq
  OBVIOUS
<1>2. SystemOk(H, D, J, B, G, L, X, F, S, N)
  BY <1>1 DEF Inv
<1>3. PICK z : z = Head(F[c])
  OBVIOUS
<1>4. PICK q : q = ProcessOps(z)
  OBVIOUS
<1>5. /\ F[c] # << >> /\ Put(inFlight', F, c, Tail(F[c])) /\ history' = H \o Carry(z.ops, q)
      /\ doc' = ApplyOps(D, q)
      /\ joined' = J /\ base' = B /\ global' = G /\ local' = L /\ text' = X
      /\ lastSent' = S /\ siteSeq' = N
  BY <1>1, <1>3, <1>4 DEF HandleOpFromClient, Put
<1>6. joined[c]
  BY <1>1, <1>2, <1>5 DEF SystemOk
<1>7. PICK e, b, last, n, fl : /\ e = Engine(c) /\ b = base[c] /\ last = lastSent[c]
                               /\ n = siteSeq[c] /\ fl = F[c]
  OBVIOUS
<1>8. EngineOk(H, c, e, b, fl, last, n)
  BY <1>1, <1>6, <1>7, EngineIs
<1>9. H \in Seq(FatOps)
  BY <1>2 DEF SystemOk
<1>10. z.context \in 0..Len(H)
  <2>1. Head(fl).context \in 0..Len(H)
    BY <1>5, <1>7, <1>8, <1>9, InFlightKnows
  <2> QED BY <1>3, <1>7, <2>1
<1>11. PICK h, x : h = Len(H) /\ x = z.context
  OBVIOUS
<1>12. Plain(SubSeq(H, x + 1, h)) = SubSeq(Plain(H), x + 1, h)
  <2>1. h \in 0..Len(H) /\ x \in 0..h
    BY <1>9, <1>10, <1>11
  <2> QED BY <1>9, <2>1, PlainStretch
<1>13. q = QuatradicTransform(SubSeq(Plain(H), z.context + 1, Len(H)), Plain(z.ops))
  BY <1>1, <1>4, <1>11, <1>12 DEF ProcessOps
<1>14. PICK H2, D2, F2 : H2 = history' /\ D2 = doc' /\ F2 = inFlight'
  OBVIOUS
<1>15. /\ q = QuatradicTransform(SubSeq(Plain(H), Head(F[c]).context + 1, Len(H)),
                                 Plain(Head(F[c]).ops))
       /\ H2 = H \o Carry(Head(F[c]).ops, q) /\ D2 = ApplyOps(D, q)
       /\ Put(F2, F, c, Tail(F[c]))
  BY <1>3, <1>5, <1>13, <1>14
<1>16. SystemOk(H2, D2, J, B, G, L, X, F2, S, N)
  BY <1>2, <1>5, <1>15, OwnerStep
<1>17. SystemOk(history', doc', joined', base', global', local', text', inFlight', lastSent',
                siteSeq')
  BY <1>5, <1>14, <1>16
<1> QED BY <1>17 DEF Inv

LEMMA NextOk ==
    ASSUME EditsOnly, Inv, [Next]_vars
    PROVE  Inv'
<1>1. CASE UNCHANGED vars
  BY <1>1 DEF Inv, vars
<1>2. CASE Next
  <2>1. PICK c \in Clients :
          \/ Join(c)
          \/ HandleOpFromClient(c)
          \/ \E k \in Arrived(c) :
               \/ Fetch(c, k)
               \/ \E g \in 1..MaxGroup :
                    \/ SendIns(c, g, k)
                    \/ SendDel(c, g, k)
                    \/ \E redo \in BOOLEAN : SendUndo(c, g, k, redo)
    BY <1>2 DEF Next
  <2>2. CASE Join(c)
    BY <2>2, JoinOk
  <2>3. CASE HandleOpFromClient(c)
    BY <2>3, HandleOk
  <2>4. ASSUME NEW k \in Arrived(c), Fetch(c, k) PROVE Inv'
    BY <2>4, FetchOk
  <2>5. ASSUME NEW k \in Arrived(c), NEW g \in 1..MaxGroup, SendIns(c, g, k) PROVE Inv'
    BY <2>5, SendInsOk
  <2>6. ASSUME NEW k \in Arrived(c), NEW g \in 1..MaxGroup, SendDel(c, g, k) PROVE Inv'
    BY <2>6, SendDelOk
  <2>7. ASSUME NEW k \in Arrived(c), NEW g \in 1..MaxGroup, NEW redo \in BOOLEAN,
               SendUndo(c, g, k, redo)
        PROVE  FALSE
    <3>1. "Undo" \in Kinds[c] \/ "Redo" \in Kinds[c]
      BY <2>7 DEF SendUndo, NewEditorOp
    <3> QED BY <3>1 DEF EditsOnly
  <2> QED BY <2>1, <2>2, <2>3, <2>4, <2>5, <2>6, <2>7
<1> QED BY <1>1, <1>2

-----------------------------------------------------------------------------
(* What the invariant says                                                  *)

LEMMA OwnIsHead == Inv => AckIsLocalHead
<1> SUFFICES ASSUME Inv, NEW c \in Clients, joined[c], CurrentSeq(c) + 1 <= Len(history),
                    history[CurrentSeq(c) + 1].op.site = c
             PROVE  local[c] # << >> /\ Head(local[c]) = history[CurrentSeq(c) + 1]
  BY DEF AckIsLocalHead
<1>1. PICK H, e, s, l, fl, last : /\ H = history /\ e = Engine(c) /\ s = e.seq /\ l = e.local
                                  /\ fl = inFlight[c] /\ last = lastSent[c]
  OBVIOUS
<1>2. /\ EngineOk(H, c, e, base[c], fl, last, siteSeq[c]) /\ s = CurrentSeq(c) /\ l = local[c]
  BY <1>1, EngineIs
<1>3. s \in 0..Len(H) /\ LocalOk(c, l, siteSeq[c]) /\ PhaseOk(H, c, s, l, fl, last)
  BY <1>1, <1>2 DEF EngineOk
<1>4. H \in Seq(FatOps) /\ l \in Seq(FatOps)
  BY <1>1, <1>3, InvFacts DEF LocalOk
<1>5. PICK m \in 0..Len(l) : Phase(H, c, s, l, m, fl)
  BY <1>3 DEF PhaseOk
<1>6. s \in Nat /\ s < Len(H) /\ Own(H, c, s + 1)
  BY <1>1, <1>2, <1>3, <1>4 DEF Own
<1>7. l # << >> /\ l[1] = H[s + 1]
  BY <1>4, <1>5, <1>6, OwnIsFirst
<1> QED BY <1>1, <1>2, <1>7

LEMMA SyncedIsDoc == Inv => Converged
<1> SUFFICES ASSUME Inv, NEW c \in Clients, Synced(c) PROVE text[c] = doc
  BY DEF Converged
<1>1. PICK H, e, s, l, x : H = history /\ e = Engine(c) /\ s = e.seq /\ l = e.local /\ x = e.text
  OBVIOUS
<1>2. /\ EngineOk(H, c, e, base[c], inFlight[c], lastSent[c], siteSeq[c]) /\ x = text[c]
      /\ s = Len(H) /\ l = << >>
  BY <1>1, EngineIs DEF Synced
<1>3. TextOk(Plain(H), s, l, x)
  BY <1>1, <1>2 DEF EngineOk
<1>4. PICK h, p : h = Plain(H) /\ p = Plain(l)
  OBVIOUS
<1>5. H \in Seq(FatOps) /\ doc = ApplyOps(InitDoc, h)
  BY <1>1, <1>4, InvFacts DEF Inv, SystemOk
<1>6. h \in Seq(O) /\ Len(h) = s
  BY <1>2, <1>4, <1>5, PlainIs
<1>7. DocAt(h, s) = doc
  BY <1>5, <1>6, DocAtAll
<1>8. p = << >>
  BY <1>2, <1>4 DEF Plain
<1>9. x = ApplyOps(DocAt(h, s), p)
  BY <1>3, <1>4 DEF TextOk
<1> QED BY <1>2, <1>7, <1>8, <1>9, ApplyOpsEmpty

-----------------------------------------------------------------------------

\* process_remote_op pops the head of the local history when an op of its
\* own comes back, without looking at it: for every number of clients, every
\* document and every history of insertions and deletions, that head is the
\* op the owner has sequenced, transformed by the client past the ops of the
\* others exactly as process_ops has transformed it, whatever batch is in
\* flight and however many ops the client has made since.
THEOREM AcksAreHeads ==
    ASSUME EditsOnly
    PROVE  Spec => []AckIsLocalHead
<1>1. Init => Inv
  BY InitOk
<1>2. Inv /\ [Next]_vars => Inv'
  BY NextOk
<1>3. Inv => AckIsLocalHead
  BY OwnIsHead
<1> QED BY <1>1, <1>2, <1>3, PTL DEF Spec

\* Convergence of process_local_op, process_remote_op and process_ops: for
\* every number of clients, every document and every history of insertions
\* and deletions, a client that has processed all ops of the owner and has
\* none of its own pending shows the text of the owner, tombstones included.
THEOREM ClientsConverge ==
    ASSUME EditsOnly
    PROVE  Spec => []Converged
<1>1. Init => Inv
  BY InitOk
<1>2. Inv /\ [Next]_vars => Inv'
  BY NextOk
<1>3. Inv => Converged
  BY SyncedIsDoc
<1> QED BY <1>1, <1>2, <1>3, PTL DEF Spec
=============================================================================
