---------------------------- MODULE DocLifeProofs ----------------------------
(***************************************************************************)
(* Proofs about DocLife, for any directories, names, texts and documents   *)
(* and any number of changes: type correctness and the safety properties.  *)
(***************************************************************************)
EXTENDS DocLife, FiniteSetTheorems, TLAPS

Event == [path : Paths, by : 0 .. opened, old : SUBSET Open]
Notification == [path : Paths, by : 0 .. opened, data : BOOLEAN]

DiskType == disk \in [Paths -> Inodes \cup {NoFile}] /\ content \in [Inodes -> Texts]
DocsType ==
    /\ doc \in [Docs -> DocType \cup {NoDoc}]
    /\ \A d \in Open : /\ doc[d].name = Buffer => doc[d].file = NoFile
                       /\ doc[d].name = Buffer <=> doc[d].canon = Buffer
WireType ==
    /\ watched \subseteq Paths /\ raw \subseteq Notification
    /\ towatch = <<>> \/ Head(towatch) \subseteq Paths
    /\ events \subseteq Event
SetType ==
    /\ Open \subseteq 1 .. opened
    /\ window \subseteq Open /\ missed \subseteq Open /\ moved \subseteq Open /\ torn \subseteq Open
CountType == opened \in 0 .. MaxDocs /\ steps \in 0 .. MaxSteps
TypeInv == DiskType /\ DocsType /\ WireType /\ SetType /\ CountType

-----------------------------------------------------------------------------
(* The operators of the actions *)

\* A document that is open has the type of one, and no other has a name.
LEMMA OpenType ==
    ASSUME DocsType
    PROVE  /\ \A d \in Open : d \in Docs /\ doc[d] \in DocType
           /\ \A d \in Docs : doc[d] \in DocType => d \in Open
           /\ \A d \in Docs : d \notin Open => doc[d] = NoDoc
  <1>1. NoName \notin Paths \cup {Buffer}
    BY NamesAssumption
  <1>2. \A d \in Docs : doc[d] \in DocType \/ doc[d] = NoDoc
    BY DEF DocsType
  <1>3. \A r \in DocType : r.name # NoName
    BY <1>1 DEF DocType
  <1>4. NoDoc.name = NoName
    BY DEF NoDoc
  <1> QED BY <1>2, <1>3, <1>4 DEF Open

LEMMA FieldTypes ==
    ASSUME NEW r \in DocType
    PROVE  /\ r.name \in Paths \cup {Buffer} /\ r.canon \in Paths \cup {Buffer}
           /\ r.file \in Inodes \cup {NoFile} /\ r.text \in Texts /\ r.base \in Texts
           /\ r.fits \in BOOLEAN
  BY DEF DocType

LEMMA InodeFacts == NoFile \notin Inodes /\ Empty \in Texts /\ Buffer \notin Paths
  BY NamesAssumption, BoundsAssumption DEF NoFile, Inodes, Empty, Texts

\* What apply_op does to a document: it has the text, or the old one where it fails.
LEMMA AppliedDoc ==
    ASSUME NEW r \in DocType, NEW text \in Texts, NEW s \in Applied(r, text)
    PROVE  /\ s \in DocType
           /\ s.name = r.name /\ s.canon = r.canon /\ s.file = r.file /\ s.base = r.base
           /\ s.fits = r.fits
  <1>1. PICK t \in {r.text, text} : s = [r EXCEPT !.text = t]
    BY DEF Applied
  <1>2. t \in Texts
    BY FieldTypes
  <1> QED BY <1>1, <1>2 DEF DocType

\* A file that is created is no one's: under no path, and in no document.
LEMMA NewInodeIsFree ==
    ASSUME DiskType, FreeInode # {}
    PROVE  /\ NewInode \in Inodes
           /\ \A p \in Paths : disk[p] # NewInode
           /\ \A d \in Open : doc[d].file # NewInode
  <1>1. NewInode \in FreeInode
    BY DEF NewInode
  <1>2. \A p \in Paths : disk[p] \in Range(disk)
    BY DEF DiskType, Range
  <1> QED BY <1>1, <1>2 DEF FreeInode

\* One document changes, and keeps its names.
LEMMA OneDoc ==
    ASSUME DocsType, NEW d \in Open, NEW r \in DocType, doc' = [doc EXCEPT ![d] = r],
           r.name = doc[d].name, r.canon = doc[d].canon, r.name = Buffer => r.file = NoFile
    PROVE  /\ DocsType' /\ Open' = Open /\ doc'[d] = r
           /\ \A x \in Docs : x # d => doc'[x] = doc[x]
  <1>1. d \in Docs /\ doc'[d] = r /\ \A x \in Docs : x # d => doc'[x] = doc[x]
    BY OpenType DEF DocsType
  <1>2. Open' = Open
    BY <1>1 DEF Open
  <1>3. doc' \in [Docs -> DocType \cup {NoDoc}]
    BY <1>1 DEF DocsType
  <1>4. ASSUME NEW x \in Open
        PROVE  /\ doc'[x].name = Buffer => doc'[x].file = NoFile
               /\ doc'[x].name = Buffer <=> doc'[x].canon = Buffer
    BY <1>1, <1>4, OpenType DEF DocsType
  <1> QED BY <1>1, <1>2, <1>3, <1>4 DEF DocsType

\* The messages after a document was opened or saved: their paths are the same,
\* and the ones for its path are old news to it.
LEMMA SavedMessages ==
    ASSUME WireType, NEW d, NEW p
    PROVE  /\ SavedSince(d, p) \subseteq [path : Paths, by : 0 .. opened, old : SUBSET (Open \cup {d})]
           /\ \A e \in events : \E x \in SavedSince(d, p) : x.path = e.path
           /\ \A x \in SavedSince(d, p) : \E e \in events :
                /\ x.path = e.path /\ x.by = e.by /\ e.old \subseteq x.old
                /\ e.path = p => d \in x.old
  <1>1. ASSUME NEW e \in events
        PROVE  LET x == [e EXCEPT !.old = IF e.path = p THEN @ \cup {d} ELSE @]
               IN  /\ x \in [path : Paths, by : 0 .. opened, old : SUBSET (Open \cup {d})]
                   /\ x.path = e.path /\ x.by = e.by /\ e.old \subseteq x.old
                   /\ e.path = p => d \in x.old
    <2>1. e \in Event
      BY DEF WireType
    <2>2. CASE e.path = p
      BY <2>1, <2>2 DEF Event
    <2>3. CASE e.path # p
      BY <2>1, <2>3 DEF Event
    <2> QED BY <2>2, <2>3
  <1> QED BY <1>1 DEF SavedSince

\* Notifications that are no longer the echo of a document in ds,
LEMMA NoEchoNotices ==
    ASSUME NEW ds, NEW ns \in SUBSET Notification, NoEcho \notin ds, opened \in Nat
    PROVE  /\ NoEchoOf(ds, ns) \subseteq Notification
           /\ \A n \in ns : \E x \in NoEchoOf(ds, ns) : x.path = n.path
           /\ \A x \in NoEchoOf(ds, ns) :
                x.by \notin ds /\ (x.by = NoEcho \/ \E n \in ns : n.by = x.by)
  <1>1. ASSUME NEW n \in ns
        PROVE  LET x == [n EXCEPT !.by = IF @ \in ds THEN NoEcho ELSE @]
               IN  /\ x \in Notification /\ x.path = n.path
                   /\ x.by \notin ds /\ (x.by = NoEcho \/ n.by = x.by)
    <2>1. n \in [path : Paths, by : 0 .. opened, data : BOOLEAN] /\ NoEcho \in 0 .. opened
      BY DEF Notification, NoEcho
    <2>2. CASE n.by \in ds
      BY <2>1, <2>2 DEF Notification
    <2>3. CASE n.by \notin ds
      BY <2>1, <2>3 DEF Notification
    <2> QED BY <2>2, <2>3
  <1> QED BY <1>1 DEF NoEchoOf

\* and the messages after the documents in ds were closed.
ClosedEvents(ds) == {[e EXCEPT !.old = @ \ ds] : e \in NoEchoOf(ds, events)}

LEMMA ClosedMessages ==
    ASSUME WireType, NEW ds, NoEcho \notin ds, opened \in Nat,
           NEW after, after = ClosedEvents(ds)
    PROVE  /\ after \subseteq [path : Paths, by : 0 .. opened, old : SUBSET (Open \ ds)]
           /\ \A e \in events : \E x \in after : x.path = e.path
           /\ \A x \in after : \E e \in events :
                /\ x.path = e.path /\ x.by \in {e.by, NoEcho} /\ x.old = e.old \ ds
  <1>1. ASSUME NEW e \in events
        PROVE  LET y == [e EXCEPT !.by = IF @ \in ds THEN NoEcho ELSE @]
                   x == [y EXCEPT !.old = @ \ ds]
               IN  /\ x \in [path : Paths, by : 0 .. opened, old : SUBSET (Open \ ds)]
                   /\ x.path = e.path /\ x.by \in {e.by, NoEcho} /\ x.old = e.old \ ds
    <2>1. e \in Event /\ NoEcho \in 0 .. opened
      BY DEF WireType, NoEcho
    <2>2. CASE e.by \in ds
      BY <2>1, <2>2 DEF Event
    <2>3. CASE e.by \notin ds
      BY <2>1, <2>3 DEF Event
    <2> QED BY <2>2, <2>3
  <1>2. PICK mid : mid = NoEchoOf(ds, events)
    OBVIOUS
  <1>3. after = {[e EXCEPT !.old = @ \ ds] : e \in mid}
    BY <1>2 DEF ClosedEvents
  <1>4. mid = {[e EXCEPT !.by = IF @ \in ds THEN NoEcho ELSE @] : e \in events}
    BY <1>2 DEF NoEchoOf
  <1>5. \A y \in mid : \E e \in events : y = [e EXCEPT !.by = IF @ \in ds THEN NoEcho ELSE @]
    BY <1>4
  <1>6. ASSUME NEW x \in after
        PROVE  /\ x \in [path : Paths, by : 0 .. opened, old : SUBSET (Open \ ds)]
               /\ \E e \in events :
                    /\ x.path = e.path /\ x.by \in {e.by, NoEcho} /\ x.old = e.old \ ds
    <2>1. PICK y \in mid : x = [y EXCEPT !.old = @ \ ds]
      BY <1>3
    <2>2. PICK e \in events : y = [e EXCEPT !.by = IF @ \in ds THEN NoEcho ELSE @]
      BY <1>5
    <2> QED BY <1>1, <2>1, <2>2
  <1>7. ASSUME NEW e \in events PROVE \E x \in after : x.path = e.path
    <2>1. PICK y : y = [e EXCEPT !.by = IF @ \in ds THEN NoEcho ELSE @]
      OBVIOUS
    <2>2. y \in mid
      BY <1>4, <2>1
    <2>3. [y EXCEPT !.old = @ \ ds] \in after
      BY <1>3, <2>2
    <2> QED BY <1>1, <2>1, <2>3
  <1> QED BY <1>6, <1>7

\* A document is opened.
LEMMA NewDocStep ==
    ASSUME TypeInv, NEW p \in Paths \cup {Buffer}, NEW i \in Inodes \cup {NoFile},
           p = Buffer => i = NoFile, NEW text \in Texts, NEW base \in Texts,
           NewDoc(p, i, text, base)
    PROVE  /\ opened + 1 \in Docs /\ opened + 1 \notin Open /\ opened' = opened + 1
           /\ Open' = Open \cup {opened + 1}
           /\ doc'[opened + 1] \in DocType
           /\ doc'[opened + 1].name = p /\ doc'[opened + 1].canon = p
           /\ doc'[opened + 1].file = i /\ doc'[opened + 1].text = text
           /\ doc'[opened + 1].base = base
           /\ \A d \in Docs : d # opened + 1 => doc'[d] = doc[d]
           /\ DocsType'
           /\ events' = SavedSince(opened + 1, p)
  <1> DEFINE r == [name |-> p, canon |-> p, file |-> i, text |-> text, base |-> base,
                   fits |-> text \notin Wide]
  <1>1. PICK n : n = opened + 1
    OBVIOUS
  <1>2. /\ n \in Docs /\ opened' = n /\ doc' = [doc EXCEPT ![n] = r]
        /\ events' = SavedSince(n, p)
    BY <1>1 DEF NewDoc
  <1>3. r \in DocType /\ r.name = p /\ r.canon = p /\ r.file = i /\ r.text = text
        /\ r.base = base
    BY DEF DocType
  <1> HIDE DEF r
  <1>4. n \notin Open
    BY <1>1 DEF TypeInv, SetType, CountType
  <1>5. doc'[n] = r /\ \A d \in Docs : d # n => doc'[d] = doc[d]
    BY <1>2 DEF TypeInv, DocsType
  <1>6. r.name # NoName
    BY <1>3, NamesAssumption
  <1>7. Open' = Open \cup {n}
    BY <1>2, <1>5, <1>6 DEF Open
  <1>8. doc' \in [Docs -> DocType \cup {NoDoc}]
    BY <1>2, <1>3 DEF TypeInv, DocsType
  <1>9. ASSUME NEW x \in Open \cup {n}
        PROVE  /\ doc'[x].name = Buffer => doc'[x].file = NoFile
               /\ doc'[x].name = Buffer <=> doc'[x].canon = Buffer
    <2>1. CASE x = n
      BY <1>3, <1>5, <2>1
    <2>2. CASE x # n
      BY <1>5, <2>2, OpenType DEF TypeInv, DocsType
    <2> QED BY <2>1, <2>2
  <1>10. DocsType'
    BY <1>7, <1>8, <1>9 DEF DocsType
  <1> QED BY <1>1, <1>2, <1>3, <1>4, <1>5, <1>7, <1>10

\* A reset takes the document to what is under the path: its base is the text
\* there, and its file the one there, unless the document is counted as missed.
LEMMA ResetStep ==
    ASSUME TypeInv, NEW p \in Paths, NEW d \in Canon(p), Reset(d, p)
    PROVE  /\ DocsType' /\ Open' = Open /\ missed' \subseteq Open
           /\ \A x \in Docs : x # d => doc'[x] = doc[x]
           /\ doc'[d].name = doc[d].name /\ doc'[d].canon = doc[d].canon
           /\ doc'[d].fits = doc[d].fits
           /\ \A x \in missed : x # d => x \in missed'
           /\ ~OnDisk(p) => doc' = doc /\ missed' = missed
           /\ OnDisk(p) => /\ doc'[d].base = TextAt(p)
                           /\ doc'[d].file \in {doc[d].file, disk[p]}
                           /\ doc'[d].file # disk[p] => d \in missed'
                           /\ \A x \in Canon(p) : x # d /\ OutOfSync(x, p) => x \in missed'
  <1>1. /\ d \in Open /\ d \in Docs /\ doc[d] \in DocType /\ doc[d].canon = p
        /\ doc[d].name # Buffer /\ DocsType
    <2>1. d \in Open /\ doc[d].canon = p
      BY DEF Canon
    <2> QED BY <2>1, OpenType, InodeFacts DEF TypeInv, DocsType
  <1>2. CASE ~OnDisk(p)
    <2>1. doc' = doc /\ missed' = missed
      BY <1>2 DEF Reset
    <2>2. Open' = Open /\ DocsType'
      BY <1>1, <2>1 DEF Open, DocsType
    <2> QED BY <1>2, <2>1, <2>2 DEF TypeInv, SetType
  <1>3. CASE OnDisk(p)
    <2> DEFINE same == TextAt(p) = doc[d].text
    <2>1. /\ missed' = {x \in missed : x # d} \cup {x \in Canon(p) \ {d} : OutOfSync(x, p)}
                       \cup {x \in {d} : same /\ disk[p] # doc[d].file}
          /\ IF same THEN doc' = [doc EXCEPT ![d].base = TextAt(p)]
             ELSE doc' \in {[doc EXCEPT ![d] = Swapped(r, p)] : r \in Applied(doc[d], TextAt(p))}
      BY <1>3 DEF Reset
    <2>2. disk[p] \in Inodes /\ TextAt(p) \in Texts
      BY <1>3 DEF TypeInv, DiskType, OnDisk, TextAt
    <2>3. PICK r : /\ r \in DocType /\ doc' = [doc EXCEPT ![d] = r]
                   /\ r.name = doc[d].name /\ r.canon = doc[d].canon /\ r.fits = doc[d].fits
                   /\ r.base = TextAt(p)
                   /\ r.file = disk[p] \/ (r.file = doc[d].file /\ same)
      <3>1. CASE same
        <4>1. doc' = [doc EXCEPT ![d] = [doc[d] EXCEPT !.base = TextAt(p)]]
          BY <2>1, <3>1
        <4>2. [doc[d] EXCEPT !.base = TextAt(p)] \in DocType
          BY <1>1, <2>2 DEF DocType
        <4>3. LET r == [doc[d] EXCEPT !.base = TextAt(p)]
              IN  /\ r.name = doc[d].name /\ r.canon = doc[d].canon /\ r.fits = doc[d].fits
                  /\ r.base = TextAt(p) /\ r.file = doc[d].file
          BY <1>1 DEF DocType
        <4> QED BY <3>1, <4>1, <4>2, <4>3
      <3>2. CASE ~same
        <4>1. PICK s \in Applied(doc[d], TextAt(p)) : doc' = [doc EXCEPT ![d] = Swapped(s, p)]
          BY <2>1, <3>2
        <4>2. /\ s \in DocType
              /\ s.name = doc[d].name /\ s.canon = doc[d].canon /\ s.fits = doc[d].fits
          BY <1>1, <2>2, AppliedDoc
        <4>3. Swapped(s, p) \in DocType
          BY <2>2, <4>2 DEF Swapped, DocType
        <4>4. LET r == Swapped(s, p)
              IN  /\ r.name = s.name /\ r.canon = s.canon /\ r.fits = s.fits
                  /\ r.base = TextAt(p) /\ r.file = disk[p]
          BY <4>2 DEF Swapped, DocType
        <4> QED BY <4>1, <4>2, <4>3, <4>4
      <3> QED BY <3>1, <3>2
    <2>4. r.name # Buffer
      BY <1>1, <2>3
    <2>5. DocsType' /\ Open' = Open /\ doc'[d] = r /\ \A x \in Docs : x # d => doc'[x] = doc[x]
      BY <1>1, <2>3, <2>4, OneDoc
    <2>6. missed' \subseteq Open
      BY <1>1, <2>1 DEF TypeInv, SetType, Canon
    <2>7. r.file # disk[p] => d \in missed'
      BY <2>1, <2>3
    <2>8. /\ \A x \in missed : x # d => x \in missed'
          /\ \A x \in Canon(p) : x # d /\ OutOfSync(x, p) => x \in missed'
      BY <2>1
    <2> QED BY <1>3, <2>3, <2>5, <2>6, <2>7, <2>8
  <1> QED BY <1>2, <1>3

\* A move takes paths to paths, no two to one; where the targets are free
\* no path is both.
LEMMA MoveFacts ==
    ASSUME NEW m \in AllMoves
    PROVE  /\ DOMAIN m \subseteq Paths /\ \A p \in DOMAIN m : m[p] \in Paths /\ m[p] \in Range(m)
           /\ Range(m) \subseteq Paths /\ \A q \in Range(m) : \E p \in DOMAIN m : m[p] = q
           /\ \A p, q \in DOMAIN m : m[p] = m[q] => p = q
           /\ (\E p \in DOMAIN m : OnDisk(p)) /\ (\A q \in Range(m) : ~OnDisk(q))
                => \A p \in DOMAIN m : p \notin Range(m)
  <1>1. \A p \in DOMAIN m : m[p] \in Range(m)
    BY DEF Range
  <1>2. \A q \in Range(m) : \E p \in DOMAIN m : m[p] = q
    BY DEF Range
  <1>3. CASE \E p, q \in Paths : m = FileMove(p, q)
    <2>1. PICK p \in Paths, q \in Paths : m = FileMove(p, q)
      BY <1>3
    <2>2. DOMAIN m = {p} /\ m[p] = q
      BY <2>1 DEF FileMove
    <2> QED BY <1>1, <1>2, <2>2
  <1>4. CASE \E a, b \in Dirs : m = DirMove(a, b)
    <2>1. PICK a \in Dirs, b \in Dirs : m = DirMove(a, b)
      BY <1>4
    <2>2. DOMAIN m = {a} \X Names /\ \A x \in DOMAIN m : m[x] = <<b, x[2]>>
      BY <2>1 DEF DirMove
    <2>3. \A x \in DOMAIN m : x = <<a, x[2]>> /\ x[2] \in Names
      BY <2>2
    <2>4. DOMAIN m \subseteq Paths /\ \A x \in DOMAIN m : m[x] \in Paths
      BY <2>2, <2>3 DEF Paths
    <2>5. \A x, y \in DOMAIN m : m[x] = m[y] => x = y
      <3> SUFFICES ASSUME NEW x \in DOMAIN m, NEW y \in DOMAIN m, m[x] = m[y] PROVE x = y
        OBVIOUS
      <3>1. x[2] = y[2]
        BY <2>2
      <3> QED BY <2>3, <3>1
    <2>6. ASSUME \E p \in DOMAIN m : OnDisk(p), \A q \in Range(m) : ~OnDisk(q),
                 NEW p \in DOMAIN m, p \in Range(m)
          PROVE  FALSE
      <3>1. PICK x \in DOMAIN m : OnDisk(x)
        BY <2>6
      <3>2. PICK y \in DOMAIN m : m[y] = p
        BY <1>2, <2>6
      <3>3. a = b
        BY <2>2, <2>3, <3>2, <2>6
      <3>4. m[x] = x
        BY <2>2, <2>3, <3>3
      <3> QED BY <1>1, <2>6, <3>1, <3>4
    <2> QED BY <1>1, <1>2, <2>4, <2>5, <2>6
  <1> QED BY <1>3, <1>4 DEF AllMoves

-----------------------------------------------------------------------------
(* Type correctness, a lemma for each group of actions *)

LEMMA StepsType ==
    ASSUME CountType, NEW a, NEW b, AnotherStep \/ UNCHANGED steps \/ Edited(a, b)
    PROVE  steps' \in 0 .. MaxSteps
  BY BoundsAssumption DEF CountType, AnotherStep, Edited

LEMMA ResendType ==
    ASSUME NEW docs, Resend(docs)
    PROVE  Head(towatch') \subseteq Paths
  <1>1. PICK s : s = {p \in Paths : \E d \in Docs : docs[d].name = p}
    OBVIOUS
  <1>2. towatch' = <<s>>
    BY <1>1 DEF Resend
  <1>3. Head(<<s>>) = s
    OBVIOUS
  <1> QED BY <1>1, <1>2, <1>3

\* The opening and sharing of documents,
LEMMA NewDocTypes ==
    ASSUME TypeInv, NEW p \in Paths \cup {Buffer}, NEW i \in Inodes \cup {NoFile},
           p = Buffer => i = NoFile, NEW text \in Texts, NEW base \in Texts,
           NewDoc(p, i, text, base), Rewatch, DiskType', steps' \in 0 .. MaxSteps,
           UNCHANGED <<watched, raw, window, missed, moved, torn>>
    PROVE  TypeInv'
  <1> DEFINE n == opened + 1
  <1>2. /\ n \in Docs /\ n \notin Open /\ opened' = n /\ Open' = Open \cup {n} /\ DocsType'
        /\ events' = SavedSince(n, p)
    BY NewDocStep
  <1>3. opened \in Nat /\ 0 .. opened \subseteq 0 .. n /\ 1 .. opened \subseteq 1 .. n
        /\ n \in 1 .. n /\ n \in 0 .. MaxDocs
    BY <1>2 DEF TypeInv, CountType, Docs
  <1> HIDE DEF n
  <1>4. events' \subseteq Event'
    <2>1. events' \subseteq [path : Paths, by : 0 .. opened, old : SUBSET (Open \cup {n})]
      BY <1>2, SavedMessages DEF TypeInv
    <2>2. [path : Paths, by : 0 .. opened, old : SUBSET (Open \cup {n})]
            \subseteq [path : Paths, by : 0 .. n, old : SUBSET (Open \cup {n})]
      BY <1>3
    <2> QED BY <1>2, <2>1, <2>2 DEF Event
  <1>5. raw' \subseteq Notification'
    <2>1. Notification \subseteq [path : Paths, by : 0 .. n, data : BOOLEAN]
      BY <1>3 DEF Notification
    <2> QED BY <1>2, <2>1 DEF TypeInv, WireType, Notification
  <1>6. WireType'
    BY <1>2, <1>4, <1>5, ResendType DEF TypeInv, WireType, Rewatch
  <1>7. SetType'
    BY <1>2, <1>3 DEF TypeInv, SetType
  <1> QED BY <1>2, <1>3, <1>6, <1>7 DEF TypeInv, CountType

LEMMA OpenTypes ==
    ASSUME TypeInv, NEW p \in Paths, NEW t \in Texts,
           OpenFile(p) \/ CreateFile(p) \/ ShareFile(p, t)
    PROVE  TypeInv'
  <1>1. steps' \in 0 .. MaxSteps
    BY StepsType DEF TypeInv, OpenFile, CreateFile, ShareFile
  <1>2. Rewatch /\ UNCHANGED <<watched, raw, window, missed, moved, torn>>
    BY DEF OpenFile, CreateFile, ShareFile
  <1>3. p # Buffer /\ NoFile \notin Inodes /\ Empty \in Texts
    BY InodeFacts
  <1>4. OnDisk(p) => disk[p] \in Inodes /\ TextAt(p) \in Texts
    BY DEF TypeInv, DiskType, OnDisk, TextAt
  <1>5. CASE OpenFile(p)
    <2>1. DiskType' /\ NewDoc(p, disk[p], TextAt(p), TextAt(p)) /\ OnDisk(p)
      BY <1>5 DEF OpenFile, TypeInv, DiskType, files
    <2> QED BY <1>1, <1>2, <1>3, <1>4, <2>1, NewDocTypes
  <1>6. CASE CreateFile(p)
    <2>1. NewInode \in Inodes
      BY <1>6, NewInodeIsFree DEF TypeInv, CreateFile
    <2>2. DiskType'
      BY <1>3, <1>6, <2>1 DEF CreateFile, TypeInv, DiskType
    <2>3. NewDoc(p, NewInode, Empty, Empty)
      BY <1>6 DEF CreateFile
    <2> QED BY <1>1, <1>2, <1>3, <2>1, <2>2, <2>3, NewDocTypes
  <1>7. CASE ShareFile(p, t)
    <2>1. DiskType' /\ OnDisk(p)
      BY <1>7 DEF ShareFile, TypeInv, DiskType, files
    <2>2. PICK i \in {disk[p], NoFile} : NewDoc(p, i, t, TextAt(p))
      BY <1>7 DEF ShareFile
    <2> QED BY <1>1, <1>2, <1>3, <1>4, <2>1, <2>2, NewDocTypes
  <1> QED BY <1>5, <1>6, <1>7

LEMMA ShareBufferTypes ==
    ASSUME TypeInv, NEW t \in Texts, ShareBuffer(t)
    PROVE  TypeInv'
  <1>1. steps' \in 0 .. MaxSteps
    BY StepsType DEF ShareBuffer, TypeInv
  <1>2. /\ DiskType' /\ NewDoc(Buffer, NoFile, t, t)
        /\ Rewatch /\ UNCHANGED <<watched, raw, window, missed, moved, torn>>
    BY DEF ShareBuffer, TypeInv, DiskType, files
  <1> QED BY <1>1, <1>2, NewDocTypes

\* the steps that change one document,
LEMMA EditTypes ==
    ASSUME TypeInv, NEW d \in Docs, NEW t \in Texts, Edit(d, t)
    PROVE  /\ TypeInv' /\ Open' = Open /\ d \in Open
           /\ \A x \in Docs : x # d => doc'[x] = doc[x]
           /\ doc'[d] \in DocType
           /\ doc'[d].name = doc[d].name /\ doc'[d].canon = doc[d].canon
           /\ doc'[d].file = doc[d].file /\ doc'[d].base = doc[d].base
           /\ doc'[d].fits = doc[d].fits
  <1>1. d \in Open /\ doc[d] \in DocType /\ DocsType
    BY OpenType DEF TypeInv, Edit
  <1>2. PICK r \in Applied(doc[d], t) : doc' = [doc EXCEPT ![d] = r]
    BY DEF Edit
  <1>3. /\ r \in DocType
        /\ r.name = doc[d].name /\ r.canon = doc[d].canon /\ r.file = doc[d].file
        /\ r.base = doc[d].base /\ r.fits = doc[d].fits
    BY <1>1, AppliedDoc
  <1>4. r.name = Buffer => r.file = NoFile
    BY <1>1, <1>3 DEF DocsType
  <1>5. DocsType' /\ Open' = Open /\ doc'[d] = r /\ \A x \in Docs : x # d => doc'[x] = doc[x]
    BY <1>1, <1>2, <1>3, <1>4, OneDoc
  <1>6. steps' \in 0 .. MaxSteps
    BY StepsType DEF TypeInv, Edit
  <1>7. UNCHANGED <<disk, content, watched, towatch, raw, events, window, missed, moved, torn, opened>>
    BY DEF Edit, files, watcher
  <1>8. TypeInv'
    BY <1>5, <1>6, <1>7 DEF TypeInv, DiskType, WireType, SetType, CountType, Event, Notification
  <1> QED BY <1>1, <1>3, <1>5, <1>8

LEMMA SaveTypes ==
    ASSUME TypeInv, NEW d \in Docs, SaveFile(d)
    PROVE  /\ TypeInv' /\ Open' = Open /\ d \in Open
           /\ \A x \in Docs : x # d => doc'[x] = doc[x]
           /\ doc'[d] = [doc[d] EXCEPT !.base = doc[d].text]
           /\ doc[d] \in DocType /\ doc[d].file \in Inodes
  <1>1. d \in Open /\ doc[d] \in DocType /\ DocsType /\ doc[d].file \in Inodes
    BY OpenType, FieldTypes DEF TypeInv, SaveFile
  <1> DEFINE r == [doc[d] EXCEPT !.base = doc[d].text]
  <1>2. r \in DocType /\ r.name = doc[d].name /\ r.canon = doc[d].canon /\ r.file = doc[d].file
    BY <1>1 DEF DocType
  <1>3. doc' = [doc EXCEPT ![d] = r]
    BY DEF SaveFile
  <1> HIDE DEF r
  <1>4. r.name = Buffer => r.file = NoFile
    BY <1>1, <1>2 DEF DocsType
  <1>5. DocsType' /\ Open' = Open /\ doc'[d] = r /\ \A x \in Docs : x # d => doc'[x] = doc[x]
    BY <1>1, <1>2, <1>3, <1>4, OneDoc
  <1>6. DiskType'
    <2>1. doc[d].text \in Texts
      BY <1>1, FieldTypes
    <2> QED BY <1>1, <2>1 DEF SaveFile, TypeInv, DiskType
  <1>7. WireType'
    <2>1. raw' = raw \cup Echoes(d) /\ UNCHANGED <<watched, towatch, opened>>
      BY DEF SaveFile, Notify
    <2>2. d \in 0 .. opened /\ d \in Docs
      BY <1>1 DEF TypeInv, SetType, CountType
    <2>3. raw' \subseteq Notification
      BY <2>1, <2>2 DEF Echoes, Under, Notification, TypeInv, WireType
    <2>4. events' = SavedSince(d, doc[d].canon)
      BY DEF SaveFile, JustSaved
    <2>5. events' \subseteq [path : Paths, by : 0 .. opened, old : SUBSET (Open \cup {d})]
      BY <2>4, SavedMessages DEF TypeInv
    <2>6. Open \cup {d} = Open
      BY <1>1
    <2> QED BY <1>5, <2>1, <2>3, <2>5, <2>6 DEF TypeInv, WireType, Event, Notification
  <1>8. SetType' /\ CountType'
    <2>1. UNCHANGED <<opened, steps, moved, torn>> /\ window' = window \cup {d}
          /\ missed' \subseteq missed
      BY DEF SaveFile, JustSaved
    <2> QED BY <1>1, <1>5, <2>1 DEF TypeInv, SetType, CountType
  <1>9. TypeInv'
    BY <1>5, <1>6, <1>7, <1>8 DEF TypeInv
  <1> QED BY <1>1, <1>5, <1>9 DEF r

\* the resets,
LEMMA ResetTypes ==
    ASSUME TypeInv, NEW d \in Docs, ResetFromDisk(d)
    PROVE  TypeInv'
  <1>1. doc[d].canon \in Paths
    BY OpenType, FieldTypes DEF TypeInv, ResetFromDisk
  <1>2. PICK e \in Canon(doc[d].canon) : Reset(e, doc[d].canon)
    BY DEF ResetFromDisk
  <1>3. DocsType' /\ Open' = Open /\ missed' \subseteq Open
    BY <1>1, <1>2, ResetStep
  <1>4. UNCHANGED <<disk, content, watched, towatch, raw, events, window, moved, torn, opened, steps>>
    BY DEF ResetFromDisk, files, watcher
  <1> QED BY <1>3, <1>4 DEF TypeInv, DiskType, WireType, SetType, CountType, Event, Notification

LEMMA ChangedTypes ==
    ASSUME TypeInv, NEW e \in events, HandleFileChanged(e)
    PROVE  TypeInv'
  <1>1. e.path \in Paths
    BY DEF TypeInv, WireType, Event
  <1>2. DocsType' /\ Open' = Open /\ missed' \subseteq Open
    <2>1. CASE Ignore(e.path)
      BY <2>1 DEF Ignore, TypeInv, DocsType, SetType, Open, Canon
    <2>2. CASE \E d \in Canon(e.path) : Reset(d, e.path)
      BY <1>1, <2>2, ResetStep
    <2> QED BY <2>1, <2>2 DEF HandleFileChanged
  <1>3. /\ UNCHANGED <<disk, content, watched, towatch, raw, window, moved, torn, opened, steps>>
        /\ events' \subseteq events
    BY DEF HandleFileChanged, files
  <1> QED BY <1>2, <1>3 DEF TypeInv, DiskType, WireType, SetType, CountType, Event, Notification

\* other programs and the watcher,
LEMMA ExternalTypes ==
    ASSUME TypeInv, NEW p \in Paths, NEW t \in Texts,
           ExternalWrite(p, t) \/ ExternalReplace(p, t) \/ ExternalDelete(p)
    PROVE  TypeInv'
  <1>1. UNCHANGED <<doc, watched, towatch, events, window, missed, moved, torn, opened>>
    BY DEF ExternalWrite, ExternalReplace, ExternalDelete, watcher
  <1>2. Open' = Open
    BY <1>1 DEF Open
  <1>3. steps' \in 0 .. MaxSteps
    BY StepsType DEF TypeInv, ExternalWrite, ExternalReplace, ExternalDelete
  <1>4. raw' \subseteq Notification
    <2>1. \A data \in BOOLEAN : Notice(p, data) \in Notification
      BY DEF Notice, NoEcho, Notification, TypeInv, CountType
    <2>2. \E data \in BOOLEAN : raw' \subseteq raw \cup {Notice(p, data)}
      BY DEF ExternalWrite, ExternalReplace, ExternalDelete, watcher, Notify
    <2> QED BY <2>1, <2>2 DEF TypeInv, WireType
  <1>5. DiskType'
    <2>1. CASE ExternalWrite(p, t)
      BY <2>1 DEF ExternalWrite, TypeInv, DiskType
    <2>2. CASE ExternalReplace(p, t)
      BY <2>2, NewInodeIsFree DEF ExternalReplace, TypeInv, DiskType
    <2>3. CASE ExternalDelete(p)
      BY <2>3 DEF ExternalDelete, TypeInv, DiskType
    <2> QED BY <2>1, <2>2, <2>3
  <1> QED BY <1>1, <1>2, <1>3, <1>4, <1>5
          DEF TypeInv, DocsType, WireType, SetType, CountType, Event, Notification

LEMMA WatcherTypes ==
    ASSUME TypeInv,
           \/ \E d \in Docs : WindowEnds(d)
           \/ \E p \in Paths : ShowFile(p)
           \/ ApplyWatchFiles
           \/ \E n \in raw : HandleNotifyEvent(n)
    PROVE  TypeInv' /\ UNCHANGED <<disk, content, doc, moved, torn, opened>> /\ Open' = Open
  <1>1. UNCHANGED <<disk, content, doc, moved, torn, opened, steps>>
    BY DEF WindowEnds, ShowFile, ApplyWatchFiles, HandleNotifyEvent, files, watcher
  <1>2. Open' = Open
    BY <1>1 DEF Open
  <1>3. DiskType' /\ DocsType' /\ CountType'
    BY <1>1, <1>2 DEF TypeInv, DiskType, DocsType, CountType
  <1>4. CASE \E d \in Docs : WindowEnds(d)
    <2>1. PICK d \in Docs : WindowEnds(d)
      BY <1>4
    <2>2. /\ raw' = NoEchoOf({d}, raw) /\ UNCHANGED <<watched, towatch, events, missed>>
          /\ window' \subseteq window
      BY <2>1 DEF WindowEnds
    <2>3. raw' \subseteq Notification
      BY <2>2, NoEchoNotices DEF TypeInv, WireType, CountType, NoEcho, Docs
    <2> QED BY <1>1, <1>2, <1>3, <2>2, <2>3 DEF TypeInv, WireType, SetType, Event, Notification
  <1>5. CASE \E p \in Paths : ShowFile(p)
    <2>1. Head(towatch') \subseteq Paths
      BY <1>5, ResendType DEF ShowFile
    <2>2. UNCHANGED <<watched, raw, events, window, missed>>
      BY <1>5 DEF ShowFile
    <2> QED BY <1>1, <1>2, <1>3, <2>1, <2>2 DEF TypeInv, WireType, SetType, Event, Notification
  <1>6. CASE ApplyWatchFiles
    <2>1. UNCHANGED <<raw, events, window, missed>> /\ towatch' = <<>> /\ watched' \subseteq Paths
      BY <1>6 DEF ApplyWatchFiles, TypeInv, WireType
    <2> QED BY <1>1, <1>2, <1>3, <2>1 DEF TypeInv, WireType, SetType, Event, Notification
  <1>7. CASE \E n \in raw : HandleNotifyEvent(n)
    <2>1. PICK n \in raw : HandleNotifyEvent(n)
      BY <1>7
    <2>2. n.path \in Paths /\ n.by \in 0 .. opened
      BY DEF TypeInv, WireType, Notification
    <2>3. UNCHANGED <<watched, towatch, window>> /\ raw' \subseteq raw
      BY <2>1 DEF HandleNotifyEvent
    <2>4. events' \subseteq Event /\ missed' \subseteq Open
      <3>1. [path |-> n.path, by |-> n.by, old |-> window \cap Canon(n.path)] \in Event
        BY <2>2 DEF Event, TypeInv, SetType
      <3> QED BY <2>1, <3>1 DEF HandleNotifyEvent, TypeInv, WireType, SetType, Canon
    <2> QED BY <1>1, <1>2, <1>3, <2>3, <2>4 DEF TypeInv, WireType, SetType, Event, Notification
  <1> QED BY <1>1, <1>2, <1>4, <1>5, <1>6, <1>7

\* and the moves and the closing of documents.
LEMMA MoveTypes ==
    ASSUME TypeInv, NEW m \in AllMoves, MoveFile(m)
    PROVE  /\ TypeInv' /\ Open' = Open
           /\ \A d \in Open : /\ doc'[d].canon = doc[d].canon /\ doc'[d].file = doc[d].file
                              /\ doc'[d].text = doc[d].text /\ doc'[d].base = doc[d].base
                              /\ doc'[d].fits = doc[d].fits
                              /\ doc[d].name \notin DOMAIN m => doc'[d].name = doc[d].name
                              /\ doc[d].name \in DOMAIN m /\ d \notin torn'
                                   => doc'[d].name = m[doc[d].name]
  <1> DEFINE affected == {d \in Open : doc[d].name \in DOMAIN m}
  <1>1. PICK renamed \in SUBSET affected :
          /\ doc' = [d \in Docs |-> IF d \in renamed THEN Renamed(doc[d], m) ELSE doc[d]]
          /\ moved' = moved \cup affected
          /\ torn' = torn \cup (affected \ renamed) \cup Stray(m)
    BY DEF MoveFile
  <1>2. /\ DOMAIN m \subseteq Paths /\ \A p \in DOMAIN m : m[p] \in Paths
        /\ Range(m) \subseteq Paths /\ \A q \in Range(m) : \E p \in DOMAIN m : m[p] = q
    BY MoveFacts
  <1>3. ASSUME NEW d \in renamed
        PROVE  /\ d \in Open /\ doc'[d] \in DocType /\ doc'[d].name = m[doc[d].name]
               /\ doc'[d].canon = doc[d].canon /\ doc'[d].file = doc[d].file
               /\ doc'[d].text = doc[d].text /\ doc'[d].base = doc[d].base
               /\ doc'[d].fits = doc[d].fits
               /\ doc[d].name \in DOMAIN m /\ doc'[d].name \in Paths
    <2>1. d \in Open /\ d \in Docs /\ doc[d] \in DocType /\ doc[d].name \in DOMAIN m
      BY OpenType DEF TypeInv
    <2>2. m[doc[d].name] \in Paths
      BY <1>2, <2>1
    <2>3. doc'[d] = [doc[d] EXCEPT !.name = m[doc[d].name]]
      BY <1>1, <2>1 DEF Renamed
    <2> QED BY <2>1, <2>2, <2>3 DEF DocType
  <1>4. \A d \in Docs : d \notin renamed => doc'[d] = doc[d]
    BY <1>1
  <1>5. Open' = Open
    <2>1. \A d \in Docs : doc'[d].name # NoName <=> doc[d].name # NoName
      BY <1>3, <1>4, NamesAssumption DEF Open
    <2> QED BY <2>1 DEF Open
  <1>6. DocsType'
    <2>1. doc' \in [Docs -> DocType \cup {NoDoc}]
      BY <1>1, <1>3, <1>4 DEF TypeInv, DocsType
    <2>2. ASSUME NEW d \in Open
          PROVE  /\ doc'[d].name = Buffer => doc'[d].file = NoFile
                 /\ doc'[d].name = Buffer <=> doc'[d].canon = Buffer
      <3>1. CASE d \in renamed
        BY <1>2, <1>3, <3>1, InodeFacts DEF TypeInv, DocsType
      <3>2. CASE d \notin renamed
        BY <1>4, <3>2, OpenType DEF TypeInv, DocsType
      <3> QED BY <3>1, <3>2
    <2> QED BY <1>5, <2>1, <2>2 DEF DocsType
  <1>7. DiskType'
    <2>1. content' = content
      BY DEF MoveFile
    <2>2. ASSUME NEW x \in Paths PROVE disk'[x] \in Inodes \cup {NoFile}
      <3>1. CASE x \in Range(m)
        <4>1. PICK q \in DOMAIN m : m[q] = x
          BY <1>2, <3>1
        <4>2. (CHOOSE p \in DOMAIN m : m[p] = x) \in DOMAIN m
          BY <4>1
        <4> QED BY <1>2, <3>1, <4>2 DEF MoveFile, TypeInv, DiskType
      <3>2. CASE x \notin Range(m)
        BY <3>2 DEF MoveFile, TypeInv, DiskType
      <3> QED BY <3>1, <3>2
    <2>3. disk' = [x \in Paths |-> disk'[x]]
      BY DEF MoveFile
    <2> QED BY <2>1, <2>2, <2>3 DEF TypeInv, DiskType
  <1>8. WireType' /\ SetType' /\ CountType'
    <2>1. UNCHANGED <<watched, towatch, raw, events, window, opened>>
      BY DEF MoveFile, watcher
    <2>2. missed' \subseteq Open /\ moved' \subseteq Open /\ torn' \subseteq Open
      BY <1>1 DEF MoveFile, TypeInv, SetType, Stray
    <2>3. steps' \in 0 .. MaxSteps
      BY StepsType DEF MoveFile, TypeInv
    <2> QED BY <1>5, <2>1, <2>2, <2>3 DEF TypeInv, WireType, SetType, CountType, Event, Notification
  <1>9. TypeInv'
    BY <1>6, <1>7, <1>8 DEF TypeInv
  <1>10. ASSUME NEW d \in Open
         PROVE  /\ doc'[d].canon = doc[d].canon /\ doc'[d].file = doc[d].file
                /\ doc'[d].text = doc[d].text /\ doc'[d].base = doc[d].base
                /\ doc'[d].fits = doc[d].fits
                /\ doc[d].name \notin DOMAIN m => doc'[d].name = doc[d].name
                /\ doc[d].name \in DOMAIN m /\ d \notin torn' => doc'[d].name = m[doc[d].name]
    BY <1>1, <1>3, <1>4, OpenType DEF TypeInv
  <1> QED BY <1>5, <1>9, <1>10

Closed(names) == {d \in Open : doc[d].name \in names}

LEMMA CloseTypes ==
    ASSUME TypeInv, NEW names, NEW delete \in BOOLEAN, CloseFiles(names, delete)
    PROVE  /\ TypeInv' /\ Open' = Open \ Closed(names)
           /\ \A d \in Docs : d \notin Closed(names) => doc'[d] = doc[d]
           /\ \A i \in Inodes : content'[i] # content[i] => \E d \in Closed(names) : doc[d].file = i
           /\ \A p \in Paths : disk'[p] # NoFile => disk'[p] = disk[p]
           /\ missed' = missed \ Closed(names) /\ moved' = moved \ Closed(names)
           /\ torn' = torn \ Closed(names) /\ window' = window \ Closed(names)
           /\ \A n \in raw \cup UNION {Echoes(d) : d \in Closed(names)} : \E x \in raw' : x.path = n.path
           /\ \A x \in raw' : x.by \in Open' => \E n \in raw : n.by = x.by
           /\ \A e \in events : \E x \in events' : x.path = e.path
           /\ \A x \in events' : x.by \in Open' => \E e \in events :
                x.path = e.path /\ x.by = e.by /\ x.old = e.old \ Closed(names)
           /\ UNCHANGED <<watched, opened, steps>>
  <1> DEFINE closed == Closed(names)
             SavesTo(i, saves) == {d \in saves : doc[d].file = i}
  <1>1. /\ doc' = [d \in Docs |-> IF d \in closed THEN NoDoc ELSE doc[d]]
        /\ disk' = [p \in Paths |-> IF delete /\ p \in names THEN NoFile ELSE disk[p]]
        /\ events' = ClosedEvents(closed)
        /\ window' = window \ closed
        /\ missed' = missed \ closed /\ moved' = moved \ closed /\ torn' = torn \ closed
        /\ Rewatch /\ UNCHANGED <<watched, opened, steps>>
        /\ raw' = NoEchoOf(closed, raw \cup UNION {Echoes(d) : d \in closed})
    BY DEF CloseFiles, Closed, ClosedEvents
  <1>2. PICK saves \in SUBSET closed :
               content' = [i \in Inodes |->
                  IF SavesTo(i, saves) = {} THEN content[i]
                  ELSE doc[CHOOSE d \in SavesTo(i, saves) : TRUE].text]
    BY DEF CloseFiles, Closed
  <1>3. closed \subseteq Open /\ closed \subseteq Docs
    BY OpenType DEF Closed, TypeInv
  <1> HIDE DEF closed
  <1>4. ASSUME NEW i \in Inodes
        PROVE  /\ content'[i] \in Texts
               /\ content'[i] # content[i] => \E d \in closed : doc[d].file = i
    <2>1. CASE SavesTo(i, saves) = {}
      BY <1>2, <2>1 DEF TypeInv, DiskType
    <2>2. CASE SavesTo(i, saves) # {}
      <3>1. PICK c : c = CHOOSE d \in SavesTo(i, saves) : TRUE
        OBVIOUS
      <3>2. c \in SavesTo(i, saves)
        BY <2>2, <3>1
      <3>3. c \in closed /\ doc[c].file = i /\ doc[c].text \in Texts
        BY <1>3, <3>2, OpenType, FieldTypes DEF TypeInv
      <3>4. content'[i] = doc[c].text
        BY <1>2, <2>2, <3>1
      <3> QED BY <3>3, <3>4
    <2> QED BY <2>1, <2>2
  <1>5. \A d \in Docs : doc'[d] = IF d \in closed THEN NoDoc ELSE doc[d]
    BY <1>1
  <1>6. Open' = Open \ closed
    BY <1>5 DEF Open, NoDoc
  <1>7. DocsType'
    <2>1. doc' \in [Docs -> DocType \cup {NoDoc}]
      BY <1>1 DEF TypeInv, DocsType
    <2> QED BY <1>3, <1>5, <1>6, <2>1, OpenType DEF TypeInv, DocsType
  <1>8. DiskType' /\ \A p \in Paths : disk'[p] # NoFile => disk'[p] = disk[p]
    <2>1. content' \in [Inodes -> Texts]
      BY <1>2, <1>4
    <2> QED BY <1>1, <2>1 DEF TypeInv, DiskType
  <1>9. /\ NoEcho \notin closed /\ opened \in Nat /\ WireType
        /\ raw \cup UNION {Echoes(d) : d \in closed} \in SUBSET Notification
    <2>1. opened \in Nat /\ \A d \in closed : d \in 0 .. opened
      BY <1>3 DEF TypeInv, SetType, CountType
    <2>2. NoEcho \notin closed
      BY <1>3 DEF NoEcho, Docs
    <2>3. \A d \in closed : Echoes(d) \subseteq Notification
      BY <2>1 DEF Echoes, Under, Notification
    <2> QED BY <2>1, <2>2, <2>3 DEF TypeInv, WireType
  <1>10. /\ raw' \subseteq Notification
         /\ \A n \in raw \cup UNION {Echoes(d) : d \in closed} : \E x \in raw' : x.path = n.path
         /\ \A x \in raw' : x.by \in Open' => \E n \in raw : n.by = x.by
    <2>1. PICK ns : ns = raw \cup UNION {Echoes(d) : d \in closed}
      OBVIOUS
    <2>2. raw' = NoEchoOf(closed, ns) /\ ns \in SUBSET Notification
      BY <1>1, <1>9, <2>1
    <2>3. /\ raw' \subseteq Notification
          /\ \A n \in ns : \E x \in raw' : x.path = n.path
          /\ \A x \in raw' : x.by \notin closed /\ (x.by = NoEcho \/ \E n \in ns : n.by = x.by)
      BY <1>9, <2>2, NoEchoNotices
    <2>4. NoEcho \notin Open'
      BY <1>6 DEF NoEcho, Open, Docs
    <2>5. \A d \in closed : \A n \in Echoes(d) : n.by \in closed
      BY DEF Echoes
    <2>6. \A x \in raw' : x.by \in Open' => \E n \in raw : n.by = x.by
      BY <2>1, <2>3, <2>4, <2>5
    <2> QED BY <2>1, <2>3, <2>6
  <1>11. /\ events' \subseteq [path : Paths, by : 0 .. opened, old : SUBSET (Open \ closed)]
         /\ \A e \in events : \E x \in events' : x.path = e.path
         /\ \A x \in events' : x.by \in Open' => \E e \in events :
              x.path = e.path /\ x.by = e.by /\ x.old = e.old \ closed
    <2>1. /\ events' \subseteq [path : Paths, by : 0 .. opened, old : SUBSET (Open \ closed)]
          /\ \A e \in events : \E x \in events' : x.path = e.path
          /\ \A x \in events' : \E e \in events :
               x.path = e.path /\ x.by \in {e.by, NoEcho} /\ x.old = e.old \ closed
      <3>1. PICK after : after = events'
        OBVIOUS
      <3>2. after = ClosedEvents(closed)
        BY <1>1, <3>1
      <3>3. /\ after \subseteq [path : Paths, by : 0 .. opened, old : SUBSET (Open \ closed)]
            /\ \A e \in events : \E x \in after : x.path = e.path
            /\ \A x \in after : \E e \in events :
                 x.path = e.path /\ x.by \in {e.by, NoEcho} /\ x.old = e.old \ closed
        BY <1>9, <3>2, ClosedMessages
      <3> QED BY <3>1, <3>3
    <2>2. NoEcho \notin Open'
      BY <1>6 DEF NoEcho, Open, Docs
    <2> QED BY <2>1, <2>2
  <1>12. WireType'
    <2>1. Head(towatch') \subseteq Paths
      BY <1>1, ResendType DEF Rewatch
    <2> QED BY <1>1, <1>6, <1>10, <1>11, <2>1 DEF TypeInv, WireType, Event, Notification
  <1>13. SetType' /\ CountType'
    BY <1>1, <1>6 DEF TypeInv, SetType, CountType
  <1>14. TypeInv'
    BY <1>7, <1>8, <1>12, <1>13 DEF TypeInv
  <1> QED BY <1>1, <1>4, <1>5, <1>6, <1>8, <1>10, <1>11, <1>14 DEF closed

LEMMA InitTypes ==
    ASSUME Init
    PROVE  TypeInv /\ Open = {} /\ missed = {} /\ moved = {} /\ torn = {} /\ raw = {} /\ events = {}
  <1> USE DEF Init
  <1>1. Open = {}
    <2>1. \A d \in Docs : doc[d] = NoDoc
      OBVIOUS
    <2> QED BY <2>1 DEF Open, NoDoc
  <1>2. DocsType
    BY <1>1 DEF DocsType
  <1>3. Cardinality(InitFiles) \in Nat
    BY FS_CardinalityType, BoundsAssumption
  <1>4. DiskType
    <2>1. PICK f \in [InitFiles -> 1 .. Cardinality(InitFiles)] :
                 disk = [p \in Paths |-> IF p \in InitFiles THEN f[p] ELSE NoFile]
      OBVIOUS
    <2>2. 1 .. Cardinality(InitFiles) \subseteq Inodes
      BY <1>3, BoundsAssumption DEF Inodes
    <2>3. disk \in [Paths -> Inodes \cup {NoFile}]
      BY <2>1, <2>2
    <2>4. \A i \in Inodes : i <= Cardinality(InitFiles) => i \in Texts
      BY <1>3, BoundsAssumption DEF Inodes, Texts
    <2>5. content \in [Inodes -> Texts]
      BY <2>4, InodeFacts
    <2> QED BY <2>3, <2>5 DEF DiskType
  <1>5. WireType /\ SetType /\ CountType
    BY <1>1, BoundsAssumption DEF WireType, SetType, CountType
  <1> QED BY <1>1, <1>2, <1>4, <1>5 DEF TypeInv

LEMMA StepTypes ==
    ASSUME TypeInv, [Next]_vars
    PROVE  TypeInv'
  <1>1. CASE UNCHANGED vars
    BY <1>1 DEF vars, TypeInv, DiskType, DocsType, WireType, SetType, CountType, Event, Notification, Open
  <1>2. CASE Next
    <2>1. ASSUME NEW p \in Paths, ExternalDelete(p) PROVE TypeInv'
      BY <2>1, InodeFacts, ExternalTypes
    <2>2. ASSUME NEW p \in Paths, OpenFile(p) \/ CreateFile(p) PROVE TypeInv'
      BY <2>2, InodeFacts, OpenTypes
    <2>3. ASSUME NEW p \in Paths, NEW t \in Texts,
                 ShareFile(p, t) \/ ExternalWrite(p, t) \/ ExternalReplace(p, t)
          PROVE  TypeInv'
      BY <2>3, OpenTypes, ExternalTypes
    <2> QED BY <1>2, <2>1, <2>2, <2>3, ShareBufferTypes, EditTypes, SaveTypes, ResetTypes,
               ChangedTypes, WatcherTypes, MoveTypes, CloseTypes DEF Next
  <1> QED BY <1>1, <1>2

LEMMA TypeInvariant == Spec => []TypeInv
  <1>1. Init => TypeInv
    BY InitTypes
  <1> QED BY <1>1, StepTypes, PTL DEF Spec

-----------------------------------------------------------------------------
(***************************************************************************)
(* Files and names.  A document that was not moved is the only one of its  *)
(* name, which is its canonical path, and what it writes to is under no    *)
(* other path; so a document that is opened, or reset, takes a handle no   *)
(* other one holds.  A document that was moved, and not torn from its      *)
(* name, writes under its name or its canonical path.                      *)
(***************************************************************************)
DiskInv == \A p, q \in Paths : OnDisk(p) /\ disk[p] = disk[q] => p = q
NameInv == \A d \in Open : d \notin moved => doc[d].canon = doc[d].name
NamesApart == \A d, e \in Open \ moved : doc[d].name = doc[e].name => d = e
PlaceInv ==
    \A d \in Open, p \in Paths :
      d \notin moved /\ OnDisk(p) /\ disk[p] = doc[d].file => p = doc[d].name
WriteInv ==
    \A d \in Open, p \in Paths :
      d \notin torn /\ OnDisk(p) /\ disk[p] = doc[d].file => p \in {doc[d].name, doc[d].canon}
FileInv ==
    /\ DiskInv /\ NameInv /\ NamesApart /\ PlaceInv /\ WriteInv /\ HandlesApart
    /\ torn \subseteq moved

\* No path but p gets a file, and p one that was no one's.
Fresh(p) ==
    /\ \A q \in Paths : q # p => disk'[q] \in {disk[q], NoFile}
    /\ p \in Paths => \/ disk'[p] \in {disk[p], NoFile}
                      \/ /\ \A q \in Paths : disk[q] # disk'[p]
                         /\ \A d \in Open : doc[d].file # disk'[p]

\* The steps that keep every document's name and file.
LEMMA KeptFiles ==
    ASSUME FileInv, NEW p, Fresh(p), Open' \subseteq Open, moved' = moved \cap Open',
           torn' = torn \cap Open', moved \subseteq Open,
           \A d \in Open' : /\ doc'[d].name = doc[d].name /\ doc'[d].canon = doc[d].canon
                            /\ doc'[d].file = doc[d].file
    PROVE  FileInv'
  <1>1. DiskInv'
    BY DEF FileInv, DiskInv, Fresh, OnDisk
  <1>2. NameInv' /\ NamesApart' /\ HandlesApart'
    BY DEF FileInv, NameInv, NamesApart, HandlesApart
  <1>3. \A d \in Open', q \in Paths : disk'[q] = doc'[d].file /\ disk'[q] # NoFile
                                        => disk[q] = doc[d].file
    BY DEF Fresh
  <1>4. PlaceInv' /\ WriteInv'
    BY <1>3 DEF FileInv, PlaceInv, WriteInv, OnDisk
  <1> QED BY <1>1, <1>2, <1>4 DEF FileInv

\* A document is opened by a name no other has.
LEMMA NewFiles ==
    ASSUME TypeInv, FileInv, NEW p \in Paths \cup {Buffer}, NEW i \in Inodes \cup {NoFile},
           p = Buffer => i = NoFile, NEW text \in Texts, NEW base \in Texts,
           NewDoc(p, i, text, base), Named(p) = {}, i = NoFile \/ disk'[p] = i, Fresh(p),
           UNCHANGED <<moved, torn>>
    PROVE  FileInv'
  <1> DEFINE n == opened + 1
  <1>1. /\ n \in Docs /\ n \notin Open /\ Open' = Open \cup {n}
        /\ doc'[n].name = p /\ doc'[n].canon = p /\ doc'[n].file = i
        /\ \A d \in Open : doc'[d] = doc[d]
    <2>1. \A d \in Open : d \in Docs /\ d # n
      BY NewDocStep, OpenType DEF TypeInv
    <2> QED BY <2>1, NewDocStep
  <1> HIDE DEF n
  <1>2. n \notin moved /\ n \notin torn
    BY <1>1 DEF TypeInv, SetType
  <1>3. \A d \in Open : doc[d].name # p
    BY DEF Named
  <1>4. DiskInv'
    BY DEF FileInv, DiskInv, Fresh, OnDisk
  <1>5. NameInv' /\ NamesApart'
    BY <1>1, <1>2, <1>3 DEF FileInv, NameInv, NamesApart
  <1>6. \A d \in Open, q \in Paths : disk'[q] = doc[d].file /\ disk'[q] # NoFile
                                       => disk[q] = doc[d].file
    BY DEF Fresh
  <1>7. \A q \in Paths : disk'[q] = i /\ disk'[q] # NoFile => q = p
    BY <1>4 DEF DiskInv, OnDisk
  <1>8. PlaceInv' /\ WriteInv'
    BY <1>1, <1>2, <1>6, <1>7 DEF FileInv, PlaceInv, WriteInv, OnDisk
  <1>9. ASSUME NEW d \in Open, d \notin moved, i # NoFile PROVE doc[d].file # i
    <2>1. p \in Paths /\ disk'[p] = i
      BY <1>9
    <2>2. CASE disk'[p] \in {disk[p], NoFile}
      <3>1. disk[p] = i /\ OnDisk(p)
        BY <1>9, <2>1, <2>2 DEF OnDisk
      <3> QED BY <1>3, <1>9, <2>1, <3>1 DEF FileInv, PlaceInv
    <2>3. CASE disk'[p] \notin {disk[p], NoFile}
      BY <2>1, <2>3 DEF Fresh
    <2> QED BY <2>2, <2>3
  <1>10. HandlesApart'
    <2> SUFFICES ASSUME NEW d \in (Open \cup {n}) \ moved, NEW e \in (Open \cup {n}) \ moved,
                        d # e, doc'[d].file # NoFile
                 PROVE  doc'[d].file # doc'[e].file
      BY <1>1 DEF HandlesApart
    <2>1. CASE d = n
      BY <1>1, <1>9, <2>1
    <2>2. CASE e = n
      BY <1>1, <1>9, <2>2
    <2>3. CASE d # n /\ e # n
      BY <1>1, <2>3 DEF FileInv, HandlesApart
    <2> QED BY <2>1, <2>2, <2>3
  <1> QED BY <1>4, <1>5, <1>8, <1>10 DEF FileInv

LEMMA ResetFiles ==
    ASSUME TypeInv, FileInv, NEW p \in Paths, NEW d \in Canon(p), Reset(d, p),
           UNCHANGED <<disk, moved, torn>>
    PROVE  FileInv'
  <1>1. /\ Open' = Open /\ doc'[d].name = doc[d].name /\ doc'[d].canon = doc[d].canon
        /\ doc'[d].file \in {doc[d].file, disk[p]} /\ (doc'[d].file # doc[d].file => OnDisk(p))
        /\ d \in Open /\ doc[d].canon = p
        /\ \A x \in Open : x # d => doc'[x] = doc[x]
    <2>1. d \in Open /\ doc[d].canon = p /\ \A x \in Open : x \in Docs
      BY OpenType DEF Canon, TypeInv
    <2> QED BY <2>1, ResetStep
  <1>2. \A x \in Open : doc'[x].name = doc[x].name /\ doc'[x].canon = doc[x].canon
    BY <1>1
  <1>3. DiskInv' /\ NameInv' /\ NamesApart'
    BY <1>1, <1>2 DEF FileInv, DiskInv, NameInv, NamesApart, OnDisk
  <1>4. CASE doc'[d].file = doc[d].file
    <2>1. \A x \in Open : doc'[x].file = doc[x].file
      BY <1>1, <1>4
    <2> QED BY <1>1, <1>2, <1>3, <2>1
            DEF FileInv, PlaceInv, WriteInv, HandlesApart, OnDisk
  <1>5. CASE doc'[d].file = disk[p] /\ OnDisk(p)
    <2>1. \A q \in Paths : disk[q] = disk[p] => q = p
      BY <1>5 DEF FileInv, DiskInv
    <2>2. d \notin moved => doc[d].name = p
      BY <1>1 DEF FileInv, NameInv
    <2>3. PlaceInv' /\ WriteInv'
      BY <1>1, <1>2, <1>5, <2>1, <2>2 DEF FileInv, PlaceInv, WriteInv, OnDisk
    <2>4. ASSUME NEW x \in Open, x \notin moved, x # d, d \notin moved
          PROVE  doc[x].file # disk[p]
      BY <1>1, <1>5, <2>2, <2>4 DEF FileInv, NamesApart, PlaceInv
    <2>5. HandlesApart'
      BY <1>1, <1>5, <2>4 DEF FileInv, HandlesApart
    <2> QED BY <1>3, <2>3, <2>5 DEF FileInv
  <1> QED BY <1>1, <1>4, <1>5

LEMMA MoveFiles ==
    ASSUME TypeInv, FileInv, NEW m \in AllMoves, MoveFile(m)
    PROVE  FileInv'
  <1>1. /\ DOMAIN m \subseteq Paths /\ \A p \in DOMAIN m : m[p] \in Paths
        /\ \A q \in Range(m) : \E p \in DOMAIN m : m[p] = q
        /\ \A p \in DOMAIN m : p \notin Range(m)
        /\ \A p, q \in DOMAIN m : m[p] = m[q] => p = q
    BY MoveFacts DEF MoveFile
  <1>2. /\ Open' = Open
        /\ \A d \in Open : /\ doc'[d].canon = doc[d].canon /\ doc'[d].file = doc[d].file
                           /\ doc[d].name \notin DOMAIN m => doc'[d].name = doc[d].name
                           /\ doc[d].name \in DOMAIN m /\ d \notin torn'
                                => doc'[d].name = m[doc[d].name]
    BY MoveTypes
  <1>3. /\ \A d \in Open : d \in moved' <=> d \in moved \/ doc[d].name \in DOMAIN m
        /\ moved' \subseteq moved \cup Open
        /\ \A d \in torn' : d \in torn \/ doc[d].name \in DOMAIN m \/ d \in Stray(m)
        /\ torn' \subseteq torn \cup Open
        /\ torn \cup Stray(m) \subseteq torn'
    BY DEF MoveFile, Stray
  <1>4. \A d \in Open, p \in DOMAIN m : OnDisk(p) /\ disk[p] = doc[d].file /\ p # doc[d].name
                                          => d \in Stray(m)
    BY <1>1 DEF Stray, Under, OnDisk
  <1>5. ASSUME NEW x \in Paths, disk'[x] # NoFile
        PROVE  \E o \in Paths : /\ OnDisk(o) /\ disk[o] = disk'[x]
                                /\ \/ o \in DOMAIN m /\ m[o] = x
                                   \/ o = x /\ o \notin DOMAIN m
    <2>1. CASE x \in Range(m)
      <3>1. PICK o : o = CHOOSE p \in DOMAIN m : m[p] = x
        OBVIOUS
      <3>2. o \in DOMAIN m /\ m[o] = x
        BY <1>1, <2>1, <3>1
      <3>3. disk'[x] = disk[o]
        BY <2>1, <3>1 DEF MoveFile
      <3> QED BY <1>1, <1>5, <3>2, <3>3 DEF OnDisk
    <2>2. CASE x \notin Range(m)
      <3>1. x \notin DOMAIN m /\ disk'[x] = disk[x]
        BY <1>5, <2>2 DEF MoveFile
      <3> QED BY <1>5, <3>1 DEF OnDisk
    <2> QED BY <2>1, <2>2
  <1>6. DiskInv'
    <2> SUFFICES ASSUME NEW x \in Paths, NEW y \in Paths, disk'[x] # NoFile, disk'[x] = disk'[y]
                 PROVE  x = y
      BY DEF DiskInv, OnDisk
    <2> QED BY <1>5 DEF FileInv, DiskInv
  <1>7. NameInv' /\ NamesApart' /\ HandlesApart'
    BY <1>2, <1>3 DEF FileInv, NameInv, NamesApart, HandlesApart
  <1>8. PlaceInv'
    <2> SUFFICES ASSUME NEW d \in Open, NEW x \in Paths, d \notin moved', disk'[x] # NoFile,
                        disk'[x] = doc[d].file
                 PROVE  x = doc'[d].name
      BY <1>2 DEF PlaceInv, OnDisk
    <2>1. d \notin moved /\ doc[d].name \notin DOMAIN m /\ doc'[d].name = doc[d].name
      BY <1>2, <1>3
    <2> QED BY <1>5, <2>1 DEF FileInv, PlaceInv
  <1>9. WriteInv'
    <2> SUFFICES ASSUME NEW d \in Open, NEW x \in Paths, d \notin torn', disk'[x] # NoFile,
                        disk'[x] = doc[d].file
                 PROVE  x \in {doc'[d].name, doc'[d].canon}
      BY <1>2 DEF WriteInv, OnDisk
    <2>1. PICK o \in Paths : /\ OnDisk(o) /\ disk[o] = doc[d].file
                             /\ \/ o \in DOMAIN m /\ m[o] = x
                                \/ o = x /\ o \notin DOMAIN m
      BY <1>5
    <2>2. d \notin torn /\ d \notin Stray(m)
      BY <1>3
    <2>3. CASE o \in DOMAIN m /\ m[o] = x
      BY <1>2, <1>4, <2>1, <2>2, <2>3
    <2>4. CASE o = x /\ o \notin DOMAIN m
      <3>1. x \in {doc[d].name, doc[d].canon}
        BY <2>1, <2>2, <2>4 DEF FileInv, WriteInv
      <3> QED BY <1>2, <2>4, <3>1
    <2> QED BY <2>1, <2>3, <2>4
  <1>10. torn' \subseteq moved'
    <2>1. \A d \in Stray(m) : d \in moved
      BY <1>1 DEF Stray, Under, OnDisk, FileInv, PlaceInv
    <2>2. torn \subseteq moved /\ moved \subseteq moved' /\ torn \subseteq Open /\ moved \subseteq Open
      BY DEF FileInv, MoveFile, TypeInv, SetType
    <2> QED BY <1>3, <2>1, <2>2
  <1> QED BY <1>6, <1>7, <1>8, <1>9, <1>10 DEF FileInv

\* What is neither a move, nor opens or resets a document, keeps the files.
LEMMA QuietFiles ==
    ASSUME TypeInv, FileInv,
           \/ UNCHANGED vars
           \/ \E d \in Docs : WindowEnds(d) \/ SaveFile(d) \/ \E t \in Texts : Edit(d, t)
           \/ \E p \in Paths : \/ ShowFile(p) \/ ExternalDelete(p)
                               \/ \E t \in Texts : ExternalWrite(p, t) \/ ExternalReplace(p, t)
           \/ ApplyWatchFiles
           \/ \E n \in raw : HandleNotifyEvent(n)
           \/ \E names \in Closable, delete \in BOOLEAN : CloseFiles(names, delete)
    PROVE  FileInv'
  <1>1. moved \subseteq Open /\ torn \subseteq Open
    BY DEF TypeInv, SetType
  <1> DEFINE Kept(d) == /\ doc'[d].name = doc[d].name /\ doc'[d].canon = doc[d].canon
                        /\ doc'[d].file = doc[d].file
  <1>2. CASE \/ UNCHANGED vars
             \/ \E d \in Docs : WindowEnds(d) \/ \E t \in Texts : Edit(d, t)
             \/ \E p \in Paths : ShowFile(p)
             \/ ApplyWatchFiles
             \/ \E n \in raw : HandleNotifyEvent(n)
    <2>1. UNCHANGED <<disk, moved, torn>>
      BY <1>2 DEF vars, WindowEnds, Edit, ShowFile, ApplyWatchFiles, HandleNotifyEvent, files
    <2>2. Open' = Open /\ \A d \in Open : Kept(d)
      <3>1. CASE \E d \in Docs, t \in Texts : Edit(d, t)
        <4>1. PICK d \in Docs, t \in Texts : Edit(d, t)
          BY <3>1
        <4>2. \A x \in Open : x \in Docs
          BY OpenType DEF TypeInv
        <4> QED BY <4>1, <4>2, EditTypes
      <3>2. CASE doc' = doc
        BY <3>2 DEF Open
      <3> QED BY <1>2, <3>1, <3>2
              DEF vars, WindowEnds, ShowFile, ApplyWatchFiles, HandleNotifyEvent
    <2>3. Fresh(NoFile)
      BY <2>1 DEF Fresh
    <2> QED BY <1>1, <2>1, <2>2, <2>3, KeptFiles
  <1>3. ASSUME NEW d \in Docs, SaveFile(d) PROVE FileInv'
    <2>1. UNCHANGED <<disk, moved, torn>>
      BY <1>3 DEF SaveFile
    <2>2. /\ Open' = Open /\ d \in Open /\ \A x \in Docs : x # d => doc'[x] = doc[x]
          /\ doc'[d] = [doc[d] EXCEPT !.base = doc[d].text] /\ doc[d] \in DocType
      BY <1>3, SaveTypes
    <2>3. doc'[d].name = doc[d].name /\ doc'[d].canon = doc[d].canon /\ doc'[d].file = doc[d].file
      BY <2>2 DEF DocType
    <2>4. \A x \in Open : Kept(x)
      BY <2>2, <2>3, OpenType DEF TypeInv
    <2>5. Fresh(NoFile)
      BY <2>1 DEF Fresh
    <2> QED BY <1>1, <2>1, <2>2, <2>4, <2>5, KeptFiles
  <1>4. ASSUME NEW p \in Paths, NEW t \in Texts,
               ExternalDelete(p) \/ ExternalWrite(p, t) \/ ExternalReplace(p, t)
        PROVE  FileInv'
    <2>1. UNCHANGED <<doc, moved, torn>>
      BY <1>4 DEF ExternalDelete, ExternalWrite, ExternalReplace
    <2>2. Open' = Open
      BY <2>1 DEF Open
    <2>3. Fresh(p)
      <3>1. CASE ExternalDelete(p) \/ ExternalWrite(p, t)
        BY <3>1 DEF ExternalDelete, ExternalWrite, Fresh, TypeInv, DiskType
      <3>2. CASE ExternalReplace(p, t)
        <4>1. /\ \A q \in Paths : disk[q] # NewInode
              /\ \A d \in Open : doc[d].file # NewInode
          BY <3>2, NewInodeIsFree DEF ExternalReplace, TypeInv
        <4>2. disk' = [disk EXCEPT ![p] = NewInode]
          BY <3>2 DEF ExternalReplace
        <4> QED BY <4>1, <4>2 DEF Fresh, TypeInv, DiskType
      <3> QED BY <1>4, <3>1, <3>2
    <2> QED BY <1>1, <2>1, <2>2, <2>3, KeptFiles
  <1>5. ASSUME NEW names \in Closable, NEW delete \in BOOLEAN, CloseFiles(names, delete)
        PROVE  FileInv'
    <2>1. /\ Open' = Open \ Closed(names)
          /\ \A d \in Docs : d \notin Closed(names) => doc'[d] = doc[d]
          /\ \A p \in Paths : disk'[p] # NoFile => disk'[p] = disk[p]
          /\ moved' = moved \ Closed(names) /\ torn' = torn \ Closed(names)
      BY <1>5, CloseTypes
    <2>2. \A d \in Open' : Kept(d)
      BY <2>1, OpenType DEF TypeInv
    <2>3. Fresh(NoFile)
      BY <2>1 DEF Fresh
    <2>4. moved' = moved \cap Open' /\ torn' = torn \cap Open'
      BY <1>1, <2>1
    <2> QED BY <1>1, <2>1, <2>2, <2>3, <2>4, KeptFiles
  <1>6. (\E p \in Paths : ExternalDelete(p)) => FileInv'
    BY <1>4, InodeFacts
  <1> QED BY <1>2, <1>3, <1>4, <1>5, <1>6

LEMMA OpenFiles ==
    ASSUME TypeInv, FileInv, NEW p \in Paths, NEW t \in Texts,
           OpenFile(p) \/ CreateFile(p) \/ ShareFile(p, t)
    PROVE  FileInv'
  <1>1. UNCHANGED <<moved, torn>>
    BY DEF OpenFile, CreateFile, ShareFile
  <1>2. p # Buffer /\ NoFile \notin Inodes /\ Empty \in Texts
    BY InodeFacts
  <1>3. OnDisk(p) => disk[p] \in Inodes /\ TextAt(p) \in Texts
    BY DEF TypeInv, DiskType, OnDisk, TextAt
  <1>4. CASE OpenFile(p) \/ ShareFile(p, t)
    <2>1. OnDisk(p) /\ Named(p) = {} /\ disk' = disk
      BY <1>4 DEF OpenFile, ShareFile, files
    <2>2. \E i \in {disk[p], NoFile}, text \in Texts : NewDoc(p, i, text, TextAt(p))
      BY <1>3, <1>4, <2>1 DEF OpenFile, ShareFile
    <2>3. Fresh(p)
      BY <2>1 DEF Fresh
    <2> QED BY <1>1, <1>2, <1>3, <2>1, <2>2, <2>3, NewFiles
  <1>5. CASE CreateFile(p)
    <2>1. /\ NewInode \in Inodes /\ \A q \in Paths : disk[q] # NewInode
          /\ \A d \in Open : doc[d].file # NewInode
      BY <1>5, NewInodeIsFree DEF TypeInv, CreateFile
    <2>2. /\ Named(p) = {} /\ disk' = [disk EXCEPT ![p] = NewInode]
          /\ NewDoc(p, NewInode, Empty, Empty)
      BY <1>5 DEF CreateFile
    <2>3. Fresh(p) /\ disk'[p] = NewInode
      BY <2>1, <2>2 DEF Fresh, TypeInv, DiskType
    <2> QED BY <1>1, <1>2, <2>1, <2>2, <2>3, NewFiles
  <1> QED BY <1>4, <1>5

LEMMA BufferFiles ==
    ASSUME TypeInv, FileInv, NEW t \in Texts, ShareBuffer(t)
    PROVE  FileInv'
  <1>1. /\ Named(Buffer) = {} /\ disk' = disk /\ NewDoc(Buffer, NoFile, t, t)
        /\ UNCHANGED <<moved, torn>>
    BY DEF ShareBuffer, files
  <1>2. Fresh(Buffer)
    BY <1>1, InodeFacts DEF Fresh
  <1> QED BY <1>1, <1>2, NewFiles

LEMMA FileStep ==
    ASSUME TypeInv, FileInv, [Next]_vars
    PROVE  FileInv'
  <1>1. ASSUME NEW d \in Docs, ResetFromDisk(d) PROVE FileInv'
    <2>1. doc[d].canon \in Paths
      BY <1>1, OpenType, FieldTypes DEF TypeInv, ResetFromDisk
    <2>2. PICK e \in Canon(doc[d].canon) : Reset(e, doc[d].canon)
      BY <1>1 DEF ResetFromDisk
    <2>3. UNCHANGED <<disk, moved, torn>>
      BY <1>1 DEF ResetFromDisk, files
    <2> QED BY <2>1, <2>2, <2>3, ResetFiles
  <1>2. ASSUME NEW e \in events, HandleFileChanged(e) PROVE FileInv'
    <2>1. UNCHANGED <<disk, moved, torn>> /\ e.path \in Paths
      BY <1>2 DEF HandleFileChanged, files, TypeInv, WireType, Event
    <2>2. CASE Ignore(e.path)
      <3>1. doc' = doc /\ Open' = Open /\ Fresh(NoFile)
        BY <2>1, <2>2 DEF Ignore, Open, Fresh
      <3> QED BY <2>1, <3>1, KeptFiles DEF TypeInv, SetType
    <2>3. CASE \E d \in Canon(e.path) : Reset(d, e.path)
      BY <2>1, <2>3, ResetFiles
    <2> QED BY <1>2, <2>2, <2>3 DEF HandleFileChanged
  <1>3. (\E p \in Paths : OpenFile(p) \/ CreateFile(p)) => FileInv'
    BY OpenFiles, InodeFacts
  <1>4. ASSUME NEW p \in Paths,
               \/ ShowFile(p) \/ ExternalDelete(p)
               \/ \E t \in Texts : ExternalWrite(p, t) \/ ExternalReplace(p, t)
        PROVE  FileInv'
    BY <1>4, QuietFiles
  <1>5. ASSUME NEW d \in Docs,
               WindowEnds(d) \/ SaveFile(d) \/ \E t \in Texts : Edit(d, t)
        PROVE  FileInv'
    BY <1>5, QuietFiles
  <1>6. ASSUME ApplyWatchFiles \/ (\E n \in raw : HandleNotifyEvent(n)) \/ UNCHANGED vars
        PROVE  FileInv'
    BY <1>6, QuietFiles
  <1>7. ASSUME NEW names \in Closable, NEW delete \in BOOLEAN, CloseFiles(names, delete)
        PROVE  FileInv'
    BY <1>7, QuietFiles
  <1>8. CASE \E p \in Paths : \/ OpenFile(p) \/ CreateFile(p) \/ ShowFile(p) \/ ExternalDelete(p)
                             \/ \E t \in Texts : \/ ShareFile(p, t) \/ ExternalWrite(p, t)
                                                 \/ ExternalReplace(p, t)
    BY <1>3, <1>4, <1>8, OpenFiles
  <1>9. CASE \E t \in Texts : ShareBuffer(t) \/ (\E d \in Docs : Edit(d, t))
    BY <1>5, <1>9, BufferFiles
  <1> QED BY <1>1, <1>2, <1>5, <1>6, <1>7, <1>8, <1>9, MoveFiles DEF Next

LEMMA FileInvariant == Spec => []FileInv
  <1>1. ASSUME Init PROVE FileInv
    <2>1. Open = {} /\ torn = {} /\ moved = {}
      BY <1>1, InitTypes
    <2>2. PICK f \in [InitFiles -> 1 .. Cardinality(InitFiles)] :
                 /\ \A p, q \in InitFiles : f[p] = f[q] => p = q
                 /\ disk = [p \in Paths |-> IF p \in InitFiles THEN f[p] ELSE NoFile]
      BY <1>1 DEF Init
    <2>3. DiskInv
      BY <2>2 DEF DiskInv, OnDisk
    <2> QED BY <2>1, <2>3
            DEF FileInv, NameInv, NamesApart, PlaceInv, WriteInv, HandlesApart
  <1> QED BY <1>1, FileStep, TypeInvariant, PTL DEF Spec

\* The state of the host, the files and the watcher stays typed; a buffer has
\* no file, whatever is moved and reset, and a document that a MoveFile parted
\* from its name is one that was moved.
THEOREM TypeCorrect == Spec => []TypeOK
  <1>1. TypeInv /\ FileInv => TypeOK
    <2> SUFFICES ASSUME TypeInv, FileInv PROVE TypeOK
      OBVIOUS
    <2>1. \A d \in Open : doc[d] \in DocType /\ (doc[d].name = Buffer => doc[d].file = NoFile)
      BY OpenType DEF TypeInv, DocsType
    <2>2. raw \subseteq [path : Paths, by : Docs \cup {NoEcho}, data : BOOLEAN]
      <3>1. 0 .. opened \subseteq Docs \cup {NoEcho}
        BY BoundsAssumption DEF TypeInv, CountType, Docs, NoEcho
      <3> QED BY <3>1 DEF TypeInv, WireType, Notification
    <2>3. \A e \in events : e.path \in Paths /\ e.old \subseteq Open
      BY DEF TypeInv, WireType, Event
    <2> QED BY <2>1, <2>2, <2>3
            DEF TypeInv, DiskType, WireType, SetType, CountType, FileInv, TypeOK
  <1> QED BY <1>1, TypeInvariant, FileInvariant, PTL

\* However files are replaced, moved and deleted under them: two documents
\* that were not moved never hold one file.
THEOREM FilesAreApart == Spec => []HandlesApart
  BY FileInvariant, PTL DEF FileInv

\* A save goes to the file under the name of the document, but where a move
\* has left the document its former path, or parted it from its name.
THEOREM SavesGoToTheName == Spec => []WritesUnderItsName
  <1>1. FileInv => WritesUnderItsName
    BY DEF FileInv, WriteInv, WritesUnderItsName, Under, OnDisk
  <1> QED BY <1>1, FileInvariant, PTL

-----------------------------------------------------------------------------
(***************************************************************************)
(* What is reported.  A document that holds a handle and is out of sync,   *)
(* was not moved and has not missed the change, has a notification or a    *)
(* FileChanged under way for its path: every step that changes a file puts *)
(* one there, and what takes one away resets the document or counts it as  *)
(* missed.                                                                 *)
(***************************************************************************)
Reported(p) == (\E n \in raw : n.path = p) \/ (\E e \in events : e.path = p)
Watching(d) == doc[d].file # NoFile /\ d \notin missed /\ d \notin moved
ReportInv ==
    \A d \in Open : Watching(d) /\ OutOfSync(d, doc[d].name) => Reported(doc[d].name)

\* A step that keeps what is under way, and puts no one out of sync but with a
\* notification.
LEMMA KeptReports ==
    ASSUME ReportInv, \A n \in raw : \E x \in raw' : x.path = n.path,
           \A e \in events : \E x \in events' : x.path = e.path,
           \A d \in Open' : Watching(d)' /\ OutOfSync(d, doc[d].name)'
             => \/ Reported(doc[d].name)'
                \/ /\ d \in Open /\ Watching(d) /\ OutOfSync(d, doc[d].name)
                   /\ doc'[d].name = doc[d].name
    PROVE  ReportInv'
  <1>1. \A p : Reported(p) => Reported(p)'
    BY DEF Reported
  <1> SUFFICES ASSUME NEW d \in Open', Watching(d)', OutOfSync(d, doc[d].name)'
               PROVE  Reported(doc[d].name)'
    BY DEF ReportInv
  <1>2. CASE d \in Open /\ Watching(d) /\ OutOfSync(d, doc[d].name) /\ doc'[d].name = doc[d].name
    <2>1. Reported(doc[d].name)
      BY <1>2 DEF ReportInv
    <2>2. Reported(doc[d].name)' <=> \/ \E n \in raw' : n.path = doc'[d].name
                                     \/ \E e \in events' : e.path = doc'[d].name
      BY DEF Reported
    <2> QED BY <1>2, <2>1, <2>2 DEF Reported
  <1> QED BY <1>2

\* A document that is watching has a path.
LEMMA WatchingPath ==
    ASSUME TypeInv, NEW d \in Open, doc[d].file # NoFile
    PROVE  doc[d].name \in Paths
  BY OpenType, FieldTypes DEF TypeInv, DocsType

LEMMA NewReports ==
    ASSUME TypeInv, FileInv, ReportInv, NEW p \in Paths \cup {Buffer}, NEW i \in Inodes \cup {NoFile},
           p = Buffer => i = NoFile, NEW text \in Texts, NEW read \in Texts,
           NewDoc(p, i, text, read), Named(p) = {},
           i = NoFile \/ (disk'[p] = i /\ content'[i] = read),
           \A q \in Paths : q # p => disk'[q] = disk[q],
           \A q \in Paths : q # p /\ OnDisk(q) => content'[disk[q]] = content[disk[q]],
           UNCHANGED <<raw, missed, moved>>
    PROVE  ReportInv'
  <1> DEFINE n == opened + 1
  <1>1. /\ n \in Docs /\ n \notin Open /\ Open' = Open \cup {n}
        /\ doc'[n].name = p /\ doc'[n].canon = p /\ doc'[n].file = i /\ doc'[n].base = read
        /\ \A d \in Open : d \in Docs /\ d # n /\ doc'[d] = doc[d]
    <2>1. \A d \in Open : d \in Docs /\ d # n
      BY NewDocStep, OpenType DEF TypeInv
    <2>2. /\ n \in Docs /\ n \notin Open /\ Open' = Open \cup {n}
          /\ \A d \in Docs : d # n => doc'[d] = doc[d]
      BY NewDocStep
    <2>3. doc'[n].name = p /\ doc'[n].canon = p /\ doc'[n].file = i
      BY NewDocStep
    <2>4. doc'[n].base = read
      BY <2>2 DEF NewDoc, TypeInv, DocsType
    <2> QED BY <2>1, <2>2, <2>3, <2>4
  <1>2. \A e \in events : \E x \in events' : x.path = e.path
    <2>1. events' = SavedSince(n, p)
      BY NewDocStep
    <2> QED BY <2>1, SavedMessages DEF TypeInv
  <1> HIDE DEF n
  <1>3. ASSUME NEW d \in Open', Watching(d)', OutOfSync(d, doc[d].name)'
        PROVE  /\ d \in Open /\ Watching(d) /\ OutOfSync(d, doc[d].name)
               /\ doc'[d].name = doc[d].name
    <2>1. CASE d = n
      BY <1>1, <1>3, <2>1 DEF Watching, OutOfSync, OnDisk, TextAt
    <2>2. CASE d # n
      <3>1. d \in Open /\ doc'[d] = doc[d] /\ doc[d].name # p
        BY <1>1, <2>2 DEF Named
      <3>2. doc[d].name \in Paths
        BY <1>3, <3>1, WatchingPath DEF Watching
      <3>3. disk'[doc[d].name] = disk[doc[d].name]
        BY <3>1, <3>2
      <3>4. OnDisk(doc[d].name) /\ content'[disk[doc[d].name]] = content[disk[doc[d].name]]
        BY <1>3, <3>1, <3>2, <3>3 DEF OutOfSync, OnDisk
      <3> QED BY <1>3, <3>1, <3>3, <3>4 DEF Watching, OutOfSync, OnDisk, TextAt
    <2> QED BY <2>1, <2>2
  <1> QED BY <1>2, <1>3, KeptReports

LEMMA OpenReports ==
    ASSUME TypeInv, FileInv, ReportInv, NEW p \in Paths, NEW t \in Texts,
           OpenFile(p) \/ CreateFile(p) \/ ShareFile(p, t)
    PROVE  ReportInv'
  <1>1. UNCHANGED <<raw, missed, moved>> /\ Named(p) = {}
    BY DEF OpenFile, CreateFile, ShareFile
  <1>2. p # Buffer /\ NoFile \notin Inodes /\ Empty \in Texts
    BY InodeFacts
  <1>3. OnDisk(p) => disk[p] \in Inodes /\ TextAt(p) \in Texts
    BY DEF TypeInv, DiskType, OnDisk, TextAt
  <1>4. CASE OpenFile(p) \/ ShareFile(p, t)
    <2>1. OnDisk(p) /\ disk' = disk /\ content' = content
      BY <1>4 DEF OpenFile, ShareFile, files
    <2>2. \E i \in {disk[p], NoFile}, text \in Texts : NewDoc(p, i, text, TextAt(p))
      BY <1>3, <1>4, <2>1 DEF OpenFile, ShareFile
    <2>3. content'[disk[p]] = TextAt(p)
      BY <2>1 DEF TextAt
    <2> QED BY <1>1, <1>2, <1>3, <2>1, <2>2, <2>3, NewReports
  <1>5. CASE CreateFile(p)
    <2>1. NewInode \in Inodes /\ \A q \in Paths : disk[q] # NewInode
      BY <1>5, NewInodeIsFree DEF TypeInv, CreateFile
    <2>2. /\ disk' = [disk EXCEPT ![p] = NewInode]
          /\ content' = [content EXCEPT ![NewInode] = Empty]
          /\ NewDoc(p, NewInode, Empty, Empty)
      BY <1>5 DEF CreateFile
    <2>3. /\ disk'[p] = NewInode /\ content'[NewInode] = Empty
          /\ \A q \in Paths : q # p => disk'[q] = disk[q]
          /\ \A q \in Paths : OnDisk(q) => content'[disk[q]] = content[disk[q]]
      BY <2>1, <2>2 DEF TypeInv, DiskType, OnDisk
    <2> QED BY <1>1, <1>2, <2>1, <2>2, <2>3, NewReports
  <1> QED BY <1>4, <1>5

LEMMA BufferReports ==
    ASSUME TypeInv, FileInv, ReportInv, NEW t \in Texts, ShareBuffer(t)
    PROVE  ReportInv'
  <1>1. /\ Named(Buffer) = {} /\ disk' = disk /\ content' = content
        /\ NewDoc(Buffer, NoFile, t, t) /\ UNCHANGED <<raw, missed, moved>>
    BY DEF ShareBuffer, files
  <1> QED BY <1>1, NewReports

LEMMA ResetReports ==
    ASSUME TypeInv, FileInv, ReportInv, NEW p \in Paths, NEW d \in Canon(p), Reset(d, p),
           UNCHANGED <<disk, content, raw, moved>>,
           \A e \in events : e.path # p => e \in events'
    PROVE  ReportInv'
  <1>1. /\ d \in Open /\ d \in Docs /\ doc[d].canon = p /\ Open' = Open
        /\ doc'[d].name = doc[d].name
        /\ \A x \in Docs : x # d => doc'[x] = doc[x]
        /\ \A x \in missed : x # d => x \in missed'
        /\ OnDisk(p) => /\ doc'[d].base = TextAt(p)
                        /\ doc'[d].file # disk[p] => d \in missed'
                        /\ \A x \in Canon(p) : x # d /\ OutOfSync(x, p) => x \in missed'
    <2>1. d \in Open /\ d \in Docs /\ doc[d].canon = p
      BY OpenType DEF Canon, TypeInv
    <2> QED BY <2>1, ResetStep
  <1> SUFFICES ASSUME NEW x \in Open, Watching(x)', OutOfSync(x, doc[x].name)'
               PROVE  \/ \E n \in raw' : n.path = doc'[x].name
                      \/ \E e \in events' : e.path = doc'[x].name
    BY <1>1 DEF ReportInv, Reported
  <1>2. CASE x = d
    <2>1. doc'[d].name = p
      BY <1>1, <1>2 DEF Watching, FileInv, NameInv
    <2>2. OnDisk(p) /\ (disk[p] # doc'[d].file \/ TextAt(p) # doc'[d].base)
      BY <1>2, <2>1 DEF OutOfSync, OnDisk, TextAt
    <2> QED BY <1>1, <1>2, <2>2 DEF Watching
  <1>3. CASE x # d
    <2>1. x \in Docs /\ doc'[x] = doc[x]
      BY <1>1, <1>3, OpenType DEF TypeInv
    <2>2. x \notin missed /\ x \notin missed' /\ x \notin moved /\ doc[x].file # NoFile
      BY <1>1, <1>3, <2>1 DEF Watching
    <2>3. OutOfSync(x, doc[x].name)
      BY <2>1 DEF OutOfSync, OnDisk, TextAt
    <2>4. Reported(doc[x].name)
      BY <2>2, <2>3 DEF ReportInv, Watching
    <2>5. doc[x].name # p
      <3>1. doc[x].canon = doc[x].name
        BY <2>2 DEF FileInv, NameInv
      <3>2. doc[x].name = p => x \in Canon(p) /\ OnDisk(p) /\ OutOfSync(x, p)
        BY <2>3, <3>1 DEF Canon, OutOfSync
      <3> QED BY <1>1, <1>3, <2>2, <3>2
    <2> QED BY <2>1, <2>4, <2>5 DEF Reported
  <1> QED BY <1>2, <1>3

LEMMA SaveReports ==
    ASSUME TypeInv, FileInv, ReportInv, NEW s \in Docs, SaveFile(s)
    PROVE  ReportInv'
  <1>1. /\ Open' = Open /\ s \in Open /\ \A x \in Open : x # s => doc'[x] = doc[x]
        /\ doc'[s] = [doc[s] EXCEPT !.base = doc[s].text]
        /\ doc[s] \in DocType /\ doc[s].file \in Inodes
    <2>1. \A x \in Open : x \in Docs
      BY OpenType DEF TypeInv
    <2> QED BY <2>1, SaveTypes
  <1>2. /\ disk' = disk /\ moved' = moved /\ raw' = raw \cup Echoes(s)
        /\ content' = [content EXCEPT ![doc[s].file] = doc[s].text]
        /\ missed' = IF doc[s].name \in Under(doc[s].file) THEN missed \ {s} ELSE missed
        /\ events' = SavedSince(s, doc[s].canon)
    BY DEF SaveFile, Notify, JustSaved
  <1>3. /\ doc'[s].name = doc[s].name /\ doc'[s].file = doc[s].file
        /\ doc'[s].base = doc[s].text
    BY <1>1 DEF DocType
  <1>4. /\ content'[doc[s].file] = doc[s].text
        /\ \A i \in Inodes : i # doc[s].file => content'[i] = content[i]
    BY <1>1, <1>2 DEF TypeInv, DiskType
  <1>5. \A e \in events : \E x \in events' : x.path = e.path
    BY <1>2, SavedMessages DEF TypeInv
  <1>6. ASSUME NEW d \in Open, Watching(d)', OutOfSync(d, doc[d].name)'
        PROVE  \/ Reported(doc[d].name)'
               \/ Watching(d) /\ OutOfSync(d, doc[d].name) /\ doc'[d].name = doc[d].name
    <2>1. doc'[d].name = doc[d].name /\ doc'[d].file = doc[d].file
      BY <1>1, <1>3
    <2>2. doc[d].name \in Paths /\ disk'[doc[d].name] = disk[doc[d].name] /\ d \notin moved
      BY <1>2, <1>6, <2>1, WatchingPath DEF Watching
    <2>3. disk[doc[d].name] # NoFile /\ disk[doc[d].name] \in Inodes
      BY <1>6, <2>1, <2>2 DEF OutOfSync, OnDisk, TypeInv, DiskType
    <2>4. CASE disk[doc[d].name] = doc[s].file
      <3>1. doc[d].name \in Under(doc[s].file)
        BY <2>2, <2>3, <2>4 DEF Under
      <3>2. [path |-> doc[d].name, by |-> s, data |-> TRUE] \in raw'
        BY <1>2, <3>1 DEF Echoes
      <3> QED BY <2>1, <3>2 DEF Reported
    <2>5. CASE disk[doc[d].name] # doc[s].file
      <3>1. content'[disk[doc[d].name]] = content[disk[doc[d].name]]
        BY <1>4, <2>3, <2>5
      <3>2. d \notin missed
        BY <1>2, <1>6, <2>5 DEF Watching, Under
      <3>3. OutOfSync(d, doc[d].name)
        <4>1. CASE d = s
          BY <2>3, <2>5, <4>1 DEF OutOfSync, OnDisk
        <4>2. CASE d # s
          BY <1>1, <1>6, <2>1, <2>2, <3>1, <4>2 DEF OutOfSync, OnDisk, TextAt
        <4> QED BY <4>1, <4>2
      <3> QED BY <1>6, <2>1, <2>2, <3>2, <3>3 DEF Watching
    <2> QED BY <2>4, <2>5
  <1> QED BY <1>1, <1>2, <1>5, <1>6, KeptReports

LEMMA ExternalReports ==
    ASSUME TypeInv, FileInv, ReportInv, NEW p \in Paths, NEW t \in Texts,
           ExternalWrite(p, t) \/ ExternalReplace(p, t) \/ ExternalDelete(p)
    PROVE  ReportInv'
  <1>1. UNCHANGED <<doc, events, missed, moved>> /\ raw \subseteq raw'
    BY DEF ExternalWrite, ExternalReplace, ExternalDelete, watcher, Notify
  <1>2. Open' = Open
    BY <1>1 DEF Open
  <1>3. Reported(p)' \/ ExternalDelete(p)
    <2>1. PICK data \in BOOLEAN : Notice(p, data) \in raw' \/ ExternalDelete(p)
      BY DEF ExternalWrite, ExternalReplace, Notify
    <2>2. Notice(p, data).path = p
      BY DEF Notice
    <2> QED BY <2>1, <2>2 DEF Reported
  <1>4. ASSUME NEW q \in Paths, q # p \/ ExternalDelete(p), disk'[q] # NoFile
        PROVE  disk'[q] = disk[q] /\ content'[disk[q]] = content[disk[q]]
    <2>1. CASE ExternalDelete(p)
      BY <1>4, <2>1 DEF ExternalDelete, TypeInv, DiskType
    <2>2. CASE ExternalWrite(p, t)
      <3>1. disk' = disk /\ content' = [content EXCEPT ![disk[p]] = t]
        BY <2>2 DEF ExternalWrite
      <3>2. q # p => disk[q] # disk[p]
        BY <1>4, <3>1 DEF FileInv, DiskInv, OnDisk
      <3>3. q # p \/ UNCHANGED content
        BY <1>4 DEF ExternalDelete
      <3> QED BY <3>1, <3>2, <3>3 DEF TypeInv, DiskType
    <2>3. CASE ExternalReplace(p, t)
      <3>1. NewInode \in Inodes /\ \A x \in Paths : disk[x] # NewInode
        BY <2>3, NewInodeIsFree DEF TypeInv, ExternalReplace
      <3>2. disk' = [disk EXCEPT ![p] = NewInode] /\ content' = [content EXCEPT ![NewInode] = t]
        BY <2>3 DEF ExternalReplace
      <3>3. q # p \/ (content' = content /\ disk' = [disk EXCEPT ![p] = NoFile])
        BY <1>4 DEF ExternalDelete
      <3> QED BY <1>4, <3>1, <3>2, <3>3 DEF TypeInv, DiskType
    <2> QED BY <2>1, <2>2, <2>3
  <1>5. ASSUME NEW d \in Open, Watching(d)', OutOfSync(d, doc[d].name)'
        PROVE  \/ Reported(doc[d].name)'
               \/ Watching(d) /\ OutOfSync(d, doc[d].name) /\ doc'[d].name = doc[d].name
    <2>1. doc[d].name \in Paths /\ Watching(d)
      BY <1>1, <1>5, WatchingPath DEF Watching
    <2>2. CASE doc[d].name = p /\ ~ExternalDelete(p)
      BY <1>1, <1>3, <2>2 DEF Reported
    <2>3. CASE doc[d].name # p \/ ExternalDelete(p)
      <3>1. disk'[doc[d].name] # NoFile
        BY <1>1, <1>5 DEF OutOfSync, OnDisk
      <3>2. disk'[doc[d].name] = disk[doc[d].name]
            /\ content'[disk[doc[d].name]] = content[disk[doc[d].name]]
        BY <1>4, <2>1, <2>3, <3>1
      <3> QED BY <1>1, <1>5, <2>1, <3>2 DEF OutOfSync, OnDisk, TextAt
    <2> QED BY <2>2, <2>3
  <1> QED BY <1>1, <1>2, <1>5, KeptReports

LEMMA WatcherReports ==
    ASSUME TypeInv, FileInv, ReportInv, NEW n \in raw, HandleNotifyEvent(n)
    PROVE  ReportInv'
  <1>1. UNCHANGED <<disk, content, doc, moved>> /\ Open' = Open
    BY DEF HandleNotifyEvent, files, Open
  <1>2. /\ raw' = raw \ {n} /\ events \subseteq events' /\ missed \subseteq missed'
        /\ n.data /\ n.path \in watched
             => [path |-> n.path, by |-> n.by, old |-> window \cap Canon(n.path)] \in events'
        /\ ~(n.data /\ n.path \in watched)
             => \A d \in Canon(n.path) : OutOfSync(d, n.path) => d \in missed'
    BY DEF HandleNotifyEvent
  <1> SUFFICES ASSUME NEW d \in Open, Watching(d)', OutOfSync(d, doc[d].name)'
               PROVE  \/ \E x \in raw' : x.path = doc[d].name
                      \/ \E e \in events' : e.path = doc[d].name
    BY <1>1 DEF ReportInv, Reported
  <1>3. Watching(d) /\ OutOfSync(d, doc[d].name) /\ d \notin missed' /\ d \notin moved
    BY <1>1, <1>2 DEF Watching, OutOfSync, OnDisk, TextAt
  <1>4. Reported(doc[d].name)
    BY <1>3 DEF ReportInv
  <1>5. CASE n.path = doc[d].name
    <2>1. d \in Canon(n.path)
      BY <1>3, <1>5 DEF Canon, FileInv, NameInv
    <2>2. n.data /\ n.path \in watched
      BY <1>2, <1>3, <1>5, <2>1
    <2>3. PICK e : e = [path |-> n.path, by |-> n.by, old |-> window \cap Canon(n.path)]
      OBVIOUS
    <2>4. e \in events' /\ e.path = n.path
      BY <1>2, <2>2, <2>3
    <2> QED BY <1>5, <2>4
  <1>6. CASE n.path # doc[d].name
    BY <1>2, <1>4, <1>6 DEF Reported
  <1> QED BY <1>5, <1>6

LEMMA ChangedReports ==
    ASSUME TypeInv, FileInv, ReportInv, NEW e \in events, HandleFileChanged(e)
    PROVE  ReportInv'
  <1>1. UNCHANGED <<disk, content, raw, moved>> /\ events' = events \ {e} /\ e.path \in Paths
    BY DEF HandleFileChanged, files, TypeInv, WireType, Event
  <1>2. CASE \E d \in Canon(e.path) : Reset(d, e.path)
    BY <1>1, <1>2, ResetReports
  <1>3. CASE Ignore(e.path)
    <2>1. /\ doc' = doc /\ Open' = Open /\ missed \subseteq missed'
          /\ \A x \in Canon(e.path) : OutOfSync(x, e.path) => x \in missed'
      BY <1>3 DEF Ignore, Open
    <2> SUFFICES ASSUME NEW d \in Open, Watching(d)', OutOfSync(d, doc[d].name)'
                 PROVE  \/ \E x \in raw' : x.path = doc[d].name
                        \/ \E x \in events' : x.path = doc[d].name
      BY <2>1 DEF ReportInv, Reported
    <2>2. Watching(d) /\ OutOfSync(d, doc[d].name) /\ d \notin missed' /\ d \notin moved
      BY <1>1, <2>1 DEF Watching, OutOfSync, OnDisk, TextAt
    <2>3. Reported(doc[d].name)
      BY <2>2 DEF ReportInv
    <2>4. e.path # doc[d].name
      BY <2>1, <2>2 DEF Canon, FileInv, NameInv
    <2> QED BY <1>1, <2>3, <2>4 DEF Reported
  <1> QED BY <1>2, <1>3 DEF HandleFileChanged

LEMMA MoveReports ==
    ASSUME TypeInv, FileInv, ReportInv, NEW m \in AllMoves, MoveFile(m)
    PROVE  ReportInv'
  <1>1. /\ Open' = Open
        /\ \A d \in Open : /\ doc'[d].file = doc[d].file /\ doc'[d].base = doc[d].base
                           /\ doc[d].name \notin DOMAIN m => doc'[d].name = doc[d].name
    BY MoveTypes
  <1>2. /\ UNCHANGED <<content, raw, events>>
        /\ \A d \in Open : doc[d].name \in DOMAIN m => d \in moved'
        /\ \A d \in Open : doc[d].name \in Range(m) => d \in missed'
        /\ missed \subseteq missed' /\ moved \subseteq moved'
        /\ \A x \in Paths : x \notin Range(m) /\ x \notin DOMAIN m => disk'[x] = disk[x]
    BY DEF MoveFile, watcher
  <1>3. ASSUME NEW d \in Open, Watching(d)', OutOfSync(d, doc[d].name)'
        PROVE  Watching(d) /\ OutOfSync(d, doc[d].name) /\ doc'[d].name = doc[d].name
    <2>1. doc[d].name \notin DOMAIN m /\ doc[d].name \notin Range(m) /\ doc'[d].name = doc[d].name
      BY <1>1, <1>2, <1>3 DEF Watching
    <2>2. doc[d].name \in Paths
      BY <1>1, <1>3, <2>1, WatchingPath DEF Watching
    <2>3. disk'[doc[d].name] = disk[doc[d].name]
      BY <1>2, <2>1, <2>2
    <2> QED BY <1>1, <1>2, <1>3, <2>1, <2>3 DEF Watching, OutOfSync, OnDisk, TextAt
  <1> QED BY <1>1, <1>2, <1>3, KeptReports

LEMMA CloseReports ==
    ASSUME TypeInv, FileInv, ReportInv, NEW names, NEW delete \in BOOLEAN, CloseFiles(names, delete)
    PROVE  ReportInv'
  <1>1. /\ Open' = Open \ Closed(names)
        /\ \A d \in Docs : d \notin Closed(names) => doc'[d] = doc[d]
        /\ \A i \in Inodes : content'[i] # content[i] => \E d \in Closed(names) : doc[d].file = i
        /\ \A p \in Paths : disk'[p] # NoFile => disk'[p] = disk[p]
        /\ \A n \in raw \cup UNION {Echoes(d) : d \in Closed(names)} : \E x \in raw' : x.path = n.path
        /\ missed' = missed \ Closed(names) /\ moved' = moved \ Closed(names)
        /\ \A e \in events : \E x \in events' : x.path = e.path
    BY CloseTypes
  <1>2. ASSUME NEW d \in Open', Watching(d)', OutOfSync(d, doc[d].name)'
        PROVE  \/ Reported(doc[d].name)'
               \/ d \in Open /\ Watching(d) /\ OutOfSync(d, doc[d].name) /\ doc'[d].name = doc[d].name
    <2>1. d \in Open /\ d \notin Closed(names) /\ doc'[d] = doc[d] /\ doc[d] \in DocType
      BY <1>1, OpenType DEF TypeInv
    <2>2. Watching(d) /\ doc[d].name \in Paths
      BY <1>1, <1>2, <2>1, WatchingPath DEF Watching
    <2>3. disk'[doc[d].name] = disk[doc[d].name] /\ disk[doc[d].name] \in Inodes
      BY <1>1, <1>2, <2>1, <2>2 DEF OutOfSync, OnDisk, TypeInv, DiskType
    <2>4. CASE content'[disk[doc[d].name]] = content[disk[doc[d].name]]
      BY <1>2, <2>1, <2>2, <2>3, <2>4 DEF OutOfSync, OnDisk, TextAt
    <2>5. CASE content'[disk[doc[d].name]] # content[disk[doc[d].name]]
      <3>1. PICK c \in Closed(names) : doc[c].file = disk[doc[d].name]
        BY <1>1, <2>3, <2>5
      <3>2. doc[d].name \in Under(doc[c].file)
        BY <2>2, <2>3, <3>1, InodeFacts DEF Under
      <3>3. [path |-> doc[d].name, by |-> c, data |-> TRUE] \in Echoes(c)
        BY <3>2 DEF Echoes
      <3>4. \E x \in raw' : x.path = doc[d].name
        BY <1>1, <3>1, <3>3
      <3> QED BY <2>1, <3>4 DEF Reported
    <2> QED BY <2>4, <2>5
  <1> QED BY <1>1, <1>2, KeptReports

LEMMA ReportStep ==
    ASSUME TypeInv, FileInv, ReportInv, [Next]_vars
    PROVE  ReportInv'
  <1>1. ASSUME NEW d \in Docs, NEW t \in Texts, Edit(d, t) PROVE ReportInv'
    <2>1. UNCHANGED <<disk, content, raw, events, missed, moved>>
      BY <1>1 DEF Edit, files, watcher
    <2>2. /\ Open' = Open
          /\ \A x \in Open : /\ doc'[x].name = doc[x].name /\ doc'[x].file = doc[x].file
                             /\ doc'[x].base = doc[x].base
      <3>1. \A x \in Open : x \in Docs
        BY OpenType DEF TypeInv
      <3> QED BY <1>1, <3>1, EditTypes
    <2>3. \A x \in Open : Watching(x)' /\ OutOfSync(x, doc[x].name)'
                            => Watching(x) /\ OutOfSync(x, doc[x].name)
      BY <2>1, <2>2 DEF Watching, OutOfSync, OnDisk, TextAt
    <2> QED BY <2>1, <2>2, <2>3, KeptReports
  <1>2. ASSUME NEW d \in Docs, ResetFromDisk(d) PROVE ReportInv'
    <2>1. doc[d].canon \in Paths
      BY <1>2, OpenType, FieldTypes DEF TypeInv, ResetFromDisk
    <2>2. PICK e \in Canon(doc[d].canon) : Reset(e, doc[d].canon)
      BY <1>2 DEF ResetFromDisk
    <2>3. UNCHANGED <<disk, content, raw, moved, events>>
      BY <1>2 DEF ResetFromDisk, files, watcher
    <2> QED BY <2>1, <2>2, <2>3, ResetReports
  <1>3. ASSUME \/ \E d \in Docs : WindowEnds(d)
               \/ \E p \in Paths : ShowFile(p)
               \/ ApplyWatchFiles \/ UNCHANGED vars
        PROVE  ReportInv'
    <2>1. UNCHANGED <<disk, content, doc, events, missed, moved>> /\ Open' = Open
      BY <1>3 DEF WindowEnds, ShowFile, ApplyWatchFiles, vars, files, watcher, Open
    <2>2. \A n \in raw : \E x \in raw' : x.path = n.path
      <3>1. CASE UNCHANGED raw
        BY <3>1
      <3>2. CASE \E d \in Docs : raw' = NoEchoOf({d}, raw)
        BY <3>2, NoEchoNotices DEF TypeInv, WireType, CountType, NoEcho, Docs
      <3> QED BY <1>3, <3>1, <3>2 DEF WindowEnds, ShowFile, ApplyWatchFiles, vars
    <2>3. \A d \in Open' : Watching(d)' /\ OutOfSync(d, doc[d].name)'
                             => Watching(d) /\ OutOfSync(d, doc[d].name)
      BY <2>1 DEF Watching, OutOfSync, OnDisk, TextAt
    <2> QED BY <2>1, <2>2, <2>3, KeptReports
  <1>4. CASE \E p \in Paths : \/ OpenFile(p) \/ CreateFile(p) \/ ShowFile(p) \/ ExternalDelete(p)
                             \/ \E t \in Texts : \/ ShareFile(p, t) \/ ExternalWrite(p, t)
                                                 \/ ExternalReplace(p, t)
    <2>1. (\E p \in Paths : OpenFile(p) \/ CreateFile(p)) => ReportInv'
      BY OpenReports, InodeFacts
    <2>2. (\E p \in Paths : ExternalDelete(p)) => ReportInv'
      BY ExternalReports, InodeFacts
    <2> QED BY <1>3, <1>4, <2>1, <2>2, OpenReports, ExternalReports
  <1>5. CASE \E t \in Texts : ShareBuffer(t) \/ (\E d \in Docs : Edit(d, t))
    BY <1>1, <1>5, BufferReports
  <1> QED BY <1>2, <1>3, <1>4, <1>5, SaveReports, WatcherReports, ChangedReports, MoveReports,
             CloseReports DEF Next

\* Once all is reported, what is under the name of a document is what it last
\* read or wrote, whatever other programs did to the files and in whatever
\* order it was reported, but for the changes that are missed.
THEOREM ReportsAreEnough == Spec => []InSync
  <1>1. Init => ReportInv
    <2>1. Init => Open = {}
      BY InitTypes
    <2> QED BY <2>1 DEF ReportInv
  <1>2. ReportInv => InSync
    BY DEF ReportInv, InSync, Quiet, Reported, Watching
  <1> QED BY <1>1, <1>2, ReportStep, TypeInvariant, FileInvariant, PTL DEF Spec

-----------------------------------------------------------------------------
(* The echoes of saves *)

\* An echo is on its way to the watcher only within the 100 ms after the save,
\* and the message the watcher makes of it is old news to the document.
EchoInv ==
    /\ \A n \in raw : n.by \in Open => n.by \in window
    /\ \A e \in events : e.by \in Open /\ doc[e.by].canon = e.path => e.by \in e.old

\* Opening and sharing add a document, and leave the others.
LEMMA OpeningStep ==
    ASSUME TypeInv,
           \/ \E p \in Paths : OpenFile(p) \/ CreateFile(p) \/ (\E t \in Texts : ShareFile(p, t))
           \/ \E t \in Texts : ShareBuffer(t)
    PROVE  /\ opened + 1 \in Docs /\ opened + 1 \notin Open /\ Open' = Open \cup {opened + 1}
           /\ \A d \in Docs : d # opened + 1 => doc'[d] = doc[d]
           /\ \E p : events' = SavedSince(opened + 1, p)
           /\ UNCHANGED <<raw, window>>
  <1>1. \E p \in Paths \cup {Buffer}, i \in Inodes \cup {NoFile}, text \in Texts, base \in Texts :
            (p = Buffer => i = NoFile) /\ NewDoc(p, i, text, base)
    <2>1. CASE \E t \in Texts : ShareBuffer(t)
      <3>1. PICK t \in Texts : NewDoc(Buffer, NoFile, t, t)
        BY <2>1 DEF ShareBuffer
      <3> QED BY <3>1
    <2>2. CASE \E p \in Paths : OpenFile(p) \/ CreateFile(p) \/ (\E t \in Texts : ShareFile(p, t))
      <3>1. PICK p \in Paths : OpenFile(p) \/ CreateFile(p) \/ (\E t \in Texts : ShareFile(p, t))
        BY <2>2
      <3>2. NoFile \notin Inodes /\ Empty \in Texts /\ p # Buffer
        BY InodeFacts
      <3>3. OnDisk(p) => disk[p] \in Inodes /\ TextAt(p) \in Texts
        BY DEF TypeInv, DiskType, OnDisk, TextAt
      <3>4. FreeInode # {} => NewInode \in Inodes
        BY NewInodeIsFree DEF TypeInv
      <3>5. CASE OpenFile(p)
        <4>1. NewDoc(p, disk[p], TextAt(p), TextAt(p)) /\ OnDisk(p)
          BY <3>5 DEF OpenFile
        <4> QED BY <3>2, <3>3, <4>1
      <3>6. CASE CreateFile(p)
        <4>1. NewDoc(p, NewInode, Empty, Empty) /\ FreeInode # {}
          BY <3>6 DEF CreateFile
        <4> QED BY <3>2, <3>4, <4>1
      <3>7. CASE \E t \in Texts : ShareFile(p, t)
        <4>1. PICK t \in Texts, i \in {disk[p], NoFile} : NewDoc(p, i, t, TextAt(p)) /\ OnDisk(p)
          BY <3>7 DEF ShareFile
        <4> QED BY <3>2, <3>3, <4>1
      <3> QED BY <3>1, <3>5, <3>6, <3>7
    <2> QED BY <2>1, <2>2
  <1>2. UNCHANGED <<raw, window>>
    BY DEF OpenFile, CreateFile, ShareFile, ShareBuffer
  <1> QED BY <1>1, <1>2, NewDocStep

\* The paths of open documents are never changed, and what is under way keeps
\* to them.
LEMMA KeptEchoes ==
    ASSUME TypeInv, EchoInv, Open' \subseteq Open, window \cap Open' \subseteq window',
           \A d \in Open' : doc'[d].canon = doc[d].canon,
           \A n \in raw' : n.by \in Open' => \E x \in raw : x.by = n.by,
           \A e \in events' : e.by \in Open' => \E x \in events :
             x.path = e.path /\ x.by = e.by /\ x.old \cap Open' \subseteq e.old
    PROVE  EchoInv'
  <1>1. ASSUME NEW n \in raw', n.by \in Open' PROVE n.by \in window'
    BY <1>1 DEF EchoInv
  <1>2. ASSUME NEW e \in events', e.by \in Open', doc'[e.by].canon = e.path PROVE e.by \in e.old
    BY <1>2 DEF EchoInv
  <1> QED BY <1>1, <1>2 DEF EchoInv

LEMMA EchoStep ==
    ASSUME TypeInv, EchoInv, [Next]_vars
    PROVE  EchoInv'
  <1>1. /\ \A d \in Open : d \in Docs /\ d \in 1 .. opened /\ d # NoEcho
        /\ \A n \in raw : n.by \in 0 .. opened
        /\ \A e \in events : e.by \in 0 .. opened
        /\ opened \in Nat /\ WireType
    BY OpenType DEF TypeInv, SetType, WireType, Event, Notification, CountType, NoEcho
  <1>2. ASSUME \/ \E p \in Paths : \/ OpenFile(p) \/ CreateFile(p)
                                  \/ \E t \in Texts : ShareFile(p, t)
               \/ \E t \in Texts : ShareBuffer(t)
        PROVE  EchoInv'
    <2>1. PICK k : k = opened + 1
      OBVIOUS
    <2>2. /\ Open' = Open \cup {k} /\ \A d \in Open : doc'[d] = doc[d]
          /\ UNCHANGED <<raw, window>> /\ \E p : events' = SavedSince(k, p)
      BY <1>1, <1>2, <2>1, OpeningStep
    <2>3. \A n \in raw : n.by # k
      BY <1>1, <2>1
    <2>4. \A e \in events : e.by # k
      BY <1>1, <2>1
    <2>5. \A n \in raw' : n.by \in Open' => n.by \in window'
      BY <2>2, <2>3 DEF EchoInv
    <2>6. ASSUME NEW x \in events', x.by \in Open', doc'[x.by].canon = x.path
          PROVE  x.by \in x.old
      <3>1. PICK e \in events : x.path = e.path /\ x.by = e.by /\ e.old \subseteq x.old
        BY <1>1, <2>2, SavedMessages
      <3> QED BY <2>2, <2>4, <2>6, <3>1 DEF EchoInv
    <2> QED BY <2>5, <2>6 DEF EchoInv
  <1>3. ASSUME NEW d \in Docs, SaveFile(d) PROVE EchoInv'
    <2>1. /\ Open' = Open /\ raw' = raw \cup Echoes(d) /\ window' = window \cup {d}
          /\ events' = SavedSince(d, doc[d].canon)
          /\ \A x \in Docs : x # d => doc'[x] = doc[x]
          /\ doc'[d] = [doc[d] EXCEPT !.base = doc[d].text] /\ doc[d] \in DocType
      BY <1>3, SaveTypes DEF SaveFile, Notify, JustSaved
    <2>2. \A n \in Echoes(d) : n.by = d
      BY DEF Echoes
    <2>3. \A x \in Open : doc'[x].canon = doc[x].canon
      BY <1>1, <2>1 DEF DocType
    <2>4. \A n \in raw' : n.by \in Open' => n.by \in window'
      BY <2>1, <2>2 DEF EchoInv
    <2>5. ASSUME NEW x \in events', x.by \in Open', doc'[x.by].canon = x.path
          PROVE  x.by \in x.old
      <3>1. PICK e \in events : x.path = e.path /\ x.by = e.by /\ e.old \subseteq x.old
        BY <1>1, <2>1, SavedMessages
      <3> QED BY <2>1, <2>3, <2>5, <3>1 DEF EchoInv
    <2> QED BY <2>4, <2>5 DEF EchoInv
  <1>4. ASSUME NEW d \in Docs, WindowEnds(d) PROVE EchoInv'
    <2>1. /\ UNCHANGED <<doc, events>> /\ window' = window \ {d} /\ raw' = NoEchoOf({d}, raw)
      BY <1>4 DEF WindowEnds
    <2>2. Open' = Open /\ NoEcho \notin Open
      BY <1>1, <2>1 DEF Open
    <2>3. \A x \in raw' : x.by # d /\ (x.by = NoEcho \/ \E n \in raw : n.by = x.by)
      BY <1>1, <2>1, NoEchoNotices DEF WireType, NoEcho, Docs
    <2> QED BY <2>1, <2>2, <2>3 DEF EchoInv
  <1>5. ASSUME NEW n \in raw, HandleNotifyEvent(n) PROVE EchoInv'
    <2>1. PICK x : x = [path |-> n.path, by |-> n.by, old |-> window \cap Canon(n.path)]
      OBVIOUS
    <2>2. /\ UNCHANGED <<doc, window>> /\ raw' \subseteq raw /\ events' \subseteq events \cup {x}
      BY <1>5, <2>1 DEF HandleNotifyEvent
    <2>3. Open' = Open /\ x.path = n.path /\ x.by = n.by /\ x.old = window \cap Canon(n.path)
      BY <2>1, <2>2 DEF Open
    <2>4. x.by \in Open /\ doc[x.by].canon = x.path => x.by \in x.old
      BY <2>3 DEF EchoInv, Canon
    <2> QED BY <2>2, <2>3, <2>4 DEF EchoInv
  <1>6. ASSUME NEW names, NEW delete \in BOOLEAN, CloseFiles(names, delete) PROVE EchoInv'
    <2>1. /\ Open' = Open \ Closed(names) /\ window' = window \ Closed(names)
          /\ \A d \in Docs : d \notin Closed(names) => doc'[d] = doc[d]
          /\ \A x \in raw' : x.by \in Open' => \E n \in raw : n.by = x.by
          /\ \A x \in events' : x.by \in Open' => \E e \in events :
               x.path = e.path /\ x.by = e.by /\ x.old = e.old \ Closed(names)
      BY <1>6, CloseTypes
    <2>2. \A d \in Open' : doc'[d].canon = doc[d].canon
      BY <1>1, <2>1
    <2>3. \A e \in events' : e.by \in Open' => \E x \in events :
            x.path = e.path /\ x.by = e.by /\ x.old \cap Open' \subseteq e.old
      BY <2>1
    <2>4. Open' \subseteq Open /\ window \cap Open' \subseteq window'
      BY <2>1
    <2> QED BY <2>1, <2>2, <2>3, <2>4, KeptEchoes
  <1>7. ASSUME Open' = Open, \A d \in Open : doc'[d].canon = doc[d].canon,
               events' \subseteq events, window' = window, \A n \in raw' \ raw : n.by = NoEcho
        PROVE  EchoInv'
    <2>1. \A n \in raw' : n.by \in Open' => \E x \in raw : x.by = n.by
      BY <1>1, <1>7
    <2>2. \A e \in events' : e.by \in Open' => \E x \in events :
            x.path = e.path /\ x.by = e.by /\ x.old \cap Open' \subseteq e.old
      BY <1>7
    <2> QED BY <1>7, <2>1, <2>2, KeptEchoes
  <1>8. ASSUME \/ \E d \in Docs, t \in Texts : Edit(d, t)
               \/ \E d \in Docs : ResetFromDisk(d)
               \/ \E e \in events : HandleFileChanged(e)
               \/ \E m \in AllMoves : MoveFile(m)
        PROVE  EchoInv'
    <2>1. raw' = raw /\ window' = window /\ events' \subseteq events
      BY <1>8 DEF Edit, ResetFromDisk, HandleFileChanged, MoveFile, watcher
    <2>2. Open' = Open /\ \A d \in Open : doc'[d].canon = doc[d].canon
      <3> DEFINE Kept == Open' = Open /\ \A d \in Open : doc'[d].canon = doc[d].canon
      <3>1. ASSUME NEW p \in Paths, NEW d \in Canon(p), Reset(d, p) PROVE Kept
        BY <1>1, <3>1, ResetStep
      <3>2. ASSUME NEW d \in Docs, ResetFromDisk(d) PROVE Kept
        <4>1. doc[d].canon \in Paths
          BY <3>2, OpenType, FieldTypes DEF TypeInv, ResetFromDisk
        <4>2. PICK e \in Canon(doc[d].canon) : Reset(e, doc[d].canon)
          BY <3>2 DEF ResetFromDisk
        <4> QED BY <3>1, <4>1, <4>2
      <3>3. ASSUME NEW e \in events, HandleFileChanged(e) PROVE Kept
        <4>1. e.path \in Paths
          BY DEF TypeInv, WireType, Event
        <4>2. UNCHANGED doc \/ \E d \in Canon(e.path) : Reset(d, e.path)
          BY <3>3 DEF HandleFileChanged, Ignore
        <4>3. UNCHANGED doc => Kept
          BY DEF Open
        <4> QED BY <3>1, <4>1, <4>2, <4>3
      <3>4. ASSUME NEW d \in Docs, NEW t \in Texts, Edit(d, t) PROVE Kept
        BY <1>1, <3>4, EditTypes
      <3>5. ASSUME NEW m \in AllMoves, MoveFile(m) PROVE Kept
        BY <3>5, MoveTypes
      <3> QED BY <1>8, <3>2, <3>3, <3>4, <3>5
    <2> QED BY <1>7, <2>1, <2>2
  <1>9. ASSUME \/ \E p \in Paths : ShowFile(p) \/ ExternalDelete(p)
               \/ \E p \in Paths, t \in Texts : ExternalWrite(p, t) \/ ExternalReplace(p, t)
               \/ ApplyWatchFiles \/ UNCHANGED vars
        PROVE  EchoInv'
    <2>1. UNCHANGED <<doc, events, window>> /\ \A n \in raw' \ raw : n.by = NoEcho
      BY <1>9 DEF ShowFile, ExternalDelete, ExternalWrite, ExternalReplace, ApplyWatchFiles,
                  watcher, vars, Notify, Notice
    <2>2. Open' = Open
      BY <2>1 DEF Open
    <2> QED BY <1>7, <2>1, <2>2
  <1>10. CASE \E p \in Paths : \/ OpenFile(p) \/ CreateFile(p) \/ ShowFile(p) \/ ExternalDelete(p)
                              \/ \E t \in Texts : \/ ShareFile(p, t) \/ ExternalWrite(p, t)
                                                  \/ ExternalReplace(p, t)
    BY <1>2, <1>9, <1>10
  <1>11. CASE \E t \in Texts : ShareBuffer(t) \/ (\E d \in Docs : Edit(d, t))
    BY <1>2, <1>8, <1>11
  <1>12. CASE \E d \in Docs : SaveFile(d) \/ WindowEnds(d) \/ ResetFromDisk(d)
    BY <1>3, <1>4, <1>8, <1>12
  <1> QED BY <1>5, <1>6, <1>8, <1>9, <1>10, <1>11, <1>12 DEF Next

\* What a step may do to the text of a document while it takes an echo of its
\* save off the queue: nothing.
LEMMA EchoesAreOld ==
    ASSUME TypeInv, EchoInv, [Next]_vars, NEW e \in events \ events', NEW d \in Open,
           e.by = d, doc'[d].name = doc[d].name
    PROVE  doc'[d].text = doc[d].text
  <1>1. d \in Docs /\ doc[d] \in DocType /\ (doc[d].canon = e.path => d \in e.old)
    BY OpenType DEF TypeInv, EchoInv
  <1>2. ASSUME UNCHANGED events PROVE FALSE
    BY <1>2
  <1>3. CASE \/ \E p \in Paths : OpenFile(p) \/ CreateFile(p) \/ (\E t \in Texts : ShareFile(p, t))
             \/ \E t \in Texts : ShareBuffer(t)
    BY <1>1, <1>3, OpeningStep
  <1>4. ASSUME NEW s \in Docs, SaveFile(s) PROVE doc'[d].text = doc[d].text
    <2>1. /\ \A x \in Docs : x # s => doc'[x] = doc[x]
          /\ doc'[s] = [doc[s] EXCEPT !.base = doc[s].text] /\ doc[s] \in DocType
      BY <1>4, SaveTypes
    <2>2. doc'[s].text = doc[s].text
      BY <2>1 DEF DocType
    <2> QED BY <1>1, <2>1, <2>2
  <1>5. ASSUME NEW x \in events, HandleFileChanged(x) PROVE doc'[d].text = doc[d].text
    <2>1. x = e /\ x.path \in Paths
      BY <1>5 DEF HandleFileChanged, TypeInv, WireType, Event
    <2>2. UNCHANGED doc \/ \E y \in Canon(x.path) : y \notin x.old /\ Reset(y, x.path)
      BY <1>5 DEF HandleFileChanged, Ignore
    <2>3. CASE \E y \in Canon(x.path) : y \notin x.old /\ Reset(y, x.path)
      <3>1. PICK y \in Canon(x.path) : y \notin x.old /\ Reset(y, x.path)
        BY <2>3
      <3>2. y # d
        BY <1>1, <2>1, <3>1 DEF Canon
      <3>3. \A z \in Docs : z # y => doc'[z] = doc[z]
        BY <2>1, <3>1, ResetStep
      <3> QED BY <1>1, <3>2, <3>3
    <2> QED BY <2>2, <2>3
  <1>6. ASSUME NEW names, NEW delete \in BOOLEAN, CloseFiles(names, delete)
        PROVE  doc'[d].text = doc[d].text
    <2>1. Open' = Open \ Closed(names) /\ \A x \in Docs : x \notin Closed(names) => doc'[x] = doc[x]
      BY <1>6, CloseTypes
    <2>2. d \in Open'
      BY <1>1 DEF Open
    <2> QED BY <1>1, <2>1, <2>2
  <1>7. ASSUME \/ \E p \in Paths : ShowFile(p) \/ ExternalDelete(p)
               \/ \E p \in Paths, t \in Texts : ExternalWrite(p, t) \/ ExternalReplace(p, t)
               \/ \E x \in Docs : WindowEnds(x) \/ ResetFromDisk(x)
               \/ \E x \in Docs, t \in Texts : Edit(x, t)
               \/ \E m \in AllMoves : MoveFile(m)
               \/ ApplyWatchFiles \/ (\E n \in raw : HandleNotifyEvent(n)) \/ UNCHANGED vars
        PROVE  doc'[d].text = doc[d].text
    <2>1. events \subseteq events'
      BY <1>7 DEF ShowFile, ExternalDelete, ExternalWrite, ExternalReplace, WindowEnds,
                  ResetFromDisk, Edit, MoveFile, ApplyWatchFiles, HandleNotifyEvent, watcher, vars
    <2> QED BY <2>1
  <1>8. CASE \E p \in Paths : \/ OpenFile(p) \/ CreateFile(p) \/ ShowFile(p) \/ ExternalDelete(p)
                              \/ \E t \in Texts : \/ ShareFile(p, t) \/ ExternalWrite(p, t)
                                                  \/ ExternalReplace(p, t)
    BY <1>3, <1>7, <1>8
  <1>9. CASE \E t \in Texts : ShareBuffer(t) \/ (\E x \in Docs : Edit(x, t))
    BY <1>3, <1>7, <1>9
  <1>10. CASE \E x \in Docs : SaveFile(x) \/ WindowEnds(x) \/ ResetFromDisk(x)
    BY <1>4, <1>7, <1>10
  <1> QED BY <1>5, <1>6, <1>7, <1>8, <1>9, <1>10 DEF Next

\* The echo of a save that reaches the watcher within the 100 ms never takes a
\* document back to the text it was saved with, however many edits, saves,
\* moves and resets come before the host handles it.
THEOREM EchoesLeaveTheText == Spec => EchoIsIgnored
  <1>1. Init => EchoInv
    BY InitTypes DEF EchoInv
  <1>2. ASSUME TypeInv, EchoInv, [Next]_vars
        PROVE  [\A e \in events \ events', d \in Open :
                  e.by = d /\ doc'[d].name = doc[d].name => doc'[d].text = doc[d].text]_vars
    BY <1>2, EchoesAreOld
  <1> QED BY <1>1, <1>2, EchoStep, TypeInvariant, PTL DEF Spec, EchoIsIgnored
=============================================================================
