---------------------------- MODULE WorldProofs ----------------------------
(***************************************************************************)
(* Proofs about World, for any number of disturbances and any length of    *)
(* the inboxes: type correctness, ConnectedIsBacked and LiveLinkKept.      *)
(***************************************************************************)
EXTENDS World, TLAPS

Link == [stage : {"none", "ice", "run"}, cur : BOOLEAN, far : {"none", "up", "gone"}]
Msg == [kind : Kinds, cur : BOOLEAN]
Remote == [status : Statuses, ever : BOOLEAN]
Stream == [kind : {"Hey", "Bye"}, cur : BOOLEAN]
Failures == {"FailedToConnect", "ConnectionBroke"}

-----------------------------------------------------------------------------
(* Inboxes *)

\* A message of a sequence after one was appended, or the first was taken.
LEMMA InboxAppend ==
    ASSUME NEW S, NEW q \in Seq(S), NEW m \in S
    PROVE  /\ Append(q, m) \in Seq(S)
           /\ Len(Append(q, m)) = Len(q) + 1
           /\ Append(q, m) # q
           /\ Range(Append(q, m)) = Range(q) \cup {m}
  <1>1. /\ Append(q, m) \in Seq(S)
        /\ Len(Append(q, m)) = Len(q) + 1 /\ Len(q) \in Nat
        /\ \A i \in 1 .. Len(q) : Append(q, m)[i] = q[i]
        /\ Append(q, m)[Len(q) + 1] = m
        /\ DOMAIN q = 1 .. Len(q) /\ DOMAIN Append(q, m) = 1 .. (Len(q) + 1)
    OBVIOUS
  <1>2. ASSUME Append(q, m) = q PROVE FALSE
    <2>1. Len(q) + 1 = Len(q)
      BY <1>1, <1>2, Zenon
    <2> QED BY <1>1, <2>1
  <1>3. Range(Append(q, m)) = Range(q) \cup {m}
    <2>1. ASSUME NEW x \in Range(Append(q, m)) PROVE x \in Range(q) \cup {m}
      BY <1>1, <2>1 DEF Range
    <2>2. ASSUME NEW x \in Range(q) \cup {m} PROVE x \in Range(Append(q, m))
      BY <1>1, <2>2 DEF Range
    <2> QED BY <2>1, <2>2
  <1> QED BY <1>1, <1>2, <1>3

LEMMA InboxTail ==
    ASSUME NEW S, NEW q \in Seq(S), q # <<>>
    PROVE  /\ Tail(q) \in Seq(S) /\ Head(q) \in S
           /\ Len(Tail(q)) = Len(q) - 1 /\ Len(q) \in Nat \ {0}
           /\ Range(q) = Range(Tail(q)) \cup {Head(q)}
  <1>1. /\ Tail(q) \in Seq(S) /\ Head(q) \in S /\ Head(q) = q[1]
        /\ Len(Tail(q)) = Len(q) - 1 /\ Len(q) \in Nat \ {0}
        /\ \A i \in 1 .. Len(q) - 1 : Tail(q)[i] = q[i + 1]
        /\ DOMAIN q = 1 .. Len(q) /\ DOMAIN Tail(q) = 1 .. (Len(q) - 1)
    OBVIOUS
  <1>2. ASSUME NEW x \in Range(q) PROVE x \in Range(Tail(q)) \cup {Head(q)}
    <2>1. PICK i \in 1 .. Len(q) : x = q[i]
      BY <1>1, <1>2 DEF Range
    <2>2. CASE i = 1
      BY <1>1, <2>1, <2>2
    <2>3. CASE i # 1
      <3>1. i - 1 \in 1 .. Len(q) - 1 /\ Tail(q)[i - 1] = q[i]
        BY <1>1, <2>3
      <3> QED BY <1>1, <2>1, <3>1 DEF Range
    <2> QED BY <2>2, <2>3
  <1>3. ASSUME NEW x \in Range(Tail(q)) \cup {Head(q)} PROVE x \in Range(q)
    BY <1>1, <1>3 DEF Range
  <1> QED BY <1>1, <1>2, <1>3

\* A message of the inbox of an old attempt.
LEMMA InboxAged ==
    ASSUME NEW q \in Seq(Msg), NEW p,
           p = [i \in DOMAIN q |-> [q[i] EXCEPT !.cur = FALSE]]
    PROVE  p \in Seq(Msg) /\ Len(p) = Len(q) /\ \A m \in Range(p) : m \in Msg /\ ~m.cur
  <1>1. DOMAIN q = 1 .. Len(q) /\ Len(q) \in Nat /\ \A i \in 1 .. Len(q) : q[i] \in Msg
    OBVIOUS
  <1>2. \A i \in 1 .. Len(q) : p[i] \in Msg /\ p[i].cur = FALSE
    BY <1>1 DEF Msg
  <1>3. p \in [1 .. Len(q) -> Msg]
    BY <1>1, <1>2
  <1>4. p \in Seq(Msg) /\ Len(p) = Len(q)
    BY <1>1, <1>3
  <1> QED BY <1>1, <1>2, <1>4 DEF Range

-----------------------------------------------------------------------------
(* Type correctness *)

\* disconnect: the link of h is gone; the links of others lose at most their
\* knowledge of the far end.
LEMMA Dropped ==
    ASSUME link \in [Hosts -> Link], NEW h \in Hosts, link' = Drop(link, h)
    PROVE  /\ link' \in [Hosts -> Link]
           /\ link'[h].stage = "none" /\ link'[h].cur = FALSE
           /\ \A g \in Hosts \ {h} :
                link'[g].stage = link[g].stage /\ link'[g].cur = link[g].cur
  <1>1. NoLink \in Link /\ NoLink.stage = "none" /\ NoLink.cur = FALSE
    BY DEF NoLink, Link
  <1>2. \A g \in Hosts : link[g] \in Link
    OBVIOUS
  <1>3. \A x \in Link : /\ [x EXCEPT !.far = "gone"] \in Link
                        /\ [x EXCEPT !.far = "gone"].stage = x.stage
                        /\ [x EXCEPT !.far = "gone"].cur = x.cur
    BY DEF Link
  <1> QED BY <1>1, <1>2, <1>3 DEF Drop

\* A message that is queued.
LEMMA Queued ==
    ASSUME inbox \in [Hosts -> Seq(Msg)], \A g \in Hosts : Len(inbox[g]) <= MaxInbox,
           NEW h \in Hosts, NEW kind \in Kinds, NEW cur \in BOOLEAN, Queue(h, kind, cur)
    PROVE  /\ inbox' \in [Hosts -> Seq(Msg)] /\ \A g \in Hosts : Len(inbox'[g]) <= MaxInbox
           /\ inbox'[h] # inbox[h]
           /\ Range(inbox'[h]) = Range(inbox[h]) \cup {[kind |-> kind, cur |-> cur]}
           /\ \A g \in Hosts \ {h} : inbox'[g] = inbox[g]
  <1>1. [kind |-> kind, cur |-> cur] \in Msg
    BY DEF Msg
  <1>2. inbox'[h] = Append(inbox[h], [kind |-> kind, cur |-> cur])
        /\ \A g \in Hosts \ {h} : inbox'[g] = inbox[g]
    BY DEF Queue
  <1>3. inbox' = [inbox EXCEPT ![h] = Append(@, [kind |-> kind, cur |-> cur])]
        /\ Len(inbox[h]) < MaxInbox
    BY DEF Queue
  <1>4. /\ Append(inbox[h], [kind |-> kind, cur |-> cur]) \in Seq(Msg)
        /\ Len(Append(inbox[h], [kind |-> kind, cur |-> cur])) = Len(inbox[h]) + 1
        /\ Append(inbox[h], [kind |-> kind, cur |-> cur]) # inbox[h]
        /\ Range(Append(inbox[h], [kind |-> kind, cur |-> cur]))
             = Range(inbox[h]) \cup {[kind |-> kind, cur |-> cur]}
    BY <1>1, InboxAppend
  <1>5. Len(inbox[h]) \in Nat /\ MaxInbox \in Nat
    BY BoundsAssumption
  <1> QED BY <1>2, <1>3, <1>4, <1>5

\* TypeOK with the sets of this module.
LEMMA Types ==
    TypeOK <=>
      /\ ideal \in [Hosts -> BOOLEAN] /\ trust \in [Hosts -> BOOLEAN] /\ late \in [Hosts -> BOOLEAN]
      /\ remote \in [Hosts -> Remote]
      /\ bound \in [Hosts -> {"bound", "lost", "unbound"}]
      /\ sig \in [Hosts -> SUBSET BOOLEAN] /\ task \in [Hosts -> SUBSET BOOLEAN]
      /\ link \in [Hosts -> Link]
      /\ wire \in [Hosts -> SUBSET {"Hey", "Bye"}]
      /\ reading \in [Hosts -> SUBSET Stream]
      /\ inbox \in [Hosts -> Seq(Msg)] /\ \A h \in Hosts : Len(inbox[h]) <= MaxInbox
      /\ faults \in 0 .. MaxFaults
  BY DEF TypeOK, Remote, Link, Stream, Msg

LEMMA FaultType ==
    ASSUME faults \in 0 .. MaxFaults, NEW h \in Hosts, Fault(h)
    PROVE  faults' \in 0 .. MaxFaults
  BY BoundsAssumption DEF Fault

LEMMA RecordTypes ==
    /\ NoRemote \in Remote /\ NoLink \in Link
    /\ \A r \in Remote : /\ Broken(r) \in Remote /\ Broken(r).status \in {"Disconnected", "Failed"}
                         /\ MarkFailed(r) \in Remote
                         /\ MarkFailed(r).status \in {"none", "Failed"}
                         /\ \A s \in Statuses : [r EXCEPT !.status = s] \in Remote
                                                /\ [r EXCEPT !.status = s].status = s
    /\ \A x \in Link : \A y \in BOOLEAN : /\ [x EXCEPT !.cur = y] \in Link
                                          /\ [x EXCEPT !.cur = y].cur = y
                                          /\ [x EXCEPT !.cur = y].stage = x.stage
    /\ \A m \in Stream : [m EXCEPT !.cur = FALSE] \in Stream
    /\ \A S \in SUBSET Stream : Aged(S) \in SUBSET Stream
  <1>1. NoRemote \in Remote /\ NoLink \in Link
    BY DEF NoRemote, NoLink, Remote, Link, Statuses
  <1>2. ASSUME NEW r \in Remote
        PROVE /\ Broken(r) \in Remote /\ Broken(r).status \in {"Disconnected", "Failed"}
              /\ MarkFailed(r) \in Remote
              /\ MarkFailed(r).status \in {"none", "Failed"}
              /\ \A s \in Statuses : [r EXCEPT !.status = s] \in Remote
                                     /\ [r EXCEPT !.status = s].status = s
    BY DEF Broken, MarkFailed, Remote, Statuses
  <1>3. \A x \in Link : \A y \in BOOLEAN : /\ [x EXCEPT !.cur = y] \in Link
                                          /\ [x EXCEPT !.cur = y].cur = y
                                          /\ [x EXCEPT !.cur = y].stage = x.stage
    BY DEF Link
  <1>4. \A m \in Stream : [m EXCEPT !.cur = FALSE] \in Stream
    BY DEF Stream
  <1>5. \A S \in SUBSET Stream : Aged(S) \in SUBSET Stream
    BY <1>4 DEF Aged
  <1> QED BY <1>1, <1>2, <1>3, <1>4, <1>5

\* The status of one entry changes.
LEMMA StatusChanged ==
    ASSUME remote \in [Hosts -> Remote], NEW h \in Hosts, NEW s \in Statuses,
           remote' = [remote EXCEPT ![h].status = s]
    PROVE  /\ remote' \in [Hosts -> Remote] /\ remote'[h].status = s
           /\ \A g \in Hosts \ {h} : remote'[g] = remote[g]
  <1> DEFINE r == [remote[h] EXCEPT !.status = s]
  <1>1. remote[h] \in Remote
    OBVIOUS
  <1>2. r \in Remote /\ r.status = s
    BY <1>1 DEF Remote
  <1>3. remote' = [remote EXCEPT ![h] = r]
    OBVIOUS
  <1> HIDE DEF r
  <1> QED BY <1>2, <1>3

\* A new id leaves messages of old attempts only.
LEMMA NewIdAges ==
    ASSUME TypeOK, NEW h \in Hosts, NewId(h)
    PROVE  /\ reading' \in [Hosts -> SUBSET Stream]
           /\ inbox' \in [Hosts -> Seq(Msg)] /\ \A g \in Hosts : Len(inbox'[g]) <= MaxInbox
           /\ \A m \in Range(inbox'[h]) : ~m.cur
           /\ \A g \in Hosts \ {h} : inbox'[g] = inbox[g]
  <1>1. /\ reading \in [Hosts -> SUBSET Stream] /\ inbox \in [Hosts -> Seq(Msg)]
        /\ \A g \in Hosts : Len(inbox[g]) <= MaxInbox
    BY Types
  <1>2. reading' \in [Hosts -> SUBSET Stream]
    BY <1>1, RecordTypes DEF NewId
  <1> DEFINE p == [i \in DOMAIN inbox[h] |-> [inbox[h][i] EXCEPT !.cur = FALSE]]
  <1>3. inbox[h] \in Seq(Msg)
    BY <1>1
  <1>4. p \in Seq(Msg) /\ Len(p) = Len(inbox[h]) /\ \A m \in Range(p) : ~m.cur
    BY <1>3, InboxAged
  <1>5. inbox' = [inbox EXCEPT ![h] = p]
    BY DEF NewId
  <1> HIDE DEF p
  <1> QED BY <1>1, <1>2, <1>4, <1>5

-----------------------------------------------------------------------------
(* The inductive invariant *)

\* The report of the end of h's current attempt is queued.
Reported(h) == \E m \in Range(inbox[h]) : m.cur /\ m.kind \in Failures

\* At most one thing carries the id of h's current attempt: the task that
\* waits for its transport, the live link, or the report of its end.
OneAttempt(h) ==
    /\ link[h].cur => TRUE \notin task[h] /\ ~Reported(h)
    /\ TRUE \in task[h] => ~Reported(h)

Backing(h) == remote[h].status = "Connected" /\ ~late[h] => Backed(h, inbox[h])

HostInv(h) == OneAttempt(h) /\ Backing(h)

WorldInv == TypeOK /\ \A h \in Hosts : HostInv(h)

\* LiveLinkKept for one host, and what a step of another host leaves alone.
Keeps(h) ==
    (remote[h].status = "Connected" /\ link[h].stage = "run" /\ link[h].cur)
      => \/ remote'[h].status = "Connected" /\ (link'[h].cur \/ inbox'[h] # inbox[h])
         \/ Taken(h, {"Bye"})
         \/ ~ideal'[h]

Alone(h) ==
    /\ remote'[h].status = remote[h].status
    /\ link'[h].stage = link[h].stage /\ link'[h].cur = link[h].cur
    /\ task'[h] = task[h] /\ inbox'[h] = inbox[h] /\ late'[h] = late[h]

LEMMA AloneKeeps ==
    ASSUME NEW h \in Hosts, HostInv(h), Alone(h)
    PROVE  HostInv(h)' /\ Keeps(h)
  BY DEF HostInv, OneAttempt, Backing, Backed, Reported, Alone, Keeps

\* What a step of h shows.
Good(h) == TypeOK' /\ HostInv(h)' /\ Keeps(h) /\ \A g \in Hosts \ {h} : Alone(g)

\* A step that disturbs nothing the invariant reads.
LEMMA Quiet ==
    ASSUME WorldInv, NEW h \in Hosts, TypeOK', \A g \in Hosts : Alone(g)
    PROVE  Good(h)
  BY AloneKeeps DEF Good, WorldInv

-----------------------------------------------------------------------------
(* The editor and fix_world *)

LEMMA EditorConnectStep ==
    ASSUME WorldInv, NEW h \in Hosts, EditorConnect(h) PROVE Good(h)
  <1>1. TypeOK'
    <2>1. faults' \in 0 .. MaxFaults
      BY Types, FaultType DEF EditorConnect, WorldInv
    <2>2. ideal' \in [Hosts -> BOOLEAN]
      BY Types DEF EditorConnect, WorldInv
    <2>3. remote' \in [Hosts -> Remote]
      <3> DEFINE s == IF remote[h].status = "Failed" THEN "Pending" ELSE remote[h].status
      <3>1. remote \in [Hosts -> Remote]
        BY Types DEF WorldInv
      <3>2. s \in Statuses
        BY <3>1 DEF Remote, Statuses
      <3>3. remote' = [remote EXCEPT ![h].status = s]
        BY DEF EditorConnect
      <3> HIDE DEF s
      <3> QED BY <3>1, <3>2, <3>3, RecordTypes
    <2> QED BY <2>1, <2>2, <2>3, Types DEF EditorConnect, WorldInv, TypeOK, Remote
  <1>2. remote'[h].status = "Connected" <=> remote[h].status = "Connected"
    BY Types DEF EditorConnect, WorldInv, Remote
  <1>3. HostInv(h)' /\ Keeps(h)
    BY <1>2 DEF EditorConnect, WorldInv, HostInv, OneAttempt, Backing, Backed, Reported, Keeps
  <1>4. \A g \in Hosts \ {h} : Alone(g)
    BY Types DEF EditorConnect, WorldInv, Alone
  <1> QED BY <1>1, <1>3, <1>4 DEF Good

LEMMA UpdateConfigStep ==
    ASSUME WorldInv, NEW h \in Hosts, UpdateConfig(h) PROVE Good(h)
  <1>1. TypeOK'
    BY FaultType DEF UpdateConfig, WorldInv, TypeOK
  <1>2. \A g \in Hosts : Alone(g)
    BY DEF UpdateConfig, Alone
  <1> QED BY <1>1, <1>2, Quiet

\* A new attempt, or a new answer to one: only its task may carry the new id.
LEMMA NewAttempt ==
    ASSUME WorldInv, NEW h \in Hosts, NewId(h),
           NEW s \in Statuses \ {"Connected"},
           remote' = [remote EXCEPT ![h].status = s],
           NEW T \in SUBSET BOOLEAN, task' = [task EXCEPT ![h] = T],
           link' = [link EXCEPT ![h].cur = FALSE],
           remote[h].status # "Connected",
           UNCHANGED late
    PROVE  /\ remote' \in [Hosts -> Remote] /\ link' \in [Hosts -> Link]
           /\ task' \in [Hosts -> SUBSET BOOLEAN]
           /\ HostInv(h)' /\ Keeps(h) /\ \A g \in Hosts \ {h} : Alone(g)
  <1>1. /\ remote \in [Hosts -> Remote] /\ link \in [Hosts -> Link]
        /\ task \in [Hosts -> SUBSET BOOLEAN]
    BY Types DEF WorldInv
  <1>2. /\ remote' \in [Hosts -> Remote] /\ remote'[h].status = s
        /\ \A g \in Hosts \ {h} : remote'[g] = remote[g]
    BY <1>1, StatusChanged
  <1>3. /\ link' \in [Hosts -> Link] /\ ~link'[h].cur
        /\ \A g \in Hosts \ {h} : link'[g] = link[g]
    BY <1>1, RecordTypes
  <1>4. task' \in [Hosts -> SUBSET BOOLEAN] /\ \A g \in Hosts \ {h} : task'[g] = task[g]
    BY <1>1
  <1>5. (\A m \in Range(inbox'[h]) : ~m.cur) /\ \A g \in Hosts \ {h} : inbox'[g] = inbox[g]
    BY NewIdAges DEF WorldInv
  <1>6. HostInv(h)'
    BY <1>2, <1>3, <1>5 DEF HostInv, OneAttempt, Backing, Reported
  <1>7. Keeps(h) /\ \A g \in Hosts \ {h} : Alone(g)
    BY <1>2, <1>3, <1>4, <1>5 DEF Keeps, Alone
  <1> QED BY <1>2, <1>3, <1>4, <1>6, <1>7

LEMMA OldTasksType ==
    ASSUME NEW h \in Hosts
    PROVE  OldTasks(h) \in SUBSET BOOLEAN /\ OldTasks(h) \cup {TRUE} \in SUBSET BOOLEAN
  BY DEF OldTasks

LEMMA FixWorldConnectStep ==
    ASSUME WorldInv, NEW h \in Hosts, FixWorldConnect(h) \/ FixWorldSendFails(h) PROVE Good(h)
  <1>1. CASE FixWorldConnect(h)
    <2>1. /\ remote' = [remote EXCEPT ![h].status = "Stage1"]
          /\ NewId(h) /\ task' = [task EXCEPT ![h] = OldTasks(h)]
          /\ link' = [link EXCEPT ![h].cur = FALSE] /\ UNCHANGED late
          /\ remote[h].status # "Connected"
          /\ "Stage1" \in Statuses \ {"Connected"}
      BY <1>1 DEF FixWorldConnect, Wanted, Statuses
    <2>2. sig' \in [Hosts -> SUBSET BOOLEAN] /\ faults' \in 0 .. MaxFaults
      <3>1. sig \in [Hosts -> SUBSET BOOLEAN] /\ faults \in 0 .. MaxFaults
        BY Types DEF WorldInv
      <3>2. sig' \in [Hosts -> SUBSET BOOLEAN]
        BY <1>1, <3>1 DEF FixWorldConnect
      <3>3. Fault(h) \/ UNCHANGED faults
        BY <1>1 DEF FixWorldConnect
      <3> QED BY <3>1, <3>2, <3>3, FaultType
    <2>3. /\ remote' \in [Hosts -> Remote] /\ link' \in [Hosts -> Link]
          /\ task' \in [Hosts -> SUBSET BOOLEAN]
          /\ HostInv(h)' /\ Keeps(h) /\ \A g \in Hosts \ {h} : Alone(g)
      BY <2>1, NewAttempt, OldTasksType
    <2>4. TypeOK'
      BY <1>1, <2>1, <2>2, <2>3, NewIdAges
         DEF FixWorldConnect, WorldInv, TypeOK, Remote, Link, Stream, Msg
    <2> QED BY <2>3, <2>4 DEF Good
  <1>2. CASE FixWorldSendFails(h)
    <2>1. /\ remote' = [remote EXCEPT ![h].status = "Failed"]
          /\ NewId(h) /\ task' = [task EXCEPT ![h] = OldTasks(h)]
          /\ link' = [link EXCEPT ![h].cur = FALSE] /\ UNCHANGED late
          /\ remote[h].status # "Connected"
          /\ "Failed" \in Statuses \ {"Connected"}
      BY <1>2 DEF FixWorldSendFails, Wanted, Statuses
    <2>2. /\ remote' \in [Hosts -> Remote] /\ link' \in [Hosts -> Link]
          /\ task' \in [Hosts -> SUBSET BOOLEAN]
          /\ HostInv(h)' /\ Keeps(h) /\ \A g \in Hosts \ {h} : Alone(g)
      BY <2>1, NewAttempt, OldTasksType
    <2>3. TypeOK'
      BY <1>2, <2>1, <2>2, NewIdAges
         DEF FixWorldSendFails, WorldInv, TypeOK, Remote, Link, Stream, Msg
    <2> QED BY <2>2, <2>3 DEF Good
  <1> QED BY <1>1, <1>2

LEMMA FixWorldPendStep ==
    ASSUME WorldInv, NEW h \in Hosts, FixWorldPend(h) PROVE Good(h)
  <1>1. remote \in [Hosts -> Remote] /\ remote[h].status # "Connected"
    BY Types DEF WorldInv, FixWorldPend, Wanted
  <1>2. /\ remote' \in [Hosts -> Remote] /\ remote'[h].status = "Pending"
        /\ \A g \in Hosts \ {h} : remote'[g] = remote[g]
    <2>1. remote' = [remote EXCEPT ![h].status = "Pending"] /\ "Pending" \in Statuses
      BY DEF FixWorldPend, Statuses
    <2> QED BY <1>1, <2>1, StatusChanged
  <1>3. TypeOK'
    BY <1>2 DEF FixWorldPend, WorldInv, TypeOK, Remote
  <1>4. HostInv(h)' /\ Keeps(h)
    BY <1>1, <1>2 DEF FixWorldPend, WorldInv, HostInv, OneAttempt, Backing, Reported, Keeps
  <1>5. \A g \in Hosts \ {h} : Alone(g)
    BY <1>2 DEF FixWorldPend, Alone
  <1> QED BY <1>3, <1>4, <1>5 DEF Good

LEMMA FixWorldTimeoutStep ==
    ASSUME WorldInv, NEW h \in Hosts, FixWorldTimeout(h) PROVE Good(h)
  <1>1. /\ remote \in [Hosts -> Remote] /\ link \in [Hosts -> Link]
        /\ wire \in [Hosts -> SUBSET {"Hey", "Bye"}]
        /\ remote[h].status # "Connected"
    BY Types DEF WorldInv, FixWorldTimeout
  <1>2. /\ remote' \in [Hosts -> Remote] /\ remote'[h].status # "Connected"
        /\ \A g \in Hosts \ {h} : remote'[g] = remote[g]
    BY <1>1, RecordTypes DEF FixWorldTimeout
  <1>3. /\ link' \in [Hosts -> Link] /\ link'[h].cur = FALSE
        /\ \A g \in Hosts \ {h} : link'[g].stage = link[g].stage /\ link'[g].cur = link[g].cur
    BY <1>1, Dropped DEF FixWorldTimeout, Disconnect
  <1>4. wire' \in [Hosts -> SUBSET {"Hey", "Bye"}] /\ faults' \in 0 .. MaxFaults
    BY <1>1, Types, FaultType DEF FixWorldTimeout, Disconnect, WorldInv
  <1>5. TypeOK'
    BY <1>2, <1>3, <1>4, Types DEF FixWorldTimeout, WorldInv, TypeOK, Remote, Link
  <1>6. HostInv(h)' /\ Keeps(h)
    BY <1>1, <1>2, <1>3
       DEF FixWorldTimeout, WorldInv, HostInv, OneAttempt, Backing, Reported, Keeps
  <1>7. \A g \in Hosts \ {h} : Alone(g)
    BY <1>2, <1>3 DEF FixWorldTimeout, Alone
  <1> QED BY <1>5, <1>6, <1>7 DEF Good

-----------------------------------------------------------------------------
(* Signaling *)

LEMMA HandleConnectStep ==
    ASSUME WorldInv, NEW h \in Hosts, NEW i \in BOOLEAN, HandleConnect(h, i) PROVE Good(h)
  <1> DEFINE s == IF i /\ bound[h] # "bound" THEN "Failed" ELSE "Stage2"
             T == OldTasks(h) \cup {TRUE}
  <1>1. s \in Statuses \ {"Connected"} /\ T \in SUBSET BOOLEAN
    BY OldTasksType DEF Statuses
  <1>2. /\ remote' = [remote EXCEPT ![h].status = s]
        /\ NewId(h) /\ task' = [task EXCEPT ![h] = T]
        /\ link' = [link EXCEPT ![h].cur = FALSE] /\ UNCHANGED late
        /\ remote[h].status # "Connected"
    BY DEF HandleConnect
  <1>3. ideal' \in [Hosts -> BOOLEAN] /\ sig' \in [Hosts -> SUBSET BOOLEAN]
    <2>1. ideal \in [Hosts -> BOOLEAN] /\ sig \in [Hosts -> SUBSET BOOLEAN]
      BY Types DEF WorldInv
    <2>2. ideal' \in [Hosts -> BOOLEAN]
      BY <2>1 DEF HandleConnect
    <2>3. sig' \in [Hosts -> SUBSET BOOLEAN]
      <3>1. PICK p, S : /\ sig' = [sig EXCEPT ![h] = @ \ {i}, ![p] = S]
                        /\ S \in {sig[p] \cup {FALSE}, sig[p]}
        BY DEF HandleConnect
      <3> QED BY <2>1, <3>1
    <2> QED BY <2>2, <2>3
  <1> HIDE DEF s, T
  <1>4. /\ remote' \in [Hosts -> Remote] /\ link' \in [Hosts -> Link]
        /\ task' \in [Hosts -> SUBSET BOOLEAN]
        /\ HostInv(h)' /\ Keeps(h) /\ \A g \in Hosts \ {h} : Alone(g)
    BY <1>1, <1>2, NewAttempt
  <1>5. TypeOK'
    BY <1>2, <1>3, <1>4, NewIdAges
       DEF HandleConnect, WorldInv, TypeOK, Remote, Link, Stream, Msg
  <1> QED BY <1>4, <1>5 DEF Good

LEMMA IgnoreConnectStep ==
    ASSUME WorldInv, NEW h \in Hosts, NEW i \in BOOLEAN, IgnoreConnect(h, i) PROVE Good(h)
  <1>1. TypeOK'
    BY DEF IgnoreConnect, WorldInv, TypeOK
  <1>2. \A g \in Hosts : Alone(g)
    BY DEF IgnoreConnect, Alone
  <1> QED BY <1>1, <1>2, Quiet

LEMMA RefuseConnectStep ==
    ASSUME WorldInv, NEW h \in Hosts, NEW i \in BOOLEAN, RefuseConnect(h, i) PROVE Good(h)
  <1>1. remote \in [Hosts -> Remote] /\ remote[h].status # "Connected"
    BY Types DEF WorldInv, RefuseConnect
  <1>2. /\ remote' \in [Hosts -> Remote] /\ remote'[h].status # "Connected"
        /\ \A g \in Hosts \ {h} : remote'[g] = remote[g]
    BY <1>1, RecordTypes DEF RefuseConnect
  <1>3. TypeOK'
    BY <1>2 DEF RefuseConnect, WorldInv, TypeOK, Remote
  <1>4. HostInv(h)' /\ Keeps(h)
    BY <1>1, <1>2 DEF RefuseConnect, WorldInv, HostInv, OneAttempt, Backing, Reported, Keeps
  <1>5. \A g \in Hosts \ {h} : Alone(g)
    BY <1>2 DEF RefuseConnect, Alone
  <1> QED BY <1>3, <1>4, <1>5 DEF Good

LEMMA SignalingEndsStep ==
    ASSUME WorldInv, NEW h \in Hosts, SignalingEnds(h) \/ SignalingStatus(h) PROVE Good(h)
  <1>1. TypeOK'
    <2>1. CASE SignalingEnds(h)
      <3>1. bound \in [Hosts -> {"bound", "lost", "unbound"}] /\ sig \in [Hosts -> SUBSET BOOLEAN]
            /\ faults \in 0 .. MaxFaults
        BY Types DEF WorldInv
      <3>2. bound' \in [Hosts -> {"bound", "lost", "unbound"}] /\ faults' \in 0 .. MaxFaults
        BY <2>1, <3>1, FaultType DEF SignalingEnds
      <3>3. sig' \in [Hosts -> SUBSET BOOLEAN]
        <4>1. PICK kept \in {sig[h], {}} : sig' = [sig EXCEPT ![h] = kept]
          BY <2>1 DEF SignalingEnds
        <4>2. kept \in SUBSET BOOLEAN
          BY <3>1
        <4> QED BY <3>1, <4>1, <4>2
      <3> QED BY <2>1, <3>2, <3>3 DEF SignalingEnds, WorldInv, TypeOK
    <2>2. CASE SignalingStatus(h)
      BY <2>2 DEF SignalingStatus, WorldInv, TypeOK
    <2> QED BY <2>1, <2>2
  <1>2. \A g \in Hosts : Alone(g)
    BY DEF SignalingEnds, SignalingStatus, Alone
  <1> QED BY <1>1, <1>2, Quiet

-----------------------------------------------------------------------------
(* Connect tasks, actors and streams *)

LEMMA InsertHandleStep ==
    ASSUME WorldInv, NEW h \in Hosts, NEW c \in BOOLEAN, InsertHandle(h, c) PROVE Good(h)
  <1>1. link \in [Hosts -> Link] /\ task \in [Hosts -> SUBSET BOOLEAN]
    BY Types DEF WorldInv
  <1>2. /\ link' \in [Hosts -> Link] /\ link'[h].cur = c /\ link[h].stage = "none"
        /\ \A g \in Hosts \ {h} : link'[g] = link[g]
    BY <1>1 DEF InsertHandle, Link
  <1>3. /\ task' \in [Hosts -> SUBSET BOOLEAN] /\ c \in task[h]
        /\ task'[h] = task[h] \ {c}
        /\ \A g \in Hosts \ {h} : task'[g] = task[g]
    BY <1>1 DEF InsertHandle
  <1>4. TypeOK'
    BY <1>2, <1>3 DEF InsertHandle, WorldInv, TypeOK, Link
  <1>5. OneAttempt(h)'
    BY <1>2, <1>3 DEF InsertHandle, WorldInv, HostInv, OneAttempt, Reported
  <1>6. Backing(h)' /\ Keeps(h)
    BY <1>2 DEF InsertHandle, WorldInv, HostInv, Backing, Backed, Keeps
  <1>7. \A g \in Hosts \ {h} : Alone(g)
    BY <1>2, <1>3 DEF InsertHandle, Alone
  <1> QED BY <1>4, <1>5, <1>6, <1>7 DEF Good, HostInv

LEMMA NoTransportStep ==
    ASSUME WorldInv, NEW h \in Hosts, NEW c \in BOOLEAN, NoTransport(h, c) PROVE Good(h)
  <1>1. /\ link \in [Hosts -> Link] /\ task \in [Hosts -> SUBSET BOOLEAN]
        /\ inbox \in [Hosts -> Seq(Msg)] /\ \A g \in Hosts : Len(inbox[g]) <= MaxInbox
    BY Types DEF WorldInv
  <1>2. /\ inbox' \in [Hosts -> Seq(Msg)] /\ \A g \in Hosts : Len(inbox'[g]) <= MaxInbox
        /\ Range(inbox'[h]) = Range(inbox[h]) \cup {[kind |-> "FailedToConnect", cur |-> c]}
        /\ \A g \in Hosts \ {h} : inbox'[g] = inbox[g]
    BY <1>1, Queued DEF NoTransport, Kinds
  <1>3. /\ task' \in [Hosts -> SUBSET BOOLEAN] /\ c \in task[h]
        /\ task'[h] = task[h] \ {c}
        /\ \A g \in Hosts \ {h} : task'[g] = task[g]
    BY <1>1 DEF NoTransport
  <1>4. TypeOK'
    BY <1>2, <1>3 DEF NoTransport, WorldInv, TypeOK, Msg
  <1>5. OneAttempt(h)'
    <2>1. OneAttempt(h) /\ link'[h].cur = link[h].cur /\ link[h].cur \in BOOLEAN
      BY <1>1 DEF NoTransport, WorldInv, HostInv, Link
    <2>2. CASE c = TRUE
      BY <1>3, <2>1, <2>2 DEF OneAttempt
    <2>3. CASE c = FALSE
      <3>1. Reported(h)' <=> Reported(h)
        BY <1>2, <2>3 DEF Reported
      <3> QED BY <1>3, <2>1, <3>1 DEF OneAttempt
    <2> QED BY <2>2, <2>3
  <1>6. Backing(h)' /\ Keeps(h)
    BY <1>2 DEF NoTransport, WorldInv, HostInv, Backing, Backed, Keeps
  <1>7. \A g \in Hosts \ {h} : Alone(g)
    BY <1>2, <1>3 DEF NoTransport, Alone
  <1> QED BY <1>4, <1>5, <1>6, <1>7 DEF Good, HostInv

LEMMA EstablishStep ==
    ASSUME WorldInv, NEW h \in Hosts, Establish(h) PROVE Good(h)
  <1>1. link \in [Hosts -> Link] /\ wire \in [Hosts -> SUBSET {"Hey", "Bye"}]
    BY Types DEF WorldInv
  <1>2. /\ link' \in [Hosts -> Link] /\ link[h].stage = "ice" /\ link'[h].stage = "run"
        /\ link'[h].cur = link[h].cur
        /\ \A g \in Hosts \ {h} : link'[g].stage = link[g].stage /\ link'[g].cur = link[g].cur
    <2> DEFINE e == [link EXCEPT ![h].stage = "run", ![h].far = "up"]
    <2>1. /\ e \in [Hosts -> Link] /\ e[h].stage = "run" /\ e[h].cur = link[h].cur
          /\ \A g \in Hosts \ {h} : e[g] = link[g]
      BY <1>1 DEF Link
    <2>2. link' = [e EXCEPT ![Peer(h)].far = "up"] /\ link[h].stage = "ice"
      BY <1>1, <2>1 DEF Establish
    <2> HIDE DEF e
    <2>3. \A x \in Link : /\ [x EXCEPT !.far = "up"] \in Link
                          /\ [x EXCEPT !.far = "up"].stage = x.stage
                          /\ [x EXCEPT !.far = "up"].cur = x.cur
      BY DEF Link
    <2>4. \A g \in Hosts : link'[g] = IF g = Peer(h) THEN [e[g] EXCEPT !.far = "up"] ELSE e[g]
      BY <2>1, <2>2
    <2>5. link' \in [Hosts -> Link]
      BY <2>1, <2>2, <2>3
    <2> QED BY <2>1, <2>2, <2>3, <2>4, <2>5
  <1>3. wire' \in [Hosts -> SUBSET {"Hey", "Bye"}]
    BY <1>1 DEF Establish
  <1>4. TypeOK'
    BY <1>2, <1>3 DEF Establish, WorldInv, TypeOK, Link
  <1>5. HostInv(h)' /\ Keeps(h)
    BY <1>2 DEF Establish, WorldInv, HostInv, OneAttempt, Reported, Backing, Backed, Keeps
  <1>6. \A g \in Hosts \ {h} : Alone(g)
    BY <1>2 DEF Establish, Alone
  <1> QED BY <1>4, <1>5, <1>6 DEF Good

\* The link of h ends with a report in the inbox.
LEMMA ReportedEnd ==
    ASSUME WorldInv, NEW h \in Hosts, NEW kind \in Failures,
           Queue(h, kind, link[h].cur), Disconnect(h), link[h].stage # "none",
           link[h].stage = "run" => kind = "ConnectionBroke",
           UNCHANGED <<remote, task, late>>
    PROVE  /\ link' \in [Hosts -> Link] /\ wire' \in [Hosts -> SUBSET {"Hey", "Bye"}]
           /\ inbox' \in [Hosts -> Seq(Msg)] /\ \A g \in Hosts : Len(inbox'[g]) <= MaxInbox
           /\ HostInv(h)' /\ Keeps(h) /\ \A g \in Hosts \ {h} : Alone(g)
  <1>1. /\ link \in [Hosts -> Link] /\ wire \in [Hosts -> SUBSET {"Hey", "Bye"}]
        /\ inbox \in [Hosts -> Seq(Msg)] /\ \A g \in Hosts : Len(inbox[g]) <= MaxInbox
    BY Types DEF WorldInv
  <1>2. /\ link' \in [Hosts -> Link] /\ link'[h].cur = FALSE
        /\ \A g \in Hosts \ {h} : link'[g].stage = link[g].stage /\ link'[g].cur = link[g].cur
    BY <1>1, Dropped DEF Disconnect
  <1>3. wire' \in [Hosts -> SUBSET {"Hey", "Bye"}]
    BY <1>1 DEF Disconnect
  <1>4. kind \in Kinds /\ link[h].cur \in BOOLEAN
    BY <1>1 DEF Failures, Kinds, Link
  <1>5. /\ inbox' \in [Hosts -> Seq(Msg)] /\ \A g \in Hosts : Len(inbox'[g]) <= MaxInbox
        /\ inbox'[h] # inbox[h]
        /\ Range(inbox'[h]) = Range(inbox[h]) \cup {[kind |-> kind, cur |-> link[h].cur]}
        /\ \A g \in Hosts \ {h} : inbox'[g] = inbox[g]
    BY <1>1, <1>4, Queued
  <1>6. OneAttempt(h)'
    <2>1. OneAttempt(h) /\ task'[h] = task[h]
      BY DEF WorldInv, HostInv
    <2>2. CASE link[h].cur = TRUE
      BY <1>2, <2>1, <2>2 DEF OneAttempt
    <2>3. CASE link[h].cur = FALSE
      <3>1. Reported(h)' <=> Reported(h)
        BY <1>5, <2>3 DEF Reported
      <3> QED BY <1>2, <2>1, <3>1 DEF OneAttempt
    <2> QED BY <1>4, <2>2, <2>3
  <1>7. Backing(h)'
    BY <1>4, <1>5 DEF WorldInv, HostInv, Backing, Backed
  <1>8. Keeps(h) /\ \A g \in Hosts \ {h} : Alone(g)
    BY <1>2, <1>5 DEF Keeps, Alone
  <1> QED BY <1>2, <1>3, <1>5, <1>6, <1>7, <1>8 DEF HostInv

LEMMA LinkEndsStep ==
    ASSUME WorldInv, NEW h \in Hosts, EstablishFails(h) \/ ActorExits(h) PROVE Good(h)
  <1>1. faults \in 0 .. MaxFaults
    BY Types DEF WorldInv
  <1>2. faults' \in 0 .. MaxFaults
    BY <1>1, FaultType DEF EstablishFails, ActorExits
  <1>3. /\ link' \in [Hosts -> Link] /\ wire' \in [Hosts -> SUBSET {"Hey", "Bye"}]
        /\ inbox' \in [Hosts -> Seq(Msg)] /\ \A g \in Hosts : Len(inbox'[g]) <= MaxInbox
        /\ HostInv(h)' /\ Keeps(h) /\ \A g \in Hosts \ {h} : Alone(g)
    <2>1. CASE EstablishFails(h)
      BY <2>1, ReportedEnd DEF EstablishFails, Failures
    <2>2. CASE ActorExits(h)
      BY <2>2, ReportedEnd DEF ActorExits, Failures
    <2> QED BY <2>1, <2>2
  <1>4. TypeOK'
    BY <1>2, <1>3 DEF EstablishFails, ActorExits, WorldInv, TypeOK, Link, Msg
  <1> QED BY <1>3, <1>4 DEF Good

LEMMA AcceptStreamStep ==
    ASSUME WorldInv, NEW h \in Hosts, NEW kind \in {"Hey", "Bye"}, AcceptStream(h, kind)
    PROVE  Good(h)
  <1>1. /\ link \in [Hosts -> Link] /\ wire \in [Hosts -> SUBSET {"Hey", "Bye"}]
        /\ reading \in [Hosts -> SUBSET Stream]
    BY Types DEF WorldInv
  <1>2. [kind |-> kind, cur |-> link[h].cur] \in Stream
    BY <1>1 DEF Link, Stream
  <1>3. /\ wire' \in [Hosts -> SUBSET {"Hey", "Bye"}] /\ reading' \in [Hosts -> SUBSET Stream]
    BY <1>1, <1>2 DEF AcceptStream
  <1>4. TypeOK'
    BY <1>3 DEF AcceptStream, WorldInv, TypeOK, Stream
  <1>5. \A g \in Hosts : Alone(g)
    BY DEF AcceptStream, Alone
  <1> QED BY <1>4, <1>5, Quiet

LEMMA ReadStreamStep ==
    ASSUME WorldInv, NEW h \in Hosts, NEW m \in reading[h], ReadStream(h, m) PROVE Good(h)
  <1>1. /\ reading \in [Hosts -> SUBSET Stream]
        /\ inbox \in [Hosts -> Seq(Msg)] /\ \A g \in Hosts : Len(inbox[g]) <= MaxInbox
    BY Types DEF WorldInv
  <1>2. m.kind \in {"Hey", "Bye"} /\ m.kind \in Kinds /\ m.cur \in BOOLEAN
    BY <1>1 DEF Stream, Kinds
  <1>3. reading' \in [Hosts -> SUBSET Stream]
    BY <1>1 DEF ReadStream
  <1>4. CASE Queue(h, m.kind, m.cur)
    <2>1. /\ inbox' \in [Hosts -> Seq(Msg)] /\ \A g \in Hosts : Len(inbox'[g]) <= MaxInbox
          /\ Range(inbox'[h]) = Range(inbox[h]) \cup {[kind |-> m.kind, cur |-> m.cur]}
          /\ \A g \in Hosts \ {h} : inbox'[g] = inbox[g]
      BY <1>1, <1>2, <1>4, Queued
    <2>2. TypeOK'
      BY <1>3, <2>1 DEF ReadStream, WorldInv, TypeOK, Stream, Msg
    <2>3. Reported(h)' <=> Reported(h)
      BY <1>2, <2>1 DEF Reported, Failures
    <2>4. HostInv(h)' /\ Keeps(h)
      BY <2>1, <2>3 DEF ReadStream, WorldInv, HostInv, OneAttempt, Backing, Backed, Keeps
    <2>5. \A g \in Hosts \ {h} : Alone(g)
      BY <2>1 DEF ReadStream, Alone
    <2> QED BY <2>2, <2>4, <2>5 DEF Good
  <1>5. CASE UNCHANGED inbox
    <2>1. TypeOK'
      BY <1>3, <1>5 DEF ReadStream, WorldInv, TypeOK, Stream
    <2>2. \A g \in Hosts : Alone(g)
      BY <1>5 DEF ReadStream, Alone
    <2> QED BY <2>1, <2>2, Quiet
  <1> QED BY <1>4, <1>5 DEF ReadStream

-----------------------------------------------------------------------------
(* handle_remote_message *)

\* A handler takes the first message of the inbox.
LEMMA TakesFirst ==
    ASSUME WorldInv, NEW h \in Hosts, inbox[h] # <<>>, inbox' = [inbox EXCEPT ![h] = Tail(@)]
    PROVE  /\ inbox' \in [Hosts -> Seq(Msg)] /\ \A g \in Hosts : Len(inbox'[g]) <= MaxInbox
           /\ inbox'[h] = Tail(inbox[h])
           /\ \A g \in Hosts \ {h} : inbox'[g] = inbox[g]
           /\ Head(inbox[h]) \in Msg
           /\ Range(inbox[h]) = Range(inbox'[h]) \cup {Head(inbox[h])}
  <1>1. inbox \in [Hosts -> Seq(Msg)] /\ \A g \in Hosts : Len(inbox[g]) <= MaxInbox
    BY Types DEF WorldInv
  <1>2. inbox[h] \in Seq(Msg)
    BY <1>1
  <1>3. /\ Tail(inbox[h]) \in Seq(Msg) /\ Head(inbox[h]) \in Msg
        /\ Len(Tail(inbox[h])) = Len(inbox[h]) - 1 /\ Len(inbox[h]) \in Nat \ {0}
        /\ Range(inbox[h]) = Range(Tail(inbox[h])) \cup {Head(inbox[h])}
    BY <1>2, InboxTail
  <1>4. Len(Tail(inbox[h])) <= MaxInbox
    BY <1>1, <1>3, BoundsAssumption
  <1> QED BY <1>1, <1>3, <1>4

LEMMA HandleHeyStep ==
    ASSUME WorldInv, NEW h \in Hosts, HandleHey(h) PROVE Good(h)
  <1> DEFINE m == Head(inbox[h])
             l == remote[h].status # "none" /\ ~(m.cur /\ Backed(h, Tail(inbox[h])))
  <1>1. /\ inbox' \in [Hosts -> Seq(Msg)] /\ \A g \in Hosts : Len(inbox'[g]) <= MaxInbox
        /\ inbox'[h] = Tail(inbox[h])
        /\ \A g \in Hosts \ {h} : inbox'[g] = inbox[g]
        /\ Range(inbox[h]) = Range(inbox'[h]) \cup {m}
    BY TakesFirst DEF HandleHey, Taken
  <1>2. m.kind = "Hey"
    BY DEF HandleHey, Taken
  <1>3. remote \in [Hosts -> Remote] /\ late \in [Hosts -> BOOLEAN]
    BY Types DEF WorldInv
  <1>4. /\ remote' \in [Hosts -> Remote] /\ \A g \in Hosts \ {h} : remote'[g] = remote[g]
        /\ IF remote[h].status = "none" THEN remote'[h] = remote[h]
           ELSE remote'[h].status = "Connected"
    BY <1>3 DEF HandleHey, Remote, Statuses
  <1>5. /\ late' = [late EXCEPT ![h] = l] /\ l \in BOOLEAN
    BY DEF HandleHey
  <1>6. late' \in [Hosts -> BOOLEAN] /\ late'[h] = l /\ \A g \in Hosts \ {h} : late'[g] = late[g]
    BY <1>3, <1>5
  <1>7. TypeOK'
    BY <1>1, <1>4, <1>6 DEF HandleHey, WorldInv, TypeOK, Remote, Msg
  <1>8. Reported(h)' <=> Reported(h)
    BY <1>1, <1>2 DEF Reported, Failures
  <1>9. OneAttempt(h)'
    BY <1>8 DEF HandleHey, WorldInv, HostInv, OneAttempt
  <1>10. Backing(h)'
    <2>1. ASSUME remote[h].status # "none", ~l PROVE Backed(h, Tail(inbox[h]))
      BY <2>1
    <2>2. Backed(h, Tail(inbox[h])) => Backed(h, inbox[h])'
      BY <1>1 DEF Backed, HandleHey
    <2> QED BY <1>4, <1>6, <2>1, <2>2 DEF Backing
  <1>11. Keeps(h) /\ \A g \in Hosts \ {h} : Alone(g)
    BY <1>1, <1>4, <1>6 DEF HandleHey, Keeps, Alone
  <1> QED BY <1>7, <1>9, <1>10, <1>11 DEF Good, HostInv

LEMMA HandleFailureStep ==
    ASSUME WorldInv, NEW h \in Hosts, HandleFailure(h) PROVE Good(h)
  <1> DEFINE m == Head(inbox[h])
  <1>1. /\ inbox' \in [Hosts -> Seq(Msg)] /\ \A g \in Hosts : Len(inbox'[g]) <= MaxInbox
        /\ inbox'[h] = Tail(inbox[h]) /\ m \in Msg
        /\ \A g \in Hosts \ {h} : inbox'[g] = inbox[g]
        /\ Range(inbox[h]) = Range(inbox'[h]) \cup {m}
    BY TakesFirst DEF HandleFailure, Taken
  <1>2. m.kind \in Failures /\ m.cur \in BOOLEAN
    BY <1>1 DEF HandleFailure, Taken, Failures, Msg
  <1>3. remote \in [Hosts -> Remote]
    BY Types DEF WorldInv
  <1>4. /\ remote' \in [Hosts -> Remote] /\ \A g \in Hosts \ {h} : remote'[g] = remote[g]
        /\ IF m.cur THEN remote'[h].status # "Connected" ELSE remote'[h] = remote[h]
    BY <1>3, RecordTypes DEF HandleFailure, Stale
  <1>5. TypeOK'
    BY <1>1, <1>4 DEF HandleFailure, WorldInv, TypeOK, Remote, Msg
  <1>6. OneAttempt(h)'
    BY <1>1 DEF HandleFailure, WorldInv, HostInv, OneAttempt, Reported
  <1>7. Backing(h)'
    <2>1. ASSUME ~m.cur PROVE Backed(h, inbox[h]) => Backed(h, inbox[h])'
      BY <1>1, <2>1 DEF Backed, HandleFailure
    <2> QED BY <1>4, <2>1 DEF WorldInv, HostInv, Backing, HandleFailure
  <1>8. Keeps(h)
    <2>1. m.cur => Reported(h)
      BY <1>1, <1>2 DEF Reported
    <2>2. ASSUME link[h].cur PROVE ~m.cur
      BY <2>1, <2>2 DEF WorldInv, HostInv, OneAttempt
    <2> QED BY <1>4, <2>2 DEF HandleFailure, Keeps
  <1>9. \A g \in Hosts \ {h} : Alone(g)
    BY <1>1, <1>4 DEF HandleFailure, Alone
  <1> QED BY <1>5, <1>6, <1>7, <1>8, <1>9 DEF Good, HostInv

LEMMA HandleByeStep ==
    ASSUME WorldInv, NEW h \in Hosts, HandleBye(h) PROVE Good(h)
  <1> DEFINE p == [i \in 1 .. Len(inbox[h]) - 1 |-> [inbox[h][i + 1] EXCEPT !.cur = FALSE]]
  <1>1. /\ remote \in [Hosts -> Remote] /\ link \in [Hosts -> Link]
        /\ wire \in [Hosts -> SUBSET {"Hey", "Bye"}] /\ task \in [Hosts -> SUBSET BOOLEAN]
        /\ reading \in [Hosts -> SUBSET Stream]
        /\ inbox \in [Hosts -> Seq(Msg)] /\ \A g \in Hosts : Len(inbox[g]) <= MaxInbox
    BY Types DEF WorldInv
  <1>2. p \in Seq(Msg) /\ Len(p) <= MaxInbox /\ \A m \in Range(p) : ~m.cur
    <2>1. inbox[h] \in Seq(Msg) /\ inbox[h] # <<>> /\ Len(inbox[h]) <= MaxInbox
      BY <1>1 DEF HandleBye, Taken
    <2>2. /\ Len(inbox[h]) \in Nat \ {0}
          /\ \A i \in 1 .. Len(inbox[h]) - 1 : inbox[h][i + 1] \in Msg
      BY <2>1
    <2>3. \A x \in Msg : [x EXCEPT !.cur = FALSE] \in Msg /\ [x EXCEPT !.cur = FALSE].cur = FALSE
      BY DEF Msg
    <2>4. p \in [1 .. Len(inbox[h]) - 1 -> Msg] /\ \A i \in 1 .. Len(inbox[h]) - 1 : p[i].cur = FALSE
      BY <2>2, <2>3
    <2> HIDE DEF p
    <2>5. p \in Seq(Msg) /\ Len(p) = Len(inbox[h]) - 1 /\ DOMAIN p = 1 .. Len(inbox[h]) - 1
      BY <2>2, <2>4
    <2>6. Len(p) <= MaxInbox
      BY <2>1, <2>2, <2>5, BoundsAssumption
    <2>7. \A m \in Range(p) : ~m.cur
      BY <2>4, <2>5 DEF Range
    <2> QED BY <2>5, <2>6, <2>7
  <1>3. inbox' = [inbox EXCEPT ![h] = p]
    BY DEF HandleBye
  <1> HIDE DEF p
  <1>4. /\ inbox' \in [Hosts -> Seq(Msg)] /\ \A g \in Hosts : Len(inbox'[g]) <= MaxInbox
        /\ \A m \in Range(inbox'[h]) : ~m.cur
        /\ \A g \in Hosts \ {h} : inbox'[g] = inbox[g]
    BY <1>1, <1>2, <1>3
  <1>5. /\ remote' \in [Hosts -> Remote] /\ remote'[h].status = "none"
        /\ \A g \in Hosts \ {h} : remote'[g] = remote[g]
    BY <1>1, RecordTypes DEF HandleBye, NoRemote
  <1>6. /\ link' \in [Hosts -> Link] /\ link'[h].cur = FALSE
        /\ \A g \in Hosts \ {h} : link'[g].stage = link[g].stage /\ link'[g].cur = link[g].cur
    BY <1>1, Dropped DEF HandleBye, Disconnect
  <1>7. /\ task' \in [Hosts -> SUBSET BOOLEAN]
        /\ \A g \in Hosts \ {h} : task'[g] = task[g]
    BY <1>1, OldTasksType DEF HandleBye
  <1>8. wire' \in [Hosts -> SUBSET {"Hey", "Bye"}] /\ reading' \in [Hosts -> SUBSET Stream]
    BY <1>1, RecordTypes DEF HandleBye, Disconnect
  <1>9. TypeOK'
    BY <1>4, <1>5, <1>6, <1>7, <1>8, Types DEF HandleBye, WorldInv, TypeOK, Remote, Link, Stream, Msg
  <1>10. HostInv(h)' /\ Keeps(h)
    BY <1>4, <1>5, <1>6 DEF HandleBye, HostInv, OneAttempt, Backing, Reported, Keeps, Taken
  <1>11. \A g \in Hosts \ {h} : Alone(g)
    BY <1>4, <1>5, <1>6, <1>7 DEF HandleBye, Alone
  <1> QED BY <1>9, <1>10, <1>11 DEF Good

LEMMA RestartStep ==
    ASSUME WorldInv, NEW h \in Hosts, Restart(h) PROVE Good(h)
  <1>1. /\ remote \in [Hosts -> Remote] /\ link \in [Hosts -> Link]
        /\ wire \in [Hosts -> SUBSET {"Hey", "Bye"}] /\ task \in [Hosts -> SUBSET BOOLEAN]
        /\ inbox \in [Hosts -> Seq(Msg)] /\ \A g \in Hosts : Len(inbox[g]) <= MaxInbox
        /\ faults \in 0 .. MaxFaults /\ late \in [Hosts -> BOOLEAN]
    BY Types DEF WorldInv
  <1>2. <<>> \in Seq(Msg) /\ Len(<<>>) = 0 /\ \A m \in Range(<<>>) : FALSE
    BY DEF Range
  <1>3. /\ inbox' \in [Hosts -> Seq(Msg)] /\ \A g \in Hosts : Len(inbox'[g]) <= MaxInbox
        /\ \A m \in Range(inbox'[h]) : FALSE
        /\ \A g \in Hosts \ {h} : inbox'[g] = inbox[g]
    BY <1>1, <1>2, BoundsAssumption DEF Restart
  <1>4. /\ remote' \in [Hosts -> Remote] /\ remote'[h].status = "none"
        /\ \A g \in Hosts \ {h} : remote'[g] = remote[g]
    BY <1>1, RecordTypes DEF Restart, NoRemote
  <1>5. /\ link' \in [Hosts -> Link] /\ link'[h].cur = FALSE
        /\ \A g \in Hosts \ {h} : link'[g].stage = link[g].stage /\ link'[g].cur = link[g].cur
    BY <1>1, Dropped DEF Restart
  <1>6. /\ task' \in [Hosts -> SUBSET BOOLEAN] /\ late' \in [Hosts -> BOOLEAN]
        /\ \A g \in Hosts \ {h} : task'[g] = task[g] /\ late'[g] = late[g]
    BY <1>1 DEF Restart
  <1>7. wire' \in [Hosts -> SUBSET {"Hey", "Bye"}]
    <2>1. PICK bye \in BOOLEAN :
            wire' = [wire EXCEPT ![h] = {},
                                 ![Peer(h)] = IF bye /\ link[h].stage = "run" /\ link[h].far = "up"
                                                THEN @ \cup {"Bye"} ELSE @]
      BY DEF Restart
    <2> QED BY <1>1, <2>1
  <1>8. faults' \in 0 .. MaxFaults
    BY <1>1, FaultType DEF Restart
  <1>9. /\ ideal' \in [Hosts -> BOOLEAN] /\ ~ideal'[h]
        /\ bound' \in [Hosts -> {"bound", "lost", "unbound"}] /\ sig' \in [Hosts -> SUBSET BOOLEAN]
        /\ reading' \in [Hosts -> SUBSET Stream] /\ trust' \in [Hosts -> BOOLEAN]
    BY Types DEF Restart, WorldInv
  <1>10. TypeOK'
    BY <1>3, <1>4, <1>5, <1>6, <1>7, <1>8, <1>9 DEF TypeOK, Remote, Link, Stream, Msg
  <1>11. HostInv(h)' /\ Keeps(h)
    BY <1>3, <1>4, <1>5, <1>9 DEF HostInv, OneAttempt, Backing, Reported, Keeps
  <1>12. \A g \in Hosts \ {h} : Alone(g)
    BY <1>3, <1>4, <1>5, <1>6 DEF Alone
  <1> QED BY <1>10, <1>11, <1>12 DEF Good

-----------------------------------------------------------------------------
(* Theorems *)

\* Every step of a host keeps its own invariant and leaves the others alone.
LEMMA StepIsGood ==
    ASSUME WorldInv, Next PROVE \E h \in Hosts : Good(h)
  <1>1. PICK h \in Hosts :
          \/ FixWorld(h) \/ HandleSignaling(h) \/ HandleRemote(h) \/ SignalingStatus(h)
          \/ Transport(h) \/ Establish(h) \/ EstablishFails(h)
          \/ ActorExits(h) \/ Accept(h) \/ Reader(h)
          \/ EditorConnect(h) \/ UpdateConfig(h) \/ SignalingEnds(h) \/ Restart(h)
    BY DEF Next
  <1>2. CASE FixWorld(h)
    BY <1>2, FixWorldConnectStep, FixWorldPendStep, FixWorldTimeoutStep DEF FixWorld
  <1>3. CASE HandleSignaling(h)
    BY <1>3, HandleConnectStep, IgnoreConnectStep, RefuseConnectStep DEF HandleSignaling
  <1>4. CASE HandleRemote(h)
    BY <1>4, HandleHeyStep, HandleFailureStep, HandleByeStep DEF HandleRemote
  <1>5. CASE Transport(h)
    BY <1>5, InsertHandleStep, NoTransportStep DEF Transport
  <1>6. CASE Accept(h)
    BY <1>6, AcceptStreamStep DEF Accept
  <1>7. CASE Reader(h)
    BY <1>7, ReadStreamStep DEF Reader
  <1>8. CASE SignalingStatus(h) \/ SignalingEnds(h)
    BY <1>8, SignalingEndsStep
  <1>9. CASE Establish(h) \/ EstablishFails(h) \/ ActorExits(h)
    BY <1>9, EstablishStep, LinkEndsStep
  <1>10. CASE EditorConnect(h) \/ UpdateConfig(h) \/ Restart(h)
    BY <1>10, EditorConnectStep, UpdateConfigStep, RestartStep
  <1> QED
    BY <1>1, <1>2, <1>3, <1>4, <1>5, <1>6, <1>7, <1>8, <1>9, <1>10

LEMMA InitInv == Init => WorldInv
  <1> SUFFICES ASSUME Init PROVE WorldInv
    OBVIOUS
  <1>1. <<>> \in Seq(Msg) /\ Len(<<>>) = 0 /\ NoRemote.status = "none" /\ NoLink.cur = FALSE
    BY DEF NoRemote, NoLink
  <1>2. TypeOK
    BY <1>1, Types, RecordTypes, BoundsAssumption DEF Init
  <1>3. \A h \in Hosts : HostInv(h)
    BY <1>1, RecordTypes DEF Init, HostInv, OneAttempt, Backing
  <1> QED BY <1>2, <1>3 DEF WorldInv

LEMMA NextInv ==
    ASSUME WorldInv, [Next]_vars PROVE WorldInv' /\ \A g \in Hosts : Keeps(g)
  <1>1. CASE Next
    <2>1. PICK h \in Hosts : Good(h)
      BY <1>1, StepIsGood
    <2>2. \A g \in Hosts : HostInv(g)' /\ Keeps(g)
      BY <2>1, AloneKeeps DEF Good, WorldInv
    <2> QED BY <2>1, <2>2 DEF Good, WorldInv
  <1>2. CASE UNCHANGED vars
    <2>1. TypeOK'
      BY <1>2 DEF vars, WorldInv, TypeOK
    <2>2. \A g \in Hosts : Alone(g)
      BY <1>2 DEF vars, Alone
    <2> QED BY <2>1, <2>2, AloneKeeps DEF WorldInv
  <1> QED BY <1>1, <1>2

LEMMA Invariance == Spec => []WorldInv
  BY InitInv, NextInv, PTL DEF Spec

\* World is type correct, and no inbox grows past its bound.
THEOREM TypeCorrect == Spec => []TypeOK
  <1>1. WorldInv => TypeOK
    BY DEF WorldInv
  <1> QED BY <1>1, Invariance, PTL

\* A host is Connected only with the running actor of its current attempt, or
\* with the report of its end in the inbox, unless a Hey came too late.  The
\* handlers of Hey, of failures and of Bye, the timeouts and the connect tasks
\* of abandoned attempts cannot take that away.
THEOREM ConnectedHasActor == Spec => []ConnectedIsBacked
  <1>1. WorldInv => ConnectedIsBacked
    BY DEF WorldInv, HostInv, Backing, ConnectedIsBacked
  <1> QED BY <1>1, Invariance, PTL

\* No report, timeout, Connect or task of another attempt ends the connection
\* whose actor runs: only a Bye, the actor itself or the end of the process.
THEOREM LiveLinksAreKept == Spec => LiveLinkKept
  <1>1. ASSUME WorldInv, [Next]_vars
        PROVE  [\A h \in Hosts :
                  (remote[h].status = "Connected" /\ link[h].stage = "run" /\ link[h].cur)
                    => \/ remote'[h].status = "Connected" /\ (link'[h].cur \/ inbox'[h] # inbox[h])
                       \/ Taken(h, {"Bye"})
                       \/ ~ideal'[h]]_vars
    BY <1>1, NextInv DEF Keeps
  <1> QED BY <1>1, Invariance, PTL DEF Spec, LiveLinkKept
=============================================================================
