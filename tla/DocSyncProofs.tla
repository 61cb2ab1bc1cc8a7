--------------------------- MODULE DocSyncProofs ---------------------------
(***************************************************************************)
(* Proofs about DocSync, for every set of clients, every bound and every   *)
(* transport, each part resting on those before it:                        *)
(*   1. type correctness and HistoryAgreement;                             *)
(*   2. DocSync implements OrderedLog;                                     *)
(*   3. the ops of an opening enter the history once and in order, if no   *)
(*      op of an earlier opening comes in;                                 *)
(*   4. when that is so;                                                   *)
(*   5. what hosts can count on while their connections stay up.           *)
(***************************************************************************)
EXTENDS DocSync, SequenceTheorems, FiniteSetTheorems, TLAPS

-----------------------------------------------------------------------------
(* 1. Types and the history: sequences and queues *)

\* A function on 1..n is a sequence.
LEMMA FunctionIsSeq ==
    ASSUME NEW S, NEW n \in Nat, NEW f \in [1..n -> S]
    PROVE  f \in Seq(S) /\ Len(f) = n
  BY SeqDef

\* Taking a message out of a queue leaves a queue of the same messages.
LEMMA WithoutSeq ==
    ASSUME NEW S, NEW s \in Seq(S), NEW i \in 1..Len(s)
    PROVE  Without(s, i) \in Seq(S)
  <1>1. Len(s) - 1 \in Nat
    BY LenProperties
  <1>2. \A j \in 1..(Len(s) - 1) : s[IF j < i THEN j ELSE j + 1] \in S
    BY LenProperties, ElementOfSeq
  <1>3. Without(s, i) \in [1..(Len(s) - 1) -> S]
    BY <1>2 DEF Without
  <1> QED
    BY <1>1, <1>3, FunctionIsSeq

\* send_to_remote keeps the kind of messages of a queue.
LEMMA SentSeq ==
    ASSUME NEW S, NEW q \in [Clients -> Seq(S)], NEW c \in Clients, NEW msgs \in Seq(S)
    PROVE  Sent(q, c, msgs) \in Seq(S)
  BY ConcatProperties DEF Sent

\* A client that takes a message and answers keeps both kinds of queues.
LEMMA ClientTakesSeq ==
    ASSUME NEW S, NEW T, toClient \in [Clients -> Seq(S)], toServer \in [Clients -> Seq(T)],
           NEW c \in Clients, NEW i \in 1..Len(toClient[c]), NEW msgs \in Seq(T),
           ClientTakes(c, i, msgs)
    PROVE  toClient' \in [Clients -> Seq(S)] /\ toServer' \in [Clients -> Seq(T)]
  <1>1. Without(toClient[c], i) \in Seq(S)
    BY WithoutSeq
  <1>2. Sent(toServer, c, msgs) \in Seq(T)
    BY SentSeq
  <1> QED
    BY <1>1, <1>2 DEF ClientTakes, ToServer

\* So does the owner when it answers some of the clients.
LEMMA ServerTakesSeq ==
    ASSUME NEW S, NEW T, toClient \in [Clients -> Seq(S)], toServer \in [Clients -> Seq(T)],
           NEW c \in Clients, NEW i \in 1..Len(toServer[c]),
           NEW reply \in [Clients -> Seq(S)],
           ServerTakes(c, i, reply)
    PROVE  toClient' \in [Clients -> Seq(S)] /\ toServer' \in [Clients -> Seq(T)]
  <1>1. Without(toServer[c], i) \in Seq(T)
    BY WithoutSeq
  <1>2. \A d \in Clients : Sent(toClient, d, reply[d]) \in Seq(S)
    BY SentSeq
  <1> QED
    BY <1>1, <1>2 DEF ServerTakes

\* No reply and a reply to one client are replies.
LEMMA Replies ==
    ASSUME NEW S
    PROVE  /\ NoReply \in [Clients -> Seq(S)]
           /\ \A c \in Clients : \A msgs \in Seq(S) : ReplyTo(c, msgs) \in [Clients -> Seq(S)]
  <1>1. << >> \in Seq(S)
    BY EmptySeq
  <1> QED
    BY <1>1 DEF NoReply, ReplyTo

-----------------------------------------------------------------------------
(* Type correctness *)

\* A batch of a client is not empty, so it has a first and a last op.
BatchMsg == {m \in ServerMsg : m.type = "OpFromClient" => m.ops # << >>}

\* TypeOK by parts, with the queues to the owner restricted to such batches.
ServerType ==
    /\ history \in Seq(Op)
    /\ subscribers \in [Clients -> Nat \cup {NotSubscribed}]
EngineType ==
    /\ base \in [Clients -> Nat]
    /\ global \in [Clients -> Seq(Op)]
    /\ local \in [Clients -> Seq(Op)]
    /\ siteSeq \in [Clients -> Nat]
    /\ lastSent \in [Clients -> Nat]
ClientType ==
    /\ isOpen \in [Clients -> BOOLEAN]
    /\ session \in [Clients -> Nat]
    /\ EngineType
    /\ buffer \in [Clients -> Seq(Op)]
    /\ notified \in [Clients -> BOOLEAN]
NetType ==
    /\ up \in [Clients -> BOOLEAN]
    /\ toServer \in [Clients -> Seq(BatchMsg)]
    /\ toClient \in [Clients -> Seq(ClientMsg)]
BoundType ==
    /\ opens \in [Clients -> Nat]
    /\ typed \in Nat /\ external \in Nat /\ breaks \in Nat
TypeInv == ServerType /\ ClientType /\ NetType /\ BoundType

\* What the fields of a message in flight are.
LEMMA MessageFields ==
    /\ \A m \in BatchMsg :
         /\ m.type = "RequestOps" => m.after \in Nat
         /\ m.type = "OpFromClient" =>
              m.context \in Nat /\ m.ops \in Seq(Op) /\ Len(m.ops) \in Nat \ {0}
    /\ \A m \in ClientMsg :
         /\ m.type = "Snapshot" => m.seq \in Nat
         /\ m.type = "OpFromServer" => m.first \in Nat /\ m.ops \in Seq(Op)
  <1>1. \A m \in BatchMsg :
         /\ m.type = "RequestOps" => m.after \in Nat
         /\ m.type = "OpFromClient" => m.context \in Nat /\ m.ops \in Seq(Op) /\ m.ops # << >>
    BY DEF BatchMsg, ServerMsg
  <1>2. \A m \in ClientMsg :
         /\ m.type = "Snapshot" => m.seq \in Nat
         /\ m.type = "OpFromServer" => m.first \in Nat /\ m.ops \in Seq(Op)
    BY DEF ClientMsg
  <1> QED
    BY <1>1, <1>2, EmptySeq

\* The messages that are sent.
LEMMA MessageTypes ==
    /\ [type |-> "RequestFile"] \in BatchMsg
    /\ [type |-> "StopSendingOps"] \in BatchMsg
    /\ \A n \in Nat : [type |-> "RequestOps", after |-> n] \in BatchMsg
    /\ \A n \in Nat : \A ops \in Seq(Op) : ops # << >> =>
         [type |-> "OpFromClient", context |-> n, ops |-> ops] \in BatchMsg
    /\ [type |-> "DocFatal"] \in ClientMsg
    /\ \A n \in Nat : [type |-> "Snapshot", seq |-> n] \in ClientMsg
    /\ \A n \in Nat : \A ops \in Seq(Op) :
         [type |-> "OpFromServer", first |-> n, ops |-> ops] \in ClientMsg
  BY DEF BatchMsg, ServerMsg, ClientMsg

\* A sequence of one message.
LEMMA Single ==
    ASSUME NEW S, NEW m \in S
    PROVE  <<m>> \in Seq(S) /\ Len(<<m>>) = 1 /\ << >> \in Seq(S)
  OBVIOUS

\* The handlers' helpers keep the client's part typed.
LEMMA NewRemoteDocType ==
    ASSUME ClientType, NEW c \in Clients, NEW seq \in Nat, NewRemoteDoc(c, seq)
    PROVE  ClientType'
  BY DEF ClientType, EngineType, NewRemoteDoc

LEMMA DropRemoteDocType ==
    ASSUME ClientType, NEW c \in Clients, DropRemoteDoc(c)
    PROVE  ClientType'
  BY DEF ClientType, EngineType, DropRemoteDoc

\* ops_after and the broadcast send ops of the history.
LEMMA OpsAfterType ==
    ASSUME history \in Seq(Op), NEW seq \in Nat
    PROVE  OpsAfter(seq) \in Seq(ClientMsg)
  <1>1. seq < Len(history) => SubSeq(history, seq + 1, Len(history)) \in Seq(Op)
    BY SubSeqProperties, LenProperties
  <1>2. seq < Len(history) =>
          [type |-> "OpFromServer", first |-> seq + 1,
           ops |-> SubSeq(history, seq + 1, Len(history))] \in ClientMsg
    BY <1>1 DEF ClientMsg
  <1> QED
    BY <1>2, Single, EmptySeq DEF OpsAfter

LEMMA BroadcastType ==
    ASSUME history \in Seq(Op), NEW subs, NEW ops \in Seq(Op)
    PROVE  Broadcast(subs, ops) \in [Clients -> Seq(ClientMsg)]
  <1>1. Len(history) + 1 \in Nat
    BY LenProperties
  <1>2. [type |-> "OpFromServer", first |-> Len(history) + 1, ops |-> ops] \in ClientMsg
    BY <1>1, MessageTypes
  <1> QED
    BY <1>2, Single, EmptySeq DEF Broadcast

\* Each step of a client keeps the types: the editor's requests,
LEMMA EditorTypes ==
    ASSUME TypeInv, NEW c \in Clients, Editor(c)
    PROVE  TypeInv'
  <1> USE DEF TypeInv, serverVars, clientVars, engineVars, netVars, boundVars
  <1>1. CASE OpenFile(c)
    <2>1. toServer' \in [Clients -> Seq(BatchMsg)]
      BY <1>1, MessageTypes, Single, SentSeq DEF OpenFile, ToServer, NetType
    <2>2. ServerType' /\ ClientType'
      BY <1>1 DEF OpenFile, ServerType, ClientType, EngineType
    <2>3. NetType'
      BY <1>1, <2>1 DEF OpenFile, NetType
    <2>4. BoundType'
      BY <1>1 DEF OpenFile, BoundType
    <2> QED BY <2>2, <2>3, <2>4
  <1>2. CASE OpenLocalFile(c)
    <2>1. Len(history) \in Nat
      BY LenProperties DEF ServerType
    <2>2. ClientType'
      <3>1. CASE isOpen[c]
        BY <1>2, <3>1 DEF OpenLocalFile, ClientType, EngineType
      <3>2. CASE ~isOpen[c]
        BY <1>2, <2>1, <3>2, NewRemoteDocType DEF OpenLocalFile
      <3> QED BY <3>1, <3>2
    <2>3. ServerType' /\ NetType' /\ BoundType'
      BY <1>2 DEF OpenLocalFile, ServerType, NetType, BoundType
    <2> QED BY <2>2, <2>3
  <1>3. ASSUME NEW n \in 0..MaxBatch, SendOps(c, n)
        PROVE  TypeInv'
    <2> DEFINE pending == NewLocal(c, n)
               rest    == SubSeq(pending, AckCount(c) + 1, Len(pending))
    <2>1. n \in Nat
      BY <1>3, BoundAssumption
    <2>2. pending \in Seq(Op)
      <3>1. [k \in 1..n |-> [site |-> c, seq |-> siteSeq[c] + k, session |-> session[c]]]
              \in [1..n -> Op]
        BY <2>1 DEF ClientType, EngineType, Op
      <3> QED
        BY <2>1, <3>1, FunctionIsSeq, ConcatProperties DEF NewLocal, ClientType, EngineType
    <2>3. AckCount(c) \in Nat
      <3>1. Len(buffer[c]) \in Nat
        BY LenProperties DEF ClientType
      <3>2. IsFiniteSet(Acks(c, Len(buffer[c])))
        <4>1. IsFiniteSet(1..Len(buffer[c]))
          BY <3>1, FS_Interval
        <4>2. Acks(c, Len(buffer[c])) \in SUBSET (1..Len(buffer[c]))
          BY DEF Acks
        <4> QED BY <4>1, <4>2, FS_Subset
      <3> QED
        BY <3>2, FS_CardinalityType DEF AckCount
    <2>4. rest \in Seq(Op)
      <3>1. Len(pending) \in Nat
        BY <2>2, LenProperties
      <3>2. \A j \in (AckCount(c) + 1)..Len(pending) : pending[j] \in Op
        BY <2>2, <2>3, <3>1, ElementOfSeq
      <3> HIDE DEF pending
      <3> QED
        BY <2>2, <2>3, <3>1, <3>2, SubSeqProperties
    <2>5. rest # << >> => LastSeq(rest) \in Nat
      <3> HIDE DEF rest
      <3>1. rest # << >> => Len(rest) \in 1..Len(rest)
        BY <2>4, EmptySeq
      <3>2. rest # << >> => rest[Len(rest)] \in Op
        BY <2>4, <3>1, ElementOfSeq
      <3> QED
        BY <3>2 DEF LastSeq, Op
    <2>6. Context(c) \in Nat
      BY LenProperties DEF Context, CurrentSeq, ClientType, EngineType
    <2>7. lastSent' \in [Clients -> Nat]
      <3>1. lastSent' = [lastSent EXCEPT ![c] = IF PrevOpAcked(c, rest) THEN LastSeq(rest) ELSE @]
        BY <1>3 DEF SendOps
      <3>2. PrevOpAcked(c, rest) => rest # << >>
        BY DEF PrevOpAcked
      <3> HIDE DEF rest
      <3> QED
        BY <2>5, <3>1, <3>2 DEF ClientType, EngineType
    <2>8. toServer' \in [Clients -> Seq(BatchMsg)]
      <3> DEFINE msgs == IF PrevOpAcked(c, rest)
                         THEN <<[type |-> "OpFromClient", context |-> Context(c), ops |-> rest]>>
                         ELSE << >>
      <3>1. PrevOpAcked(c, rest) => rest # << >>
        BY DEF PrevOpAcked
      <3>2. rest # << >> =>
              [type |-> "OpFromClient", context |-> Context(c), ops |-> rest] \in BatchMsg
        <4> HIDE DEF rest
        <4> QED BY <2>4, <2>6 DEF BatchMsg, ServerMsg
      <3>3. msgs \in Seq(BatchMsg)
        <4> HIDE DEF rest
        <4> QED BY <3>1, <3>2, Single, EmptySeq
      <3>4. ToServer(c, msgs)
        BY <1>3 DEF SendOps
      <3> HIDE DEF msgs
      <3> QED
        BY <3>3, <3>4, SentSeq DEF ToServer, NetType
    <2>9. ClientType'
      <3>1. local' = [local EXCEPT ![c] = rest]
        BY <1>3 DEF SendOps
      <3>2. local' \in [Clients -> Seq(Op)]
        <4> HIDE DEF rest
        <4> QED BY <2>4, <3>1 DEF ClientType, EngineType
      <3>3. global' \in [Clients -> Seq(Op)]
        BY <1>3, ConcatProperties DEF SendOps, ClientType, EngineType
      <3>4. siteSeq' \in [Clients -> Nat]
        BY <1>3, <2>1 DEF SendOps, ClientType, EngineType
      <3>5. buffer' \in [Clients -> Seq(Op)] /\ notified' \in [Clients -> BOOLEAN]
        BY <1>3, EmptySeq DEF SendOps, ClientType
      <3> QED
        BY <1>3, <2>7, <3>2, <3>3, <3>4, <3>5 DEF SendOps, ClientType, EngineType
    <2>10. ServerType' /\ BoundType' /\ up' = up /\ toClient' = toClient
      BY <1>3, <2>1 DEF SendOps, ServerType, BoundType
    <2> QED
      BY <2>8, <2>9, <2>10 DEF NetType
  <1>4. ASSUME NEW n \in 0..MaxBatch, SendOpsFails(c, n)
        PROVE  TypeInv'
    <2>1. n \in Nat
      BY <1>4, BoundAssumption
    <2>2. ClientType'
      BY <1>4, DropRemoteDocType DEF SendOpsFails
    <2> QED
      BY <1>4, <2>1, <2>2 DEF SendOpsFails, ServerType, NetType, BoundType
  <1>5. CASE DisconnectFile(c)
    <2>1. toServer' \in [Clients -> Seq(BatchMsg)]
      BY <1>5, MessageTypes, Single, SentSeq DEF DisconnectFile, ToServer, NetType
    <2>2. ClientType'
      BY <1>5, DropRemoteDocType DEF DisconnectFile
    <2> QED
      BY <1>5, <2>1, <2>2 DEF DisconnectFile, ServerType, NetType, BoundType
  <1> QED
    BY <1>1, <1>2, <1>3, <1>4, <1>5 DEF Editor

\* the handlers of the owner's messages,
LEMMA ClientHandlesTypes ==
    ASSUME TypeInv, NEW c \in Clients, ClientHandles(c)
    PROVE  TypeInv'
  <1> USE DEF TypeInv, serverVars, clientVars, engineVars, boundVars
  <1>1. PICK i \in 1..Len(toClient[c]) :
          HandleSnapshot(c, i) \/ HandleOpFromServer(c, i) \/ HandleDocFatal(c, i)
    BY DEF ClientHandles, Deliverable
  <1> DEFINE m == toClient[c][i]
  <1>2. m \in ClientMsg
    BY ElementOfSeq DEF NetType
  <1>3. ASSUME NEW msgs \in Seq(BatchMsg), ClientTakes(c, i, msgs), up' = up
        PROVE  NetType'
    BY <1>3, ClientTakesSeq DEF NetType
  <1>4. CASE HandleSnapshot(c, i)
    <2>1. m.seq \in Nat
      BY <1>2, <1>4, MessageFields DEF HandleSnapshot
    <2>2. CASE isOpen[c]
      <3>1. NetType'
        BY <1>3, <1>4, <2>2, EmptySeq DEF HandleSnapshot
      <3> QED
        BY <1>4, <2>2, <3>1 DEF HandleSnapshot, ServerType, ClientType, EngineType, BoundType
    <2>3. CASE ~isOpen[c]
      <3>1. [type |-> "RequestOps", after |-> m.seq] \in BatchMsg
        BY <2>1, MessageTypes
      <3>2. NetType'
        BY <1>3, <1>4, <2>3, <3>1, Single DEF HandleSnapshot
      <3>3. ClientType'
        BY <1>4, <2>1, <2>3, NewRemoteDocType DEF HandleSnapshot
      <3> QED
        BY <1>4, <3>2, <3>3 DEF HandleSnapshot, ServerType, BoundType
    <2> QED BY <2>2, <2>3
  <1>5. CASE HandleOpFromServer(c, i)
    <2> DEFINE expected == ExpectedSeq(c)
               fresh    == SubSeq(m.ops, expected - m.first + 1, Len(m.ops))
               request  == [type |-> "RequestOps", after |-> expected - 1]
    <2>1. m.first \in Nat /\ m.ops \in Seq(Op)
      BY <1>2, <1>5, MessageFields DEF HandleOpFromServer
    <2>2. expected \in Nat /\ expected - 1 \in Nat
      BY LenProperties DEF ExpectedSeq, CurrentSeq, ClientType, EngineType
    <2>3. CASE ~isOpen[c]
      <3>1. NetType'
        BY <1>3, <1>5, <2>3, MessageTypes, Single DEF HandleOpFromServer
      <3> QED
        BY <1>5, <2>3, <3>1 DEF HandleOpFromServer, ServerType, ClientType, EngineType, BoundType
    <2>4. CASE isOpen[c] /\ m.first > expected
      <3>1. request \in BatchMsg
        BY <2>2, MessageTypes
      <3>2. [k \in 1..Len(m.ops) |-> request] \in Seq(BatchMsg)
        <4> HIDE DEF request
        <4> QED BY <2>1, <3>1, LenProperties, FunctionIsSeq
      <3>3. ClientTakes(c, i, [k \in 1..Len(m.ops) |-> request]) /\ up' = up
        BY <1>5, <2>4 DEF HandleOpFromServer
      <3>4. NetType'
        <4> HIDE DEF request, m
        <4> QED BY <1>3, <3>2, <3>3
      <3> QED
        BY <1>5, <2>4, <3>4 DEF HandleOpFromServer, ServerType, ClientType, EngineType, BoundType
    <2>5. CASE isOpen[c] /\ ~(m.first > expected)
      <3>1. fresh \in Seq(Op)
        <4>1. Len(m.ops) \in Nat /\ expected - m.first + 1 \in Nat \ {0}
          <5>1. Len(m.ops) \in Nat /\ m.first \in Nat /\ expected \in Nat /\ m.first <= expected
            BY <2>1, <2>2, <2>5, LenProperties
          <5> HIDE DEF m, expected
          <5> QED BY <5>1
        <4>2. \A j \in (expected - m.first + 1)..Len(m.ops) : m.ops[j] \in Op
          <5> HIDE DEF m, expected
          <5> QED BY <2>1, <4>1, ElementOfSeq
        <4> HIDE DEF m, expected
        <4> QED BY <2>1, <4>1, <4>2, SubSeqProperties
      <3>2. NetType'
        BY <1>3, <1>5, <2>5, EmptySeq DEF HandleOpFromServer
      <3>3. buffer' = [buffer EXCEPT ![c] = @ \o fresh]
        BY <1>5, <2>5 DEF HandleOpFromServer
      <3>4. buffer' \in [Clients -> Seq(Op)]
        <4> HIDE DEF fresh
        <4> QED BY <3>1, <3>3, ConcatProperties DEF ClientType
      <3>5. notified' \in [Clients -> BOOLEAN]
        <4>1. notified' = [notified EXCEPT ![c] = @ \/ Announce(c, m, fresh)]
          BY <1>5, <2>5 DEF HandleOpFromServer
        <4>2. Announce(c, m, fresh) \in BOOLEAN
          BY DEF Announce
        <4> HIDE DEF m, fresh
        <4> QED BY <4>1, <4>2, Zenon DEF ClientType
      <3> QED
        BY <1>5, <2>5, <3>2, <3>4, <3>5
        DEF HandleOpFromServer, ServerType, ClientType, EngineType, BoundType
    <2> QED BY <2>3, <2>4, <2>5
  <1>6. CASE HandleDocFatal(c, i)
    <2>1. NetType'
      BY <1>3, <1>6, EmptySeq DEF HandleDocFatal
    <2>2. ClientType'
      BY <1>6, DropRemoteDocType DEF HandleDocFatal
    <2> QED
      BY <1>6, <2>1, <2>2 DEF HandleDocFatal, ServerType, BoundType
  <1> QED
    BY <1>1, <1>4, <1>5, <1>6

\* the owner's handlers,
LEMMA ServerHandlesTypes ==
    ASSUME TypeInv, NEW c \in Clients, ServerHandles(c)
    PROVE  TypeInv'
  <1> USE DEF TypeInv, serverVars, clientVars, engineVars, boundVars
  <1>1. PICK i \in 1..Len(toServer[c]) :
          \/ HandleRequestFile(c, i) \/ HandleRequestOps(c, i)
          \/ HandleOpFromClient(c, i) \/ HandleStopSendingOps(c, i)
    BY DEF ServerHandles, Deliverable
  <1> DEFINE m == toServer[c][i]
  <1>2. m \in BatchMsg
    BY ElementOfSeq DEF NetType
  <1>3. ASSUME NEW reply \in [Clients -> Seq(ClientMsg)], ServerTakes(c, i, reply), up' = up
        PROVE  NetType'
    BY <1>3, ServerTakesSeq DEF NetType
  <1>4. ASSUME UNCHANGED <<clientVars, boundVars>>
        PROVE  ClientType' /\ BoundType'
    BY <1>4 DEF ClientType, EngineType, BoundType
  <1>5. CASE HandleRequestFile(c, i)
    <2>1. Len(history) \in Nat
      BY LenProperties DEF ServerType
    <2>2. <<[type |-> "Snapshot", seq |-> Len(history)]>> \in Seq(ClientMsg)
      BY <2>1, MessageTypes, Single
    <2>3. NetType'
      BY <1>3, <1>5, <2>2, Replies DEF HandleRequestFile
    <2> QED
      BY <1>4, <1>5, <2>3 DEF HandleRequestFile, ServerType
  <1>6. CASE HandleRequestOps(c, i)
    <2>1. OpsAfter(m.after) \in Seq(ClientMsg)
      BY <1>2, <1>6, MessageFields, OpsAfterType DEF HandleRequestOps, ServerType
    <2>2. NetType'
      BY <1>3, <1>6, <2>1, Replies DEF HandleRequestOps
    <2> QED
      BY <1>4, <1>6, <2>2 DEF HandleRequestOps, ServerType
  <1>7. CASE HandleOpFromClient(c, i)
    <2>1. m.ops \in Seq(Op) /\ Len(m.ops) \in Nat \ {0}
      BY <1>2, <1>7, MessageFields DEF HandleOpFromClient
    <2>2. LastSeq(m.ops) \in Nat
      <3> HIDE DEF m
      <3>1. m.ops[Len(m.ops)] \in Op
        BY <2>1, ElementOfSeq
      <3> QED BY <3>1 DEF LastSeq, Op
    <2> DEFINE subs == [subscribers EXCEPT ![c] = LastSeq(m.ops)]
    <2>3. CASE ServerTakes(c, i, NoReply) /\ UNCHANGED serverVars
      <3>1. NetType'
        BY <1>3, <1>7, <2>3, Replies DEF HandleOpFromClient
      <3> QED
        BY <1>4, <1>7, <2>3, <3>1 DEF HandleOpFromClient, ServerType
    <2>4. CASE ServerTakes(c, i, ReplyTo(c, <<[type |-> "DocFatal"]>>)) /\ UNCHANGED serverVars
      <3>1. NetType'
        BY <1>3, <1>7, <2>4, MessageTypes, Single, Replies DEF HandleOpFromClient
      <3> QED
        BY <1>4, <1>7, <2>4, <3>1 DEF HandleOpFromClient, ServerType
    <2>5. CASE /\ history' = history \o m.ops
               /\ subscribers' = subs
               /\ ServerTakes(c, i, Broadcast(subs, m.ops))
      <3>1. Broadcast(subs, m.ops) \in [Clients -> Seq(ClientMsg)]
        BY <2>1, BroadcastType DEF ServerType
      <3>2. NetType'
        BY <1>3, <1>7, <2>5, <3>1 DEF HandleOpFromClient
      <3>3. ServerType'
        <4> HIDE DEF m
        <4> QED BY <2>1, <2>2, <2>5, ConcatProperties DEF ServerType
      <3> QED
        BY <1>4, <1>7, <3>2, <3>3 DEF HandleOpFromClient
    <2> QED
      BY <1>7, <2>3, <2>4, <2>5 DEF HandleOpFromClient
  <1>8. CASE HandleStopSendingOps(c, i)
    <2>1. NetType'
      BY <1>3, <1>8, Replies DEF HandleStopSendingOps
    <2> QED
      BY <1>4, <1>8, <2>1 DEF HandleStopSendingOps, ServerType, NotSubscribed
  <1> QED
    BY <1>1, <1>5, <1>6, <1>7, <1>8

\* a change on disk,
LEMMA ResetTypes ==
    ASSUME TypeInv, ResetDocFromDisk
    PROVE  TypeInv'
  <1> USE DEF TypeInv, serverVars, clientVars, engineVars, boundVars
  <1> DEFINE op == [site |-> External, seq |-> external + 1, session |-> 0]
  <1>1. op \in Op
    BY DEF Op, BoundType
  <1>2. <<op>> \in Seq(Op) /\ Append(history, op) \in Seq(Op)
    BY <1>1, Single DEF ServerType
  <1>3. Broadcast(subscribers, <<op>>) \in [Clients -> Seq(ClientMsg)]
    BY <1>2, BroadcastType DEF ServerType
  <1>4. \A d \in Clients : Sent(toClient, d, Broadcast(subscribers, <<op>>)[d]) \in Seq(ClientMsg)
    <2> HIDE DEF op
    <2> QED BY <1>3, SentSeq DEF NetType
  <1>5. toClient' = [d \in Clients |-> Sent(toClient, d, Broadcast(subscribers, <<op>>)[d])]
    BY DEF ResetDocFromDisk
  <1>6. toClient' \in [Clients -> Seq(ClientMsg)]
    <2> HIDE DEF op
    <2> QED BY <1>4, <1>5
  <1>7. ServerType'
    BY <1>2 DEF ResetDocFromDisk, ServerType
  <1>8. ClientType' /\ BoundType'
    BY DEF ResetDocFromDisk, ClientType, EngineType, BoundType
  <1>9. NetType'
    BY <1>6 DEF ResetDocFromDisk, NetType
  <1> QED
    BY <1>7, <1>8, <1>9

\* and what happens to a connection.
LEMMA ConnectionTypes ==
    ASSUME TypeInv, NEW c \in Clients, Break(c) \/ Restart(c) \/ Reconnect(c)
    PROVE  TypeInv'
  <1> USE DEF TypeInv, serverVars, clientVars, engineVars, boundVars
  <1>1. CASE Break(c)
    <2>1. NetType'
      BY <1>1, EmptySeq DEF Break, NetType
    <2>2. BoundType'
      BY <1>1 DEF Break, BoundType
    <2> QED
      BY <1>1, <2>1, <2>2 DEF Break, ServerType, ClientType, EngineType
  <1>2. CASE Restart(c)
    <2>1. NetType'
      BY <1>2, EmptySeq DEF Restart, NetType
    <2>2. ClientType'
      BY <1>2, DropRemoteDocType DEF Restart
    <2> QED
      BY <1>2, <2>1, <2>2 DEF Restart, ServerType, BoundType
  <1>3. CASE Reconnect(c)
    BY <1>3 DEF Reconnect, ServerType, ClientType, EngineType, NetType, BoundType
  <1> QED BY <1>1, <1>2, <1>3

LEMMA TypeInvariant == Spec => []TypeInv
  <1>1. Init => TypeInv
    BY EmptySeq DEF Init, TypeInv, ServerType, ClientType, EngineType, NetType, BoundType,
                    NotSubscribed
  <1>2. TypeInv /\ [Next]_vars => TypeInv'
    <2> SUFFICES ASSUME TypeInv, [Next]_vars PROVE TypeInv'
      OBVIOUS
    <2>1. CASE Next
      BY <2>1, EditorTypes, ClientHandlesTypes, ServerHandlesTypes, ResetTypes, ConnectionTypes
      DEF Next
    <2>2. CASE UNCHANGED vars
      BY <2>2 DEF vars, serverVars, clientVars, netVars, boundVars, TypeInv, ServerType,
                  ClientType, EngineType, NetType, BoundType
    <2> QED BY <2>1, <2>2
  <1> QED
    BY <1>1, <1>2, PTL DEF Spec

\* Every variable of the protocol keeps its type, for all clients, bounds
\* and transports; in particular no sequence number becomes negative and no
\* batch is read past its end.
THEOREM TypeCorrect == Spec => []TypeOK
  <1>1. TypeInv => TypeOK
    <2>1. \A s : s \in Seq(BatchMsg) => s \in Seq(ServerMsg)
      BY SeqMonotonic DEF BatchMsg
    <2> QED
      BY <2>1 DEF TypeInv, TypeOK, ServerType, ClientType, EngineType, NetType, BoundType
  <1> QED
    BY <1>1, TypeInvariant, PTL

-----------------------------------------------------------------------------
(* HistoryAgreement.  It is not inductive by itself: a batch in flight      *)
(* could hold anything.  The strengthening says that every batch and every  *)
(* snapshot in flight, however late it is handled, is a part of the         *)
(* history; the history only grows at its end, so they stay so.             *)

\* ops are the ops of history h with global seqs from + 1, from + 2, ...
StretchOf(h, ops, from) ==
    /\ from + Len(ops) <= Len(h)
    /\ \A k \in 1..Len(ops) : ops[k] = h[from + k]

\* Messages of an owner whose history is h, or was a prefix of h.
AgreedMsg(h) ==
    {m \in ClientMsg :
       /\ m.type = "OpFromServer" => m.first # 0 /\ StretchOf(h, m.ops, m.first - 1)
       /\ m.type = "Snapshot" => m.seq <= Len(h)}

MessagesAgree == toClient \in [Clients -> Seq(AgreedMsg(history))]

ClientAgrees(c) ==
    /\ StretchOf(history, global[c], base[c])
    /\ StretchOf(history, buffer[c], base[c] + Len(global[c]))

AgreeInv == TypeInv /\ MessagesAgree /\ \A c \in Clients : ClientAgrees(c)

\* Appending to the history leaves its stretches what they are,
LEMMA StretchExtends ==
    ASSUME NEW h \in Seq(Op), NEW more \in Seq(Op), NEW ops \in Seq(Op), NEW from \in Nat,
           StretchOf(h, ops, from)
    PROVE  StretchOf(h \o more, ops, from)
  <1>1. Len(h \o more) = Len(h) + Len(more)
        /\ Len(h) \in Nat /\ Len(more) \in Nat /\ Len(ops) \in Nat
    BY ConcatProperties, LenProperties
  <1>2. \A k \in 1..Len(h) : (h \o more)[k] = h[k]
    BY ConcatProperties
  <1> QED
    BY <1>1, <1>2 DEF StretchOf

\* so the messages in flight stay true of it.
LEMMA AgreedExtends ==
    ASSUME NEW h \in Seq(Op), NEW more \in Seq(Op)
    PROVE  AgreedMsg(h) \subseteq AgreedMsg(h \o more)
  <1> SUFFICES ASSUME NEW m \in AgreedMsg(h) PROVE m \in AgreedMsg(h \o more)
    OBVIOUS
  <1>1. m \in ClientMsg
    BY DEF AgreedMsg
  <1>2. Len(h \o more) = Len(h) + Len(more) /\ Len(h) \in Nat /\ Len(more) \in Nat
    BY ConcatProperties, LenProperties
  <1>3. m.type = "OpFromServer" => m.first # 0 /\ StretchOf(h \o more, m.ops, m.first - 1)
    BY <1>1, MessageFields, StretchExtends DEF AgreedMsg
  <1>4. m.type = "Snapshot" => m.seq <= Len(h \o more)
    BY <1>1, <1>2, MessageFields DEF AgreedMsg
  <1> QED
    BY <1>1, <1>3, <1>4 DEF AgreedMsg

\* The empty stretch.
LEMMA StretchEmpty ==
    ASSUME NEW h \in Seq(Op), NEW from \in Nat, from <= Len(h)
    PROVE  StretchOf(h, << >>, from)
  BY LenProperties DEF StretchOf

\* Two stretches in a row are one.
LEMMA StretchConcat ==
    ASSUME NEW h \in Seq(Op), NEW s \in Seq(Op), NEW t \in Seq(Op), NEW from \in Nat,
           StretchOf(h, s, from), StretchOf(h, t, from + Len(s))
    PROVE  StretchOf(h, s \o t, from)
  <1>1. Len(s) \in Nat /\ Len(t) \in Nat /\ Len(h) \in Nat /\ Len(s \o t) = Len(s) + Len(t)
    BY ConcatProperties, LenProperties
  <1>2. \A k \in 1..(Len(s) + Len(t)) :
          (s \o t)[k] = IF k <= Len(s) THEN s[k] ELSE t[k - Len(s)]
    BY ConcatProperties
  <1>3. \A k \in 1..(Len(s) + Len(t)) : k > Len(s) =>
          k - Len(s) \in 1..Len(t) /\ from + Len(s) + (k - Len(s)) = from + k
    BY <1>1
  <1>4. \A k \in 1..(Len(s) + Len(t)) : (s \o t)[k] = h[from + k]
    BY <1>1, <1>2, <1>3 DEF StretchOf
  <1> QED
    BY <1>1, <1>4 DEF StretchOf

\* What is left of a stretch when the ops below "next" are dropped.
LEMMA StretchTail ==
    ASSUME NEW h \in Seq(Op), NEW ops \in Seq(Op), NEW first \in Nat \ {0},
           NEW next \in Nat, first <= next, next - 1 <= Len(h),
           StretchOf(h, ops, first - 1)
    PROVE  StretchOf(h, SubSeq(ops, next - first + 1, Len(ops)), next - 1)
  <1> DEFINE skip == next - first
             rest == SubSeq(ops, skip + 1, Len(ops))
  <1>1. skip \in Nat /\ Len(ops) \in Nat /\ Len(h) \in Nat
    BY LenProperties
  <1>2. Len(rest) = (IF skip < Len(ops) THEN Len(ops) - skip ELSE 0)
    <2>1. \A j \in (skip + 1)..Len(ops) : ops[j] \in Op
      BY <1>1, ElementOfSeq
    <2> HIDE DEF skip
    <2> QED BY <1>1, <2>1, SubSeqProperties
  <1>3. \A k \in 1..Len(rest) : rest[k] = ops[skip + k]
    <2> HIDE DEF skip
    <2> QED BY <1>1, <1>2, SubSeqProperties
  <1>4. \A k \in 1..Len(rest) : rest[k] = h[next - 1 + k]
    <2> SUFFICES ASSUME NEW k \in 1..Len(rest) PROVE rest[k] = h[next - 1 + k]
      OBVIOUS
    <2>1. skip + k \in 1..Len(ops) /\ first - 1 + (skip + k) = next - 1 + k
      <3>1. first - 1 + (skip + k) = next - 1 + k
        OBVIOUS
      <3>2. skip + k \in 1..Len(ops)
        <4> HIDE DEF rest, skip
        <4> QED BY <1>1, <1>2
      <3> QED BY <3>1, <3>2
    <2>2. ops[skip + k] = h[first - 1 + (skip + k)]
      BY <2>1 DEF StretchOf
    <2> QED BY <1>3, <2>1, <2>2
  <1> QED
    BY <1>1, <1>2, <1>4 DEF StretchOf

\* A stretch is a part of the history as SubSeq gives it.
LEMMA StretchIsSubSeq ==
    ASSUME NEW h \in Seq(Op), NEW ops \in Seq(Op), NEW from \in Nat,
           StretchOf(h, ops, from)
    PROVE  from + Len(ops) <= Len(h) /\ ops = SubSeq(h, from + 1, from + Len(ops))
  <1> DEFINE part == SubSeq(h, from + 1, from + Len(ops))
  <1>1. Len(ops) \in Nat /\ Len(h) \in Nat /\ from + Len(ops) <= Len(h)
    BY LenProperties DEF StretchOf
  <1>2. \A j \in (from + 1)..(from + Len(ops)) : h[j] \in Op
    BY <1>1, ElementOfSeq
  <1>3. /\ part \in Seq(Op)
        /\ Len(part) = Len(ops)
        /\ \A k \in 1..Len(ops) : part[k] = h[from + k]
    BY <1>1, <1>2, SubSeqProperties
  <1> HIDE DEF part
  <1>4. ops = part
    BY <1>1, <1>3, SeqEqual DEF StretchOf
  <1> QED BY <1>1, <1>4 DEF part

\* The end of the history is a stretch of it.
LEMMA OpsAfterAgrees ==
    ASSUME history \in Seq(Op), NEW seq \in Nat
    PROVE  OpsAfter(seq) \in Seq(AgreedMsg(history))
  <1>1. CASE seq < Len(history)
    <2> DEFINE ops == SubSeq(history, seq + 1, Len(history))
               m   == [type |-> "OpFromServer", first |-> seq + 1, ops |-> ops]
    <2>1. Len(history) \in Nat /\ seq + 1 \in Nat \ {0}
      BY LenProperties
    <2>2. ops \in Seq(Op) /\ Len(ops) = Len(history) - seq
          /\ \A k \in 1..Len(ops) : ops[k] = history[seq + k]
      <3>1. \A j \in (seq + 1)..Len(history) : history[j] \in Op
        BY <2>1, ElementOfSeq
      <3> QED BY <1>1, <2>1, <3>1, SubSeqProperties
    <2> HIDE DEF ops
    <2>3. StretchOf(history, ops, seq)
      BY <2>1, <2>2 DEF StretchOf
    <2>4. m \in ClientMsg /\ m.type = "OpFromServer" /\ m.first = seq + 1 /\ m.ops = ops
      BY <2>1, <2>2 DEF ClientMsg
    <2>5. m.first - 1 = seq
      BY <2>4
    <2> HIDE DEF m
    <2>6. m \in AgreedMsg(history)
      BY <2>1, <2>3, <2>4, <2>5 DEF AgreedMsg
    <2>7. OpsAfter(seq) = <<m>>
      BY <1>1 DEF OpsAfter, m, ops
    <2> QED BY <2>6, <2>7, Single
  <1>2. CASE ~(seq < Len(history))
    BY <1>2, EmptySeq DEF OpsAfter
  <1> QED BY <1>1, <1>2

\* Ops that are appended to the history are a stretch of the new one.
LEMMA BroadcastAgrees ==
    ASSUME history \in Seq(Op), NEW subs, NEW ops \in Seq(Op)
    PROVE  Broadcast(subs, ops) \in [Clients -> Seq(AgreedMsg(history \o ops))]
  <1> DEFINE m == [type |-> "OpFromServer", first |-> Len(history) + 1, ops |-> ops]
             h == history \o ops
  <1>1. Len(history) \in Nat /\ Len(ops) \in Nat /\ Len(h) = Len(history) + Len(ops)
    BY ConcatProperties, LenProperties
  <1>2. \A k \in 1..Len(ops) : h[Len(history) + k] = ops[k]
    BY <1>1, ConcatProperties
  <1> HIDE DEF h
  <1>3. StretchOf(h, ops, Len(history))
    BY <1>1, <1>2 DEF StretchOf
  <1>4. m \in ClientMsg /\ m.type = "OpFromServer" /\ m.first = Len(history) + 1 /\ m.ops = ops
    BY <1>1 DEF ClientMsg
  <1>5. m.first - 1 = Len(history) /\ m.first # 0
    BY <1>1, <1>4
  <1>6. m \in AgreedMsg(h)
    <2> HIDE DEF m
    <2> QED BY <1>3, <1>4, <1>5 DEF AgreedMsg
  <1>7. <<m>> \in Seq(AgreedMsg(h)) /\ << >> \in Seq(AgreedMsg(h))
    BY <1>6, Single
  <1>8. \A d \in Clients : Broadcast(subs, ops)[d] \in Seq(AgreedMsg(h))
    BY <1>7 DEF Broadcast
  <1> QED
    BY <1>8 DEF Broadcast, h

\* Messages and clients agree with a longer history.
LEMMA HistoryGrows ==
    ASSUME AgreeInv, NEW more \in Seq(Op)
    PROVE  /\ toClient \in [Clients -> Seq(AgreedMsg(history \o more))]
           /\ \A c \in Clients :
                /\ StretchOf(history \o more, global[c], base[c])
                /\ StretchOf(history \o more, buffer[c], base[c] + Len(global[c]))
  <1>1. history \in Seq(Op)
    BY DEF AgreeInv, TypeInv, ServerType
  <1>2. \A s \in Seq(AgreedMsg(history)) : s \in Seq(AgreedMsg(history \o more))
    BY <1>1, AgreedExtends, SeqMonotonic
  <1>3. toClient \in [Clients -> Seq(AgreedMsg(history \o more))]
    BY <1>2 DEF AgreeInv, MessagesAgree
  <1>4. ASSUME NEW c \in Clients
        PROVE  /\ StretchOf(history \o more, global[c], base[c])
               /\ StretchOf(history \o more, buffer[c], base[c] + Len(global[c]))
    <2>1. /\ global[c] \in Seq(Op) /\ buffer[c] \in Seq(Op)
          /\ base[c] \in Nat /\ base[c] + Len(global[c]) \in Nat
      BY LenProperties DEF AgreeInv, TypeInv, ClientType, EngineType
    <2> QED
      BY <1>1, <2>1, StretchExtends DEF AgreeInv, ClientAgrees
  <1> QED BY <1>3, <1>4

\* A RemoteDoc that is created at a seq of the history, or dropped, agrees.
LEMMA FreshAgrees ==
    ASSUME AgreeInv, history' = history, NEW c \in Clients, NEW seq \in Nat, seq <= Len(history),
           NewRemoteDoc(c, seq) \/ (DropRemoteDoc(c) /\ seq = 0)
    PROVE  \A d \in Clients : ClientAgrees(d)'
  <1>1. /\ base' = [base EXCEPT ![c] = seq]
        /\ global' = [global EXCEPT ![c] = << >>]
        /\ buffer' = [buffer EXCEPT ![c] = << >>]
    BY DEF NewRemoteDoc, DropRemoteDoc
  <1>2. StretchOf(history, << >>, seq)
    BY StretchEmpty DEF AgreeInv, TypeInv, ServerType
  <1>3. seq + Len(<< >>) = seq
    BY EmptySeq
  <1> SUFFICES ASSUME NEW d \in Clients PROVE ClientAgrees(d)'
    OBVIOUS
  <1>4. CASE d = c
    <2>1. base'[d] = seq /\ global'[d] = << >> /\ buffer'[d] = << >>
      BY <1>1, <1>4 DEF AgreeInv, TypeInv, ClientType, EngineType
    <2> QED
      BY <1>2, <1>3, <2>1 DEF ClientAgrees
  <1>5. CASE d # c
    <2>1. base'[d] = base[d] /\ global'[d] = global[d] /\ buffer'[d] = buffer[d]
      BY <1>1, <1>5 DEF AgreeInv, TypeInv, ClientType, EngineType
    <2> QED
      BY <2>1 DEF AgreeInv, ClientAgrees
  <1> QED BY <1>4, <1>5

\* Nothing a client has changes.
LEMMA SameAgrees ==
    ASSUME AgreeInv, UNCHANGED <<history, base, global, buffer>>
    PROVE  \A d \in Clients : ClientAgrees(d)'
  BY DEF AgreeInv, ClientAgrees

\* A step that sends nothing to the clients and loses at most what is in
\* flight keeps the messages true of the unchanged history.
LEMMA EditorAgrees ==
    ASSUME AgreeInv, NEW c \in Clients, Editor(c)
    PROVE  MessagesAgree' /\ \A d \in Clients : ClientAgrees(d)'
  <1> USE DEF serverVars, clientVars, engineVars, netVars
  <1>1. history' = history /\ toClient' = toClient
    BY DEF Editor, OpenFile, OpenLocalFile, SendOps, SendOpsFails, DisconnectFile
  <1>2. MessagesAgree'
    BY <1>1 DEF AgreeInv, MessagesAgree
  <1>3. history \in Seq(Op) /\ Len(history) \in Nat
    BY LenProperties DEF AgreeInv, TypeInv, ServerType
  <1>4. CASE OpenFile(c)
    BY <1>2, <1>4, SameAgrees DEF OpenFile
  <1>5. CASE OpenLocalFile(c)
    <2>1. CASE isOpen[c]
      BY <1>2, <1>5, <2>1, SameAgrees DEF OpenLocalFile
    <2>2. CASE ~isOpen[c]
      BY <1>1, <1>2, <1>3, <1>5, <2>2, FreshAgrees DEF OpenLocalFile
    <2> QED BY <2>1, <2>2
  <1>6. ASSUME NEW n \in 0..MaxBatch, SendOps(c, n)
        PROVE  \A d \in Clients : ClientAgrees(d)'
    <2>1. /\ base' = base
          /\ global' = [global EXCEPT ![c] = @ \o buffer[c]]
          /\ buffer' = [buffer EXCEPT ![c] = << >>]
      BY <1>6 DEF SendOps
    <2>2. /\ base \in [Clients -> Nat] /\ global \in [Clients -> Seq(Op)]
          /\ buffer \in [Clients -> Seq(Op)]
      BY DEF AgreeInv, TypeInv, ClientType, EngineType
    <2> SUFFICES ASSUME NEW d \in Clients PROVE ClientAgrees(d)'
      OBVIOUS
    <2>3. CASE d = c
      <3>1. base'[d] = base[c] /\ global'[d] = global[c] \o buffer[c] /\ buffer'[d] = << >>
        BY <2>1, <2>2, <2>3
      <3>2. StretchOf(history, global[c] \o buffer[c], base[c])
        BY <1>3, <2>2, StretchConcat DEF AgreeInv, ClientAgrees
      <3>3. Len(global[c] \o buffer[c]) \in Nat
        BY <2>2, ConcatProperties, LenProperties
      <3>4. StretchOf(history, << >>, base[c] + Len(global[c] \o buffer[c]))
        <4>1. base[c] + Len(global[c] \o buffer[c]) \in Nat
          BY <2>2, <3>3
        <4>2. base[c] + Len(global[c] \o buffer[c]) <= Len(history)
          BY <3>2 DEF StretchOf
        <4> QED BY <1>3, <4>1, <4>2, StretchEmpty
      <3> QED
        BY <1>1, <3>1, <3>2, <3>4 DEF ClientAgrees
    <2>4. CASE d # c
      <3>1. base'[d] = base[d] /\ global'[d] = global[d] /\ buffer'[d] = buffer[d]
        BY <2>1, <2>2, <2>4
      <3> QED
        BY <1>1, <3>1 DEF AgreeInv, ClientAgrees
    <2> QED BY <2>3, <2>4
  <1>7. ASSUME NEW n \in 0..MaxBatch, SendOpsFails(c, n)
        PROVE  \A d \in Clients : ClientAgrees(d)'
    BY <1>1, <1>3, <1>7, FreshAgrees DEF SendOpsFails
  <1>8. CASE DisconnectFile(c)
    BY <1>1, <1>2, <1>3, <1>8, FreshAgrees DEF DisconnectFile
  <1> QED
    BY <1>2, <1>4, <1>5, <1>6, <1>7, <1>8 DEF Editor

\* A client handles a message that is true of the history.
LEMMA ClientHandlesAgrees ==
    ASSUME AgreeInv, NEW c \in Clients, ClientHandles(c)
    PROVE  MessagesAgree' /\ \A d \in Clients : ClientAgrees(d)'
  <1> USE DEF serverVars, clientVars, engineVars
  <1>1. PICK i \in 1..Len(toClient[c]) :
          HandleSnapshot(c, i) \/ HandleOpFromServer(c, i) \/ HandleDocFatal(c, i)
    BY DEF ClientHandles, Deliverable
  <1> DEFINE m == toClient[c][i]
  <1>2. m \in AgreedMsg(history) /\ m \in ClientMsg
    BY ElementOfSeq DEF AgreeInv, MessagesAgree, AgreedMsg
  <1>3. history' = history
    BY <1>1 DEF HandleSnapshot, HandleOpFromServer, HandleDocFatal
  <1>4. MessagesAgree'
    <2>1. toClient' = [toClient EXCEPT ![c] = Without(@, i)]
      BY <1>1 DEF HandleSnapshot, HandleOpFromServer, HandleDocFatal, ClientTakes
    <2>2. Without(toClient[c], i) \in Seq(AgreedMsg(history))
      BY WithoutSeq DEF AgreeInv, MessagesAgree
    <2> QED
      BY <1>3, <2>1, <2>2 DEF AgreeInv, MessagesAgree
  <1>5. history \in Seq(Op) /\ Len(history) \in Nat
    BY LenProperties DEF AgreeInv, TypeInv, ServerType
  <1>6. CASE HandleSnapshot(c, i)
    <2>1. CASE isOpen[c]
      BY <1>4, <1>6, <2>1, SameAgrees DEF HandleSnapshot
    <2>2. CASE ~isOpen[c]
      <3>1. m.seq \in Nat /\ m.seq <= Len(history)
        BY <1>2, <1>6, MessageFields DEF HandleSnapshot, AgreedMsg
      <3> QED
        BY <1>3, <1>4, <1>6, <2>2, <3>1, FreshAgrees DEF HandleSnapshot
    <2> QED BY <2>1, <2>2
  <1>7. CASE HandleOpFromServer(c, i)
    <2> DEFINE expected == ExpectedSeq(c)
               fresh    == SubSeq(m.ops, expected - m.first + 1, Len(m.ops))
    <2>1. CASE ~isOpen[c] \/ m.first > expected
      BY <1>4, <1>7, <2>1, SameAgrees DEF HandleOpFromServer
    <2>2. CASE isOpen[c] /\ ~(m.first > expected)
      <3>1. /\ base \in [Clients -> Nat] /\ global \in [Clients -> Seq(Op)]
            /\ buffer \in [Clients -> Seq(Op)]
        BY DEF AgreeInv, TypeInv, ClientType, EngineType
      <3>2. /\ m.first \in Nat \ {0} /\ m.ops \in Seq(Op)
            /\ StretchOf(history, m.ops, m.first - 1)
        BY <1>2, <1>7, MessageFields DEF HandleOpFromServer, AgreedMsg
      <3>3. /\ Len(global[c]) \in Nat /\ Len(buffer[c]) \in Nat
            /\ expected \in Nat
            /\ expected - 1 = base[c] + Len(global[c]) + Len(buffer[c])
        BY <3>1, LenProperties DEF ExpectedSeq, CurrentSeq
      <3>4. expected - 1 <= Len(history)
        BY <3>3 DEF AgreeInv, ClientAgrees, StretchOf
      <3>5. StretchOf(history, fresh, expected - 1)
        <4>1. m.first <= expected
          BY <2>2, <3>2, <3>3
        <4> HIDE DEF m, expected
        <4> QED BY <1>5, <3>2, <3>3, <3>4, <4>1, StretchTail
      <3>6. fresh \in Seq(Op)
        <4> HIDE DEF m, expected
        <4>1. Len(m.ops) \in Nat /\ expected - m.first + 1 \in Nat \ {0}
          <5>1. m.first \in Nat /\ expected \in Nat /\ m.first <= expected
            BY <2>2, <3>2, <3>3
          <5>2. Len(m.ops) \in Nat
            BY <3>2, LenProperties
          <5> QED BY <5>1, <5>2
        <4>2. \A j \in (expected - m.first + 1)..Len(m.ops) : m.ops[j] \in Op
          BY <3>2, <4>1, ElementOfSeq
        <4> QED BY <4>1, <4>2, SubSeqProperties
      <3>7. buffer' = [buffer EXCEPT ![c] = @ \o fresh] /\ base' = base /\ global' = global
        BY <1>7, <2>2 DEF HandleOpFromServer
      <3> HIDE DEF fresh
      <3>8. StretchOf(history, buffer[c] \o fresh, base[c] + Len(global[c]))
        <4>1. base[c] + Len(global[c]) \in Nat
          BY <3>1, <3>3
        <4>2. StretchOf(history, buffer[c], base[c] + Len(global[c]))
          BY DEF AgreeInv, ClientAgrees
        <4>3. StretchOf(history, fresh, base[c] + Len(global[c]) + Len(buffer[c]))
          BY <3>3, <3>5
        <4> QED BY <1>5, <3>1, <3>6, <4>1, <4>2, <4>3, StretchConcat
      <3>9. ASSUME NEW d \in Clients PROVE ClientAgrees(d)'
        <4>1. CASE d = c
          <5>1. buffer'[d] = buffer[c] \o fresh
            BY <3>1, <3>7, <4>1
          <5> QED BY <1>3, <3>7, <3>8, <4>1, <5>1 DEF AgreeInv, ClientAgrees
        <4>2. CASE d # c
          <5>1. buffer'[d] = buffer[d]
            BY <3>1, <3>7, <4>2
          <5> QED BY <1>3, <3>7, <5>1 DEF AgreeInv, ClientAgrees
        <4> QED BY <4>1, <4>2
      <3> QED BY <1>4, <3>9
    <2> QED BY <2>1, <2>2
  <1>8. CASE HandleDocFatal(c, i)
    BY <1>3, <1>4, <1>5, <1>8, FreshAgrees DEF HandleDocFatal
  <1> QED
    BY <1>1, <1>6, <1>7, <1>8

\* The owner sends only what is true of its history.
LEMMA ServerHandlesAgrees ==
    ASSUME AgreeInv, NEW c \in Clients, ServerHandles(c)
    PROVE  MessagesAgree' /\ \A d \in Clients : ClientAgrees(d)'
  <1> USE DEF serverVars, clientVars, engineVars
  <1>1. PICK i \in 1..Len(toServer[c]) :
          \/ HandleRequestFile(c, i) \/ HandleRequestOps(c, i)
          \/ HandleOpFromClient(c, i) \/ HandleStopSendingOps(c, i)
    BY DEF ServerHandles, Deliverable
  <1> DEFINE m == toServer[c][i]
  <1>2. m \in BatchMsg
    BY ElementOfSeq DEF AgreeInv, TypeInv, NetType
  <1>3. history \in Seq(Op) /\ Len(history) \in Nat
    BY LenProperties DEF AgreeInv, TypeInv, ServerType
  <1>4. ASSUME NEW h, toClient \in [Clients -> Seq(AgreedMsg(h))],
               NEW reply \in [Clients -> Seq(AgreedMsg(h))], ServerTakes(c, i, reply)
        PROVE  toClient' \in [Clients -> Seq(AgreedMsg(h))]
    BY <1>4, ServerTakesSeq DEF AgreeInv, TypeInv, NetType
  <1>5. ASSUME NEW reply \in [Clients -> Seq(AgreedMsg(history))], ServerTakes(c, i, reply),
               UNCHANGED <<history, clientVars>>
        PROVE  MessagesAgree' /\ \A d \in Clients : ClientAgrees(d)'
    <2>1. MessagesAgree'
      BY <1>4, <1>5 DEF AgreeInv, MessagesAgree
    <2> QED BY <1>5, <2>1, SameAgrees
  <1>6. CASE HandleRequestFile(c, i)
    <2>1. [type |-> "Snapshot", seq |-> Len(history)] \in AgreedMsg(history)
      BY <1>3 DEF AgreedMsg, ClientMsg
    <2> QED
      BY <1>5, <1>6, <2>1, Single, Replies DEF HandleRequestFile
  <1>7. CASE HandleRequestOps(c, i)
    <2>1. OpsAfter(m.after) \in Seq(AgreedMsg(history))
      BY <1>2, <1>3, <1>7, MessageFields, OpsAfterAgrees DEF HandleRequestOps
    <2> QED
      BY <1>5, <1>7, <2>1, Replies DEF HandleRequestOps
  <1>8. CASE HandleOpFromClient(c, i)
    <2> DEFINE subs == [subscribers EXCEPT ![c] = LastSeq(m.ops)]
    <2>1. CASE ServerTakes(c, i, NoReply) /\ UNCHANGED serverVars
      BY <1>5, <1>8, <2>1, Replies DEF HandleOpFromClient
    <2>2. CASE ServerTakes(c, i, ReplyTo(c, <<[type |-> "DocFatal"]>>)) /\ UNCHANGED serverVars
      <3>1. [type |-> "DocFatal"] \in AgreedMsg(history)
        BY DEF AgreedMsg, ClientMsg
      <3> QED
        BY <1>5, <1>8, <2>2, <3>1, Single, Replies DEF HandleOpFromClient
    <2>3. CASE history' = history \o m.ops /\ ServerTakes(c, i, Broadcast(subs, m.ops))
      <3>1. m.ops \in Seq(Op)
        BY <1>2, <1>8, MessageFields DEF HandleOpFromClient
      <3>2. Broadcast(subs, m.ops) \in [Clients -> Seq(AgreedMsg(history \o m.ops))]
        BY <1>3, <3>1, BroadcastAgrees
      <3>3. MessagesAgree'
        <4>1. toClient' \in [Clients -> Seq(AgreedMsg(history \o m.ops))]
          <5> HIDE DEF m
          <5> QED BY <1>4, <2>3, <3>1, <3>2, HistoryGrows
        <4> QED BY <2>3, <4>1 DEF MessagesAgree
      <3>4. UNCHANGED <<base, global, buffer>>
        BY <1>8 DEF HandleOpFromClient
      <3> HIDE DEF m
      <3> QED
        BY <2>3, <3>1, <3>3, <3>4, HistoryGrows DEF ClientAgrees
    <2> QED
      BY <1>8, <2>1, <2>2, <2>3 DEF HandleOpFromClient
  <1>9. CASE HandleStopSendingOps(c, i)
    BY <1>5, <1>9, Replies DEF HandleStopSendingOps
  <1> QED
    BY <1>1, <1>6, <1>7, <1>8, <1>9

\* A change on disk is an op like any other.
LEMMA ResetAgrees ==
    ASSUME AgreeInv, ResetDocFromDisk
    PROVE  MessagesAgree' /\ \A d \in Clients : ClientAgrees(d)'
  <1> DEFINE op == [site |-> External, seq |-> external + 1, session |-> 0]
  <1>1. op \in Op
    BY DEF Op, AgreeInv, TypeInv, BoundType
  <1>2. history \in Seq(Op) /\ <<op>> \in Seq(Op)
    BY <1>1, Single DEF AgreeInv, TypeInv, ServerType
  <1>3. history' = history \o <<op>>
    <2>1. history' = Append(history, op)
      BY DEF ResetDocFromDisk
    <2> HIDE DEF op
    <2> QED BY <1>1, <1>2, <2>1, AppendIsConcat
  <1>4. Broadcast(subscribers, <<op>>) \in [Clients -> Seq(AgreedMsg(history'))]
    <2> HIDE DEF op
    <2> QED BY <1>2, <1>3, BroadcastAgrees
  <1>5. toClient' = [d \in Clients |-> Sent(toClient, d, Broadcast(subscribers, <<op>>)[d])]
    BY DEF ResetDocFromDisk
  <1>6. UNCHANGED <<base, global, buffer>>
    BY DEF ResetDocFromDisk, clientVars
  <1> HIDE DEF op
  <1>7. toClient \in [Clients -> Seq(AgreedMsg(history'))]
    BY <1>2, <1>3, HistoryGrows
  <1>8. \A d \in Clients :
          Sent(toClient, d, Broadcast(subscribers, <<op>>)[d]) \in Seq(AgreedMsg(history'))
    BY <1>4, <1>7, SentSeq
  <1>9. MessagesAgree'
    BY <1>5, <1>8 DEF MessagesAgree
  <1> QED
    BY <1>2, <1>3, <1>6, <1>9, HistoryGrows DEF ClientAgrees

LEMMA ConnectionAgrees ==
    ASSUME AgreeInv, NEW c \in Clients, Break(c) \/ Restart(c) \/ Reconnect(c)
    PROVE  MessagesAgree' /\ \A d \in Clients : ClientAgrees(d)'
  <1> USE DEF serverVars, clientVars
  <1>1. history' = history
    BY DEF Break, Restart, Reconnect
  <1>2. MessagesAgree'
    <2>1. toClient' \in {toClient, [toClient EXCEPT ![c] = << >>]}
      BY DEF Break, Restart, Reconnect
    <2> QED
      BY <1>1, <2>1, EmptySeq DEF AgreeInv, MessagesAgree
  <1>3. CASE Break(c) \/ Reconnect(c)
    BY <1>2, <1>3, SameAgrees DEF Break, Reconnect
  <1>4. CASE Restart(c)
    <2>1. Len(history) \in Nat
      BY LenProperties DEF AgreeInv, TypeInv, ServerType
    <2> QED
      BY <1>1, <1>2, <1>4, <2>1, FreshAgrees DEF Restart
  <1> QED BY <1>3, <1>4

\* The strengthening is one.
LEMMA AgreeImpliesAgreement ==
    ASSUME AgreeInv
    PROVE  HistoryAgreement
  <1> SUFFICES ASSUME NEW c \in Clients
               PROVE  /\ Received(c) <= Len(history)
                      /\ global[c] \o buffer[c] = SubSeq(history, base[c] + 1, Received(c))
    BY DEF HistoryAgreement
  <1>1. /\ history \in Seq(Op) /\ base[c] \in Nat
        /\ global[c] \in Seq(Op) /\ buffer[c] \in Seq(Op)
    BY DEF AgreeInv, TypeInv, ServerType, ClientType, EngineType
  <1> DEFINE g == global[c]
             w == buffer[c]
             f == base[c]
  <1>2. g \in Seq(Op) /\ w \in Seq(Op) /\ f \in Nat
    BY <1>1
  <1>3. Received(c) = (f + Len(g)) + Len(w)
    BY DEF Received, CurrentSeq
  <1>4. StretchOf(history, g, f) /\ StretchOf(history, w, f + Len(g))
    BY DEF AgreeInv, ClientAgrees
  <1> HIDE DEF g, w, f
  <1>5. g \o w \in Seq(Op) /\ Len(g \o w) = Len(g) + Len(w) /\ Len(g) \in Nat /\ Len(w) \in Nat
    BY <1>2, ConcatProperties, LenProperties
  <1>6. Received(c) = f + Len(g \o w)
    BY <1>2, <1>3, <1>5
  <1>7. StretchOf(history, g \o w, f)
    BY <1>1, <1>2, <1>4, StretchConcat
  <1>8. f + Len(g \o w) <= Len(history) /\ g \o w = SubSeq(history, f + 1, f + Len(g \o w))
    BY <1>1, <1>2, <1>5, <1>7, StretchIsSubSeq
  <1>9. Received(c) <= Len(history) /\ g \o w = SubSeq(history, f + 1, Received(c))
    BY <1>6, <1>8
  <1> QED
    BY <1>9 DEF g, w, f

\* The strengthening holds in every state.
LEMMA AgreeInvariant == Spec => []AgreeInv
  <1>1. Init => AgreeInv
    <2>1. ASSUME Init PROVE TypeInv
      BY <2>1, EmptySeq DEF Init, TypeInv, ServerType, ClientType, EngineType, NetType, BoundType,
                      NotSubscribed
    <2>2. ASSUME Init PROVE MessagesAgree
      BY <2>2, EmptySeq DEF Init, MessagesAgree
    <2>3. ASSUME Init, NEW c \in Clients PROVE ClientAgrees(c)
      BY <2>3, EmptySeq DEF Init, ClientAgrees, StretchOf
    <2> QED BY <2>1, <2>2, <2>3 DEF AgreeInv
  <1>2. AgreeInv /\ TypeInv' /\ [Next]_vars => AgreeInv'
    <2> SUFFICES ASSUME AgreeInv, TypeInv', [Next]_vars PROVE AgreeInv'
      OBVIOUS
    <2>1. CASE Next
      BY <2>1, EditorAgrees, ClientHandlesAgrees, ServerHandlesAgrees, ResetAgrees,
         ConnectionAgrees DEF Next, AgreeInv
    <2>2. CASE UNCHANGED vars
      BY <2>2 DEF vars, serverVars, clientVars, netVars, AgreeInv, MessagesAgree, ClientAgrees
    <2> QED BY <2>1, <2>2
  <1> QED
    BY <1>1, <1>2, TypeInvariant, PTL DEF Spec

\* HistoryAgreement, whatever the transport does: what an open client has
\* taken from the owner (history and buffer) is a stretch of the owner's
\* history from the client's snapshot on, without a hole, a repetition or
\* a swap.  Late, lost and reordered messages, breaks and restarts, repeated
\* snapshots and requests included.
THEOREM HistoriesAgree == Spec => []HistoryAgreement
  BY AgreeInvariant, AgreeImpliesAgreement, PTL

-----------------------------------------------------------------------------
(***************************************************************************)
(* 2. DocSync implements OrderedLog                                        *)
(*                                                                         *)
(* DocSync implements OrderedLog, for every set of clients, every bound    *)
(* and every transport, whether or not hosts close, open again or restart. *)
(*                                                                         *)
(* What takes a proof is that an op enters the history once.  The owner    *)
(* compares site seqs, which start anew with every RemoteDoc and which a   *)
(* RequestOps resets; what keeps an op from being sequenced twice is that  *)
(* the client sends it in one batch only and a batch is handled once.      *)
(***************************************************************************)

\* The ops of a sequence, and of a message to the owner.
OpsIn(s) == {s[k] : k \in 1..Len(s)}
BatchOps(m) == IF m.type = "OpFromClient" THEN OpsIn(m.ops) ELSE {}

DistinctIn(s) == \A k, l \in 1..Len(s) : k # l => s[k] # s[l]

\* No op is twice in the batches of a queue; all are among the allowed.
FlightOk(q, allowed) ==
    /\ \A i \in 1..Len(q) :
         /\ BatchOps(q[i]) \subseteq allowed
         /\ q[i].type = "OpFromClient" => DistinctIn(q[i].ops)
    /\ \A i, j \in 1..Len(q) : i # j => BatchOps(q[i]) \cap BatchOps(q[j]) = {}

\* An op that has been sent or read from disk: what a client has not sent
\* yet has a greater site seq, or will be of a later session.
Made(op) ==
    IF op.site = External
    THEN op.seq <= external
    ELSE /\ op.session <= session[op.site]
         /\ (isOpen[op.site] /\ op.session = session[op.site]) => op.seq <= lastSent[op.site]

MadeBy(c) == {op \in Op : op.site = c /\ Made(op)}

\* What c may have in flight: ops it has sent and the owner has not sequenced.
InFlight(c) == MadeBy(c) \ OpsIn(history)

\* Ops of one site and session with consecutive site seqs, the last one
\* with site seq "last".
RunOf(s, c, last, sess) ==
    \A k \in 1..Len(s) : s[k] = [site |-> c, seq |-> last - Len(s) + k, session |-> sess]

\* The local history is the last ops made in this session.
LocalRun(c) == RunOf(local[c], c, siteSeq[c], session[c])

ClosedIsEmpty(c) == isOpen[c] = FALSE => base[c] = 0 /\ global[c] = << >>

HistoryMade == \A i \in 1..Len(history) : Made(history[i])

LogInv ==
    /\ HistoryMade /\ DistinctIn(history)
    /\ \A c \in Clients : LocalRun(c) /\ ClosedIsEmpty(c) /\ FlightOk(toServer[c], InFlight(c))

-----------------------------------------------------------------------------
(* Queues with batches *)

LEMMA FlightNone ==
    ASSUME NEW A
    PROVE  FlightOk(<< >>, A)
  BY DEF FlightOk

LEMMA FlightMonotone ==
    ASSUME NEW q, NEW A, NEW B, A \subseteq B, FlightOk(q, A)
    PROVE  FlightOk(q, B)
  BY DEF FlightOk

\* What is left when message i is taken out.
LEMMA WithoutElements ==
    ASSUME NEW S, NEW q \in Seq(S), NEW i \in 1..Len(q)
    PROVE  /\ Len(Without(q, i)) = Len(q) - 1
           /\ \A j \in 1..Len(Without(q, i)) : LET k == IF j < i THEN j ELSE j + 1
                                                IN  /\ k \in 1..Len(q) /\ k # i
                                                    /\ Without(q, i)[j] = q[k]
  <1>1. Len(q) \in Nat /\ Len(q) - 1 \in Nat
    BY LenProperties
  <1>2. Without(q, i) \in [1..(Len(q) - 1) -> {q[k] : k \in 1..Len(q)}]
    BY <1>1 DEF Without
  <1>3. Len(Without(q, i)) = Len(q) - 1
    BY <1>1, <1>2, FunctionIsSeq
  <1>4. ASSUME NEW j \in 1..(Len(q) - 1)
        PROVE  LET k == IF j < i THEN j ELSE j + 1
               IN  k \in 1..Len(q) /\ k # i /\ Without(q, i)[j] = q[k]
    BY <1>1 DEF Without
  <1> QED BY <1>3, <1>4

\* A batch that leaves the queue takes its ops along.
LEMMA FlightWithout ==
    ASSUME NEW S, NEW q \in Seq(S), NEW i \in 1..Len(q), NEW A, FlightOk(q, A)
    PROVE  FlightOk(Without(q, i), A \ BatchOps(q[i]))
  <1> DEFINE r == Without(q, i)
             at(j) == IF j < i THEN j ELSE j + 1
  <1>1. /\ Len(r) \in Nat
        /\ \A j \in 1..Len(r) : at(j) \in 1..Len(q) /\ at(j) # i /\ r[j] = q[at(j)]
    BY WithoutElements, LenProperties
  <1>2. \A j, k \in 1..Len(r) : j # k => at(j) # at(k)
    BY <1>1
  <1> HIDE DEF r, at
  <1>3. ASSUME NEW j \in 1..Len(r)
        PROVE  /\ BatchOps(r[j]) \subseteq A \ BatchOps(q[i])
               /\ r[j].type = "OpFromClient" => DistinctIn(r[j].ops)
    BY <1>1, <1>3 DEF FlightOk
  <1>4. ASSUME NEW j \in 1..Len(r), NEW k \in 1..Len(r), j # k
        PROVE  BatchOps(r[j]) \cap BatchOps(r[k]) = {}
    BY <1>1, <1>2, <1>4 DEF FlightOk
  <1> QED
    BY <1>3, <1>4 DEF FlightOk, r

\* Messages that follow are no batches, or one batch of ops not in flight.
LEMMA FlightAppend ==
    ASSUME NEW q \in Seq(BatchMsg), NEW msgs \in Seq(BatchMsg), NEW A, FlightOk(q, A),
           \A k \in 1..Len(msgs) : msgs[k].type # "OpFromClient"
    PROVE  FlightOk(q \o msgs, A)
  <1>1. /\ Len(q) \in Nat /\ Len(msgs) \in Nat /\ Len(q \o msgs) = Len(q) + Len(msgs)
        /\ \A k \in 1..(Len(q) + Len(msgs)) :
             (q \o msgs)[k] = IF k <= Len(q) THEN q[k] ELSE msgs[k - Len(q)]
    BY ConcatProperties, LenProperties
  <1>2. \A k \in 1..Len(q \o msgs) :
          \/ k \in 1..Len(q) /\ (q \o msgs)[k] = q[k]
          \/ (q \o msgs)[k].type # "OpFromClient"
    BY <1>1
  <1> QED
    BY <1>2 DEF FlightOk, BatchOps

LEMMA FlightSend ==
    ASSUME NEW q \in Seq(BatchMsg), NEW A, NEW B, A \subseteq B, FlightOk(q, A),
           NEW m \in BatchMsg, BatchOps(m) \subseteq B \ A,
           m.type = "OpFromClient" => DistinctIn(m.ops)
    PROVE  FlightOk(q \o <<m>>, B)
  <1>1. /\ Len(q) \in Nat /\ Len(q \o <<m>>) = Len(q) + 1
        /\ \A k \in 1..(Len(q) + 1) : (q \o <<m>>)[k] = IF k <= Len(q) THEN q[k] ELSE m
    BY ConcatProperties, LenProperties
  <1>2. \A k \in 1..Len(q \o <<m>>) :
          \/ k \in 1..Len(q) /\ (q \o <<m>>)[k] = q[k]
          \/ k = Len(q) + 1 /\ (q \o <<m>>)[k] = m
    BY <1>1
  <1>3. \A k \in 1..Len(q) : BatchOps(q[k]) \subseteq A
                              /\ (q[k].type = "OpFromClient" => DistinctIn(q[k].ops))
    BY DEF FlightOk
  <1>4. \A i, j \in 1..Len(q) : i # j => BatchOps(q[i]) \cap BatchOps(q[j]) = {}
    BY DEF FlightOk
  <1> DEFINE r == q \o <<m>>
  <1>5. \A k \in 1..Len(r) : BatchOps(r[k]) \subseteq B
                              /\ (r[k].type = "OpFromClient" => DistinctIn(r[k].ops))
    BY <1>2, <1>3
  <1>6. ASSUME NEW i \in 1..Len(r), NEW j \in 1..Len(r), i # j
        PROVE  BatchOps(r[i]) \cap BatchOps(r[j]) = {}
    <2>1. CASE i \in 1..Len(q) /\ j \in 1..Len(q)
      <3>1. r[i] = q[i] /\ r[j] = q[j]
        BY <1>1, <2>1
      <3> QED BY <1>4, <1>6, <2>1, <3>1
    <2>2. CASE i \in 1..Len(q) /\ r[j] = m
      <3>1. r[i] = q[i]
        BY <1>1, <2>2
      <3> QED BY <1>3, <2>2, <3>1
    <2>3. CASE r[i] = m /\ j \in 1..Len(q)
      <3>1. r[j] = q[j]
        BY <1>1, <2>3
      <3> QED BY <1>3, <2>3, <3>1
    <2> QED BY <1>2, <1>6, <2>1, <2>2, <2>3
  <1> QED BY <1>5, <1>6 DEF FlightOk
-----------------------------------------------------------------------------
(* The invariant *)

\* The queue of a client loses messages, or gets some that are no batches.
QuietQueue(d) ==
    \/ toServer'[d] \in {toServer[d], << >>}
    \/ \E msgs \in Seq(BatchMsg) :
         /\ \A k \in 1..Len(msgs) : msgs[k].type # "OpFromClient"
         /\ toServer'[d] = toServer[d] \o msgs
    \/ \E i \in 1..Len(toServer[d]) : toServer'[d] = Without(toServer[d], i)

\* Steps by what they do to ops: none is sent or sequenced; a batch is accepted.
\* The others are SendOps and ResetDocFromDisk.
Quiet ==
    /\ UNCHANGED <<history, external>>
    /\ \/ UNCHANGED <<isOpen, session, engineVars>>
       \/ \E c \in Clients : \E seq \in Nat : NewRemoteDoc(c, seq) \/ DropRemoteDoc(c)
    /\ \A d \in Clients : QuietQueue(d)

Accepts(c, i) ==
    /\ toServer[c][i].type = "OpFromClient"
    /\ c \in Writers /\ subscribers[c] # NotSubscribed /\ Expected(c, toServer[c][i])
    /\ history' = history \o toServer[c][i].ops
    /\ toServer' = [toServer EXCEPT ![c] = Without(@, i)]
    /\ UNCHANGED <<isOpen, session, engineVars, external>>

\* A step after which every op made before is still one that was made: the
\* site seqs sent grow within a session, and the sessions grow.
MadeStep ==
    /\ external <= external'
    /\ \A c \in Clients :
         \/ /\ session'[c] = session[c]
            /\ isOpen'[c] => isOpen[c] /\ lastSent[c] <= lastSent'[c]
         \/ session'[c] = session[c] + 1

LEMMA MadeGrows ==
    ASSUME TypeInv, TypeInv', MadeStep
    PROVE  /\ \A op \in Op : Made(op) => Made(op)'
           /\ \A c \in Clients : MadeBy(c) \subseteq MadeBy(c)'
  <1>1. /\ external \in Nat /\ external' \in Nat
        /\ session \in [Clients -> Nat] /\ session' \in [Clients -> Nat]
        /\ lastSent \in [Clients -> Nat] /\ lastSent' \in [Clients -> Nat]
    BY DEF TypeInv, BoundType, ClientType, EngineType
  <1>2. ASSUME NEW op \in Op, Made(op) PROVE Made(op)'
    <2>1. op.site \in Clients \cup {External} /\ op.seq \in Nat /\ op.session \in Nat
      BY DEF Op
    <2>2. CASE op.site = External
      BY <1>1, <1>2, <2>1, <2>2 DEF Made, MadeStep
    <2>3. CASE op.site # External
      <3> DEFINE c == op.site
      <3>1. c \in Clients
        BY <2>1, <2>3
      <3>2. op.session <= session[c] /\ ((isOpen[c] /\ op.session = session[c]) => op.seq <= lastSent[c])
        BY <1>2, <2>3 DEF Made
      <3>3. \/ /\ session'[c] = session[c]
               /\ isOpen'[c] => isOpen[c] /\ lastSent[c] <= lastSent'[c]
            \/ session'[c] = session[c] + 1
        BY <3>1 DEF MadeStep
      <3>4. session[c] \in Nat /\ session'[c] \in Nat /\ lastSent[c] \in Nat /\ lastSent'[c] \in Nat
        BY <1>1, <3>1
      <3> HIDE DEF c
      <3>5. op.session <= session'[c]
            /\ ((isOpen'[c] /\ op.session = session'[c]) => op.seq <= lastSent'[c])
        BY <2>1, <3>2, <3>3, <3>4
      <3> QED BY <2>3, <3>5 DEF Made, c
    <2> QED BY <2>2, <2>3
  <1> QED BY <1>2 DEF MadeBy

\* A step that leaves the history alone keeps its ops made.
LEMMA HistorySame ==
    ASSUME TypeInv, TypeInv', MadeStep, LogInv, history' = history
    PROVE  /\ HistoryMade' /\ DistinctIn(history')
           /\ \A c \in Clients : InFlight(c) \subseteq InFlight(c)'
  <1>1. \A i \in 1..Len(history) : history[i] \in Op
    BY ElementOfSeq DEF TypeInv, ServerType
  <1>2. HistoryMade'
    BY <1>1, MadeGrows DEF LogInv, HistoryMade
  <1> QED
    BY <1>2, MadeGrows DEF LogInv, InFlight

\* Steps that send the owner nothing, or no batch.
LEMMA NoBatchSent ==
    ASSUME TypeInv, TypeInv', LogInv, NEW d \in Clients, InFlight(d) \subseteq InFlight(d)',
           QuietQueue(d)
    PROVE  FlightOk(toServer[d], InFlight(d))'
  <1>1. toServer[d] \in Seq(BatchMsg) /\ FlightOk(toServer[d], InFlight(d))
    BY DEF TypeInv, NetType, LogInv
  <1>2. FlightOk(toServer[d], InFlight(d)')
    BY <1>1, FlightMonotone
  <1>3. CASE toServer'[d] \in {toServer[d], << >>}
    BY <1>2, <1>3, FlightNone
  <1>4. ASSUME NEW msgs \in Seq(BatchMsg),
               \A k \in 1..Len(msgs) : msgs[k].type # "OpFromClient",
               toServer'[d] = toServer[d] \o msgs
        PROVE  FlightOk(toServer'[d], InFlight(d)')
    BY <1>1, <1>2, <1>4, FlightAppend
  <1>5. ASSUME NEW i \in 1..Len(toServer[d]), toServer'[d] = Without(toServer[d], i)
        PROVE  FlightOk(toServer'[d], InFlight(d)')
    <2>1. FlightOk(Without(toServer[d], i), InFlight(d)' \ BatchOps(toServer[d][i]))
      BY <1>1, <1>2, FlightWithout
    <2> QED BY <1>5, <2>1, FlightMonotone
  <1> QED BY <1>3, <1>4, <1>5 DEF QuietQueue

\* What ToServer does to the queue of each client.
LEMMA ToServerQueues ==
    ASSUME TypeInv, NEW c \in Clients, NEW msgs \in Seq(BatchMsg), ToServer(c, msgs)
    PROVE  \A d \in Clients :
             toServer'[d] = (IF d = c /\ up[c] THEN toServer[c] \o msgs ELSE toServer[d])
  BY DEF TypeInv, NetType, ToServer, Sent

\* A RemoteDoc that is created or dropped has an empty history.
LEMMA DocReplaced ==
    ASSUME TypeInv, LogInv, external' = external,
           NEW c \in Clients, NEW seq, NewRemoteDoc(c, seq) \/ DropRemoteDoc(c)
    PROVE  /\ MadeStep
           /\ \A d \in Clients : LocalRun(d)' /\ ClosedIsEmpty(d)'
  <1>1. /\ isOpen \in [Clients -> BOOLEAN] /\ session \in [Clients -> Nat]
        /\ base \in [Clients -> Nat] /\ global \in [Clients -> Seq(Op)]
        /\ local \in [Clients -> Seq(Op)] /\ siteSeq \in [Clients -> Nat]
        /\ lastSent \in [Clients -> Nat] /\ external \in Nat
    BY DEF TypeInv, ClientType, EngineType, BoundType
  <1>2. \A d \in Clients : d # c =>
          /\ isOpen'[d] = isOpen[d] /\ session'[d] = session[d] /\ base'[d] = base[d]
          /\ global'[d] = global[d] /\ local'[d] = local[d] /\ siteSeq'[d] = siteSeq[d]
          /\ lastSent'[d] = lastSent[d]
    BY <1>1 DEF NewRemoteDoc, DropRemoteDoc
  <1>3. /\ global'[c] = << >> /\ local'[c] = << >>
        /\ \/ isOpen'[c] = TRUE /\ session'[c] = session[c] + 1
           \/ isOpen'[c] = FALSE /\ session'[c] = session[c] /\ base'[c] = 0
    BY <1>1 DEF NewRemoteDoc, DropRemoteDoc
  <1>4. MadeStep
    BY <1>1, <1>2, <1>3 DEF MadeStep
  <1>5. ASSUME NEW d \in Clients PROVE LocalRun(d)' /\ ClosedIsEmpty(d)'
    <2>1. CASE d = c
      BY <1>3, <2>1 DEF LocalRun, RunOf, ClosedIsEmpty
    <2>2. CASE d # c
      BY <1>2, <2>2 DEF LogInv, LocalRun, ClosedIsEmpty
    <2> QED BY <2>1, <2>2
  <1> QED BY <1>4, <1>5

\* Nothing of it changes.
LEMMA DocsSame ==
    ASSUME TypeInv, LogInv, external' = external \/ external' = external + 1,
           UNCHANGED <<isOpen, session, engineVars>>
    PROVE  /\ MadeStep
           /\ \A d \in Clients : LocalRun(d)' /\ ClosedIsEmpty(d)'
  <1>1. external \in Nat /\ lastSent \in [Clients -> Nat]
    BY DEF TypeInv, BoundType, ClientType, EngineType
  <1>2. /\ isOpen' = isOpen /\ session' = session /\ lastSent' = lastSent
        /\ base' = base /\ global' = global /\ local' = local /\ siteSeq' = siteSeq
    BY DEF engineVars
  <1>3. MadeStep
    BY <1>1, <1>2 DEF MadeStep
  <1>4. \A d \in Clients : LocalRun(d)' /\ ClosedIsEmpty(d)'
    BY <1>2 DEF LogInv, LocalRun, ClosedIsEmpty
  <1> QED BY <1>3, <1>4

\* The parts together, for steps that leave the history alone.
LEMMA QuietStep ==
    ASSUME TypeInv, TypeInv', LogInv, history' = history, MadeStep,
           \A d \in Clients : LocalRun(d)' /\ ClosedIsEmpty(d)',
           \A d \in Clients : QuietQueue(d)
    PROVE  LogInv'
  <1>1. /\ HistoryMade' /\ DistinctIn(history')
        /\ \A d \in Clients : InFlight(d) \subseteq InFlight(d)'
    BY HistorySame
  <1>2. \A d \in Clients : FlightOk(toServer[d], InFlight(d))'
    BY <1>1, NoBatchSent
  <1> QED BY <1>1, <1>2 DEF LogInv

\* A message to the owner that is no batch.
LEMMA QuietMessage ==
    ASSUME TypeInv, NEW c \in Clients, NEW msgs \in Seq(BatchMsg), ToServer(c, msgs),
           \A k \in 1..Len(msgs) : msgs[k].type # "OpFromClient"
    PROVE  \A d \in Clients : QuietQueue(d)
  BY ToServerQueues DEF QuietQueue

\* Sequences of no or one message that is no batch.
LEMMA QuietMessages ==
    /\ << >> \in Seq(BatchMsg) /\ \A k \in 1..Len(<< >>) : << >>[k].type # "OpFromClient"
    /\ \A m \in BatchMsg : m.type # "OpFromClient" =>
         <<m>> \in Seq(BatchMsg) /\ \A k \in 1..Len(<<m>>) : <<m>>[k].type # "OpFromClient"
  <1>1. \A k \in 1..Len(<< >>) : << >>[k].type # "OpFromClient"
    BY EmptySeq
  <1>2. ASSUME NEW m \in BatchMsg, m.type # "OpFromClient"
        PROVE  <<m>> \in Seq(BatchMsg) /\ \A k \in 1..Len(<<m>>) : <<m>>[k].type # "OpFromClient"
    <2>1. <<m>> \in Seq(BatchMsg) /\ Len(<<m>>) = 1 /\ <<m>>[1] = m
      OBVIOUS
    <2> QED BY <1>2, <2>1
  <1> QED BY <1>1, <1>2, EmptySeq

-----------------------------------------------------------------------------
(* What SendOps sends *)

\* What is left of a sequence when its first ops are dropped.
LEMMA SubSeqTail ==
    ASSUME NEW S, NEW s \in Seq(S), NEW n \in Nat
    PROVE  LET rest == SubSeq(s, n + 1, Len(s))
           IN  /\ rest \in Seq(S)
               /\ Len(rest) = (IF n < Len(s) THEN Len(s) - n ELSE 0)
               /\ \A k \in 1..Len(rest) : rest[k] = s[n + k] /\ n + k \in 1..Len(s)
  <1> DEFINE rest == SubSeq(s, n + 1, Len(s))
  <1>1. Len(s) \in Nat /\ n + 1 \in Nat
    BY LenProperties
  <1>2. \A j \in (n + 1)..Len(s) : s[j] \in S
    BY <1>1, ElementOfSeq
  <1>3. rest \in Seq(S) /\ Len(rest) = (IF n < Len(s) THEN Len(s) - n ELSE 0)
    BY <1>1, <1>2, SubSeqProperties
  <1>4. \A k \in 1..Len(rest) : rest[k] = s[n + k]
    BY <1>1, <1>3, SubSeqProperties
  <1> HIDE DEF rest
  <1>5. \A k \in 1..Len(rest) : n + k \in 1..Len(s)
    BY <1>1, <1>3
  <1> QED BY <1>3, <1>4, <1>5 DEF rest

LEMMA RunConcat ==
    ASSUME NEW c, NEW sess, NEW s \in Seq(Op), NEW t \in Seq(Op), NEW last \in Nat,
           RunOf(s, c, last, sess), RunOf(t, c, last + Len(t), sess)
    PROVE  RunOf(s \o t, c, last + Len(t), sess)
  <1>1. /\ Len(s) \in Nat /\ Len(t) \in Nat /\ Len(s \o t) = Len(s) + Len(t)
        /\ \A k \in 1..(Len(s) + Len(t)) :
             (s \o t)[k] = IF k <= Len(s) THEN s[k] ELSE t[k - Len(s)]
    BY ConcatProperties, LenProperties
  <1>2. ASSUME NEW k \in 1..(Len(s) + Len(t))
        PROVE  (s \o t)[k] = [site |-> c, seq |-> last - Len(s) + k, session |-> sess]
    <2>1. CASE k <= Len(s)
      BY <1>1, <2>1 DEF RunOf
    <2>2. CASE ~(k <= Len(s))
      <3> DEFINE j == k - Len(s)
      <3>1. j \in 1..Len(t) /\ (s \o t)[k] = t[j]
        BY <1>1, <2>2
      <3>2. last + Len(t) - Len(t) + j = last - Len(s) + k
        BY <1>1
      <3> HIDE DEF j
      <3> QED BY <3>1, <3>2 DEF RunOf
    <2> QED BY <2>1, <2>2
  <1>3. last + Len(t) - Len(s \o t) = last - Len(s)
    BY <1>1
  <1> QED BY <1>1, <1>2, <1>3 DEF RunOf

LEMMA RunTail ==
    ASSUME NEW c, NEW sess, NEW s \in Seq(Op), NEW last \in Nat, NEW n \in Nat,
           RunOf(s, c, last, sess)
    PROVE  RunOf(SubSeq(s, n + 1, Len(s)), c, last, sess)
  <1> DEFINE rest == SubSeq(s, n + 1, Len(s))
  <1>1. /\ Len(s) \in Nat
        /\ Len(rest) = (IF n < Len(s) THEN Len(s) - n ELSE 0)
        /\ \A k \in 1..Len(rest) : rest[k] = s[n + k] /\ n + k \in 1..Len(s)
    BY SubSeqTail, LenProperties
  <1> HIDE DEF rest
  <1>2. ASSUME NEW k \in 1..Len(rest)
        PROVE  rest[k] = [site |-> c, seq |-> last - Len(rest) + k, session |-> sess]
    <2>1. Len(rest) = Len(s) - n /\ n + k \in 1..Len(s) /\ rest[k] = s[n + k]
      BY <1>1
    <2>2. s[n + k] = [site |-> c, seq |-> last - Len(s) + (n + k), session |-> sess]
      BY <2>1 DEF RunOf
    <2>3. last - Len(s) + (n + k) = last - (Len(s) - n) + k
      BY <1>1
    <2> QED BY <2>1, <2>2, <2>3
  <1> QED BY <1>2 DEF RunOf, rest

\* The unacknowledged part of the local history after n more ops is again
\* the last ops made.
LEMMA PendingRun ==
    ASSUME TypeInv, LogInv, NEW c \in Clients, NEW n \in Nat, NEW acked \in Nat
    PROVE  LET pending == NewLocal(c, n)
               rest    == SubSeq(pending, acked + 1, Len(pending))
           IN  /\ pending \in Seq(Op) /\ Len(pending) = Len(local[c]) + n
               /\ rest \in Seq(Op)
               /\ Len(rest) = (IF acked < Len(pending) THEN Len(pending) - acked ELSE 0)
               /\ RunOf(pending, c, siteSeq[c] + n, session[c])
               /\ RunOf(rest, c, siteSeq[c] + n, session[c])
  <1> DEFINE pending == NewLocal(c, n)
             more    == [k \in 1..n |-> [site |-> c, seq |-> siteSeq[c] + k,
                                        session |-> session[c]]]
  <1>1. /\ local[c] \in Seq(Op) /\ Len(local[c]) \in Nat
        /\ siteSeq[c] \in Nat /\ session[c] \in Nat
    BY LenProperties DEF TypeInv, ClientType, EngineType
  <1>2. more \in Seq(Op) /\ Len(more) = n
    <2>1. more \in [1..n -> Op]
      BY <1>1 DEF Op
    <2> HIDE DEF more
    <2> QED BY <2>1, FunctionIsSeq
  <1>3. pending = local[c] \o more
    BY DEF NewLocal
  <1>4. RunOf(more, c, siteSeq[c] + n, session[c])
    <2>1. \A k \in 1..n : (siteSeq[c] + n) - n + k = siteSeq[c] + k
      BY <1>1
    <2>2. \A k \in 1..n : more[k] = [site |-> c, seq |-> (siteSeq[c] + n) - n + k,
                                   session |-> session[c]]
      BY <2>1
    <2> HIDE DEF more, pending
    <2> QED BY <1>2, <2>2 DEF RunOf
  <1>5. RunOf(local[c], c, siteSeq[c], session[c])
    BY DEF LogInv, LocalRun
  <1> HIDE DEF pending, more
  <1>6. pending \in Seq(Op) /\ Len(pending) = Len(local[c]) + n
    BY <1>1, <1>2, <1>3, ConcatProperties
  <1>7. RunOf(pending, c, siteSeq[c] + n, session[c])
    BY <1>1, <1>2, <1>3, <1>4, <1>5, RunConcat
  <1>8. siteSeq[c] + n \in Nat
    BY <1>1
  <1> QED BY <1>6, <1>7, <1>8, SubSeqTail, RunTail DEF pending

\* Site seqs of a run: the ops are distinct, those of a run that starts after
\* "sent" are all later than it, none is later than the last one.
LEMMA RunSeqs ==
    ASSUME NEW c, NEW sess, NEW s \in Seq(Op), NEW last \in Nat, RunOf(s, c, last, sess),
           s # << >>
    PROVE  /\ DistinctIn(s)
           /\ LastSeq(s) = last
           /\ \A k \in 1..Len(s) : s[1].seq <= s[k].seq /\ s[k].seq <= last
           /\ Len(s) \in Nat \ {0}
           /\ s[1].seq = last - Len(s) + 1
  <1>1. Len(s) \in Nat \ {0}
    BY EmptySeq
  <1>2. ASSUME NEW k \in 1..Len(s) PROVE s[k].seq = last - Len(s) + k
    <2>1. s[k] = [site |-> c, seq |-> last - Len(s) + k, session |-> sess]
      BY DEF RunOf
    <2> QED BY <2>1
  <1>3. DistinctIn(s)
    BY <1>1, <1>2 DEF DistinctIn
  <1>4. LastSeq(s) = last
    BY <1>1, <1>2 DEF LastSeq
  <1> QED BY <1>1, <1>2, <1>3, <1>4

\* AckCount is a number.
LEMMA AckCountType ==
    ASSUME TypeInv, NEW c \in Clients
    PROVE  AckCount(c) \in Nat
  <1>1. Len(buffer[c]) \in Nat
    BY LenProperties DEF TypeInv, ClientType
  <1>2. IsFiniteSet(1..Len(buffer[c]))
    BY <1>1, FS_Interval
  <1>3. Acks(c, Len(buffer[c])) \in SUBSET (1..Len(buffer[c]))
    BY DEF Acks
  <1> QED BY <1>2, <1>3, FS_Subset, FS_CardinalityType DEF AckCount

LEMMA SendOpsFresh ==
    ASSUME TypeInv, TypeInv', LogInv, NEW c \in Clients, NEW n \in 0..MaxBatch, SendOps(c, n)
    PROVE  LogInv'
  <1> DEFINE pending == NewLocal(c, n)
             rest    == SubSeq(pending, AckCount(c) + 1, Len(pending))
             m       == [type |-> "OpFromClient", context |-> Context(c), ops |-> rest]
             send    == PrevOpAcked(c, rest)
             last    == siteSeq[c] + n
  <1>1. /\ isOpen[c] = TRUE
        /\ local' = [local EXCEPT ![c] = rest]
        /\ siteSeq' = [siteSeq EXCEPT ![c] = @ + n]
        /\ lastSent' = [lastSent EXCEPT ![c] = IF send THEN LastSeq(rest) ELSE @]
        /\ ToServer(c, IF send THEN <<m>> ELSE << >>)
        /\ UNCHANGED <<history, isOpen, session, base, external>>
        /\ \A d \in Clients : d # c => global'[d] = global[d]
    BY DEF SendOps, serverVars, TypeInv, ClientType, EngineType
  <1>2. /\ n \in Nat /\ AckCount(c) \in Nat /\ external \in Nat
        /\ siteSeq \in [Clients -> Nat] /\ session \in [Clients -> Nat]
        /\ lastSent \in [Clients -> Nat] /\ local \in [Clients -> Seq(Op)]
    <2>1. n \in Nat
      BY BoundAssumption
    <2>2. AckCount(c) \in Nat
      BY AckCountType
    <2> QED BY <2>1, <2>2 DEF TypeInv, ClientType, EngineType, BoundType
  <1>3. rest \in Seq(Op) /\ RunOf(rest, c, last, session[c]) /\ last \in Nat
    <2> DEFINE Goal(a) ==
                 LET waiting == NewLocal(c, n)
                     left    == SubSeq(waiting, a + 1, Len(waiting))
                 IN  left \in Seq(Op) /\ RunOf(left, c, siteSeq[c] + n, session[c])
    <2>1. rest \in Seq(Op) /\ RunOf(rest, c, siteSeq[c] + n, session[c])
      <3>1. \A a \in Nat : Goal(a)
        <4> HIDE DEF rest, m, send, last, pending
        <4> QED BY <1>2, PendingRun
      <3> HIDE DEF m, send, last
      <3> QED BY <1>2, <3>1
    <2>2. last \in Nat
      BY <1>2
    <2> QED BY <2>1, <2>2
  <1>4. Context(c) \in Nat
    <2>1. base[c] \in Nat /\ global[c] \in Seq(Op) /\ buffer[c] \in Seq(Op)
      BY DEF TypeInv, ClientType, EngineType
    <2>2. Len(global[c]) \in Nat /\ Len(buffer[c]) \in Nat
      BY <2>1, LenProperties
    <2> QED BY <2>1, <2>2 DEF Context, CurrentSeq
  <1> HIDE DEF rest, last
  <1>5. send => /\ rest # << >> /\ DistinctIn(rest) /\ LastSeq(rest) = last
                /\ \A k \in 1..Len(rest) : lastSent[c] < rest[k].seq /\ rest[k].seq <= last
                /\ lastSent[c] <= last
                /\ \A k \in 1..Len(rest) : rest[k] \in Op /\ rest[k].site = c
                                            /\ rest[k].session = session[c]
    <2>1. lastSent[c] \in Nat
      BY <1>2
    <2>2. send => rest # << >> /\ rest[1].seq = lastSent[c] + 1
      BY DEF PrevOpAcked
    <2>3. \A k \in 1..Len(rest) : rest[k] \in Op
      BY <1>3, ElementOfSeq
    <2>4. ASSUME NEW k \in 1..Len(rest)
          PROVE  rest[k].site = c /\ rest[k].session = session[c]
      <3>1. rest[k] = [site |-> c, seq |-> last - Len(rest) + k, session |-> session[c]]
        BY <1>3 DEF RunOf
      <3> QED BY <3>1
    <2>5. \A k \in 1..Len(rest) : rest[k].seq \in Nat
      BY <2>3 DEF Op
    <2> HIDE DEF send
    <2>6. ASSUME send
          PROVE  /\ DistinctIn(rest) /\ LastSeq(rest) = last
                 /\ Len(rest) \in Nat \ {0}
                 /\ \A k \in 1..Len(rest) : rest[1].seq <= rest[k].seq /\ rest[k].seq <= last
      <3>1. rest # << >> /\ rest \in Seq(Op) /\ last \in Nat /\ RunOf(rest, c, last, session[c])
        BY <1>3, <2>2, <2>6
      <3> HIDE DEF pending, m
      <3>2. /\ DistinctIn(rest) /\ LastSeq(rest) = last
            /\ \A k \in 1..Len(rest) : rest[1].seq <= rest[k].seq /\ rest[k].seq <= last
        BY <3>1, RunSeqs
      <3>3. Len(rest) \in Nat \ {0}
        BY <3>1, RunSeqs
      <3> QED BY <3>2, <3>3
    <2>7. ASSUME send, NEW k \in 1..Len(rest)
          PROVE  lastSent[c] < rest[k].seq /\ rest[k].seq <= last
      BY <2>1, <2>2, <2>5, <2>6, <2>7
    <2>8. ASSUME send PROVE lastSent[c] <= last
      <3>1. 1 \in 1..Len(rest)
        BY <2>6, <2>8
      <3> QED BY <1>3, <2>1, <2>5, <2>7, <2>8, <3>1
    <2> QED BY <2>2, <2>3, <2>4, <2>6, <2>7, <2>8
  <1>6. /\ \A d \in Clients : d # c => /\ local'[d] = local[d] /\ siteSeq'[d] = siteSeq[d]
                                       /\ lastSent'[d] = lastSent[d]
        /\ local'[c] = rest /\ siteSeq'[c] = last
        /\ lastSent'[c] = IF send THEN LastSeq(rest) ELSE lastSent[c]
    BY <1>1, <1>2 DEF last
  <1> HIDE DEF send
  <1>7. MadeStep
    BY <1>1, <1>2, <1>3, <1>5, <1>6 DEF MadeStep
  <1>8. ASSUME NEW d \in Clients PROVE LocalRun(d)' /\ ClosedIsEmpty(d)'
    <2>1. CASE d = c
      BY <1>1, <1>3, <1>6, <2>1 DEF LocalRun, ClosedIsEmpty
    <2>2. CASE d # c
      BY <1>1, <1>6, <2>2 DEF LogInv, LocalRun, ClosedIsEmpty
    <2> QED BY <2>1, <2>2
  <1>9. CASE ~send
    <2>1. ToServer(c, << >>)
      BY <1>1, <1>9
    <2> QED BY <1>1, <1>7, <1>8, <2>1, QuietStep, QuietMessage, QuietMessages
  <1>10. CASE send
    <2>1. /\ HistoryMade' /\ DistinctIn(history')
          /\ \A d \in Clients : InFlight(d) \subseteq InFlight(d)'
      BY <1>1, <1>7, HistorySame
    <2>2. m \in BatchMsg /\ BatchOps(m) = OpsIn(rest) /\ m.type = "OpFromClient" /\ m.ops = rest
      BY <1>3, <1>4, <1>5, <1>10, MessageTypes DEF BatchOps
    <2>3. ToServer(c, <<m>>)
      BY <1>1, <1>10
    <2> HIDE DEF m
    <2>4. ASSUME NEW op \in OpsIn(rest)
          PROVE  op \in InFlight(c)' /\ op \notin InFlight(c)
      <3>1. c # External
        BY SiteAssumption
      <3>2. /\ op \in Op /\ op.site = c /\ op.session = session[c]
            /\ lastSent[c] < op.seq /\ op.seq <= lastSent'[c]
            /\ session[c] \in Nat /\ lastSent[c] \in Nat
            /\ op.seq \in Nat
        <4>1. PICK k \in 1..Len(rest) : op = rest[k]
          BY DEF OpsIn
        <4>2. /\ op \in Op /\ op.site = c /\ op.session = session[c]
              /\ lastSent[c] < op.seq /\ op.seq <= last
          BY <1>5, <1>10, <4>1
        <4>3. lastSent'[c] = last
          BY <1>5, <1>6, <1>10
        <4> QED BY <1>2, <4>2, <4>3 DEF Op
      <3>3. Made(op)'
        BY <1>1, <3>1, <3>2 DEF Made
      <3>4. ~Made(op)
        BY <1>1, <3>1, <3>2 DEF Made
      <3>5. op \notin OpsIn(history)
        BY <3>4 DEF OpsIn, LogInv, HistoryMade
      <3>6. op \in MadeBy(c)'
        BY <3>2, <3>3 DEF MadeBy
      <3> QED BY <1>1, <3>4, <3>5, <3>6 DEF InFlight, MadeBy
    <2>5. BatchOps(m) \subseteq InFlight(c)' \ InFlight(c)
      BY <2>2, <2>4
    <2>6. ASSUME NEW d \in Clients PROVE FlightOk(toServer[d], InFlight(d))'
      <3>1. toServer[d] \in Seq(BatchMsg) /\ FlightOk(toServer[d], InFlight(d))
        BY DEF TypeInv, NetType, LogInv
      <3>2. <<m>> \in Seq(BatchMsg)
        BY <2>2, Single
      <3>3. toServer'[d] = (IF d = c /\ up[c] THEN toServer[c] \o <<m>> ELSE toServer[d])
        BY <2>3, <3>2, ToServerQueues
      <3>4. CASE d = c /\ up[c]
        <4>1. FlightOk(toServer[c] \o <<m>>, InFlight(c)')
          BY <1>5, <1>10, <2>1, <2>2, <2>5, <3>1, <3>4, FlightSend
        <4> QED BY <3>3, <3>4, <4>1
      <3>5. CASE ~(d = c /\ up[c])
        BY <2>1, <3>1, <3>3, <3>5, FlightMonotone
      <3> QED BY <3>4, <3>5
    <2> QED BY <1>8, <2>1, <2>6 DEF LogInv
  <1> QED BY <1>9, <1>10

-----------------------------------------------------------------------------
(* The history grows *)

LEMMA OpsInConcat ==
    ASSUME NEW s \in Seq(Op), NEW t \in Seq(Op)
    PROVE  OpsIn(s \o t) = OpsIn(s) \cup OpsIn(t)
  <1>1. /\ Len(s) \in Nat /\ Len(t) \in Nat /\ Len(s \o t) = Len(s) + Len(t)
        /\ \A k \in 1..(Len(s) + Len(t)) :
             (s \o t)[k] = IF k <= Len(s) THEN s[k] ELSE t[k - Len(s)]
    BY ConcatProperties, LenProperties
  <1>2. ASSUME NEW k \in 1..Len(s) PROVE s[k] \in OpsIn(s \o t)
    <2>1. k \in 1..(Len(s) + Len(t)) /\ (s \o t)[k] = s[k]
      BY <1>1
    <2> QED BY <1>1, <2>1 DEF OpsIn
  <1>3. ASSUME NEW k \in 1..Len(t) PROVE t[k] \in OpsIn(s \o t)
    <2>1. Len(s) + k \in 1..(Len(s) + Len(t)) /\ (s \o t)[Len(s) + k] = t[k]
      BY <1>1
    <2> QED BY <1>1, <2>1 DEF OpsIn
  <1>4. ASSUME NEW k \in 1..Len(s \o t) PROVE (s \o t)[k] \in OpsIn(s) \cup OpsIn(t)
    <2>1. CASE k <= Len(s)
      BY <1>1, <2>1 DEF OpsIn
    <2>2. CASE ~(k <= Len(s))
      <3>1. k - Len(s) \in 1..Len(t) /\ (s \o t)[k] = t[k - Len(s)]
        BY <1>1, <2>2
      <3> QED BY <3>1 DEF OpsIn
    <2> QED BY <2>1, <2>2
  <1> QED BY <1>2, <1>3, <1>4 DEF OpsIn

\* Appending distinct ops none of which is there yet.
LEMMA DistinctConcat ==
    ASSUME NEW s \in Seq(Op), NEW t \in Seq(Op), DistinctIn(s), DistinctIn(t),
           OpsIn(s) \cap OpsIn(t) = {}
    PROVE  DistinctIn(s \o t)
  <1>1. /\ Len(s) \in Nat /\ Len(t) \in Nat /\ Len(s \o t) = Len(s) + Len(t)
        /\ \A k \in 1..(Len(s) + Len(t)) :
             (s \o t)[k] = IF k <= Len(s) THEN s[k] ELSE t[k - Len(s)]
    BY ConcatProperties, LenProperties
  <1>2. \A k \in 1..(Len(s) + Len(t)) :
          \/ k \in 1..Len(s) /\ (s \o t)[k] = s[k]
          \/ k - Len(s) \in 1..Len(t) /\ (s \o t)[k] = t[k - Len(s)]
    BY <1>1
  <1>3. \A k \in 1..Len(s), l \in 1..Len(t) : s[k] # t[l]
    BY DEF OpsIn
  <1>4. \A k, l \in 1..(Len(s) + Len(t)) : k # l => (s \o t)[k] # (s \o t)[l]
    <2> SUFFICES ASSUME NEW k \in 1..(Len(s) + Len(t)), NEW l \in 1..(Len(s) + Len(t)), k # l
                 PROVE  (s \o t)[k] # (s \o t)[l]
      OBVIOUS
    <2>1. CASE k \in 1..Len(s) /\ l \in 1..Len(s)
      <3>1. (s \o t)[k] = s[k] /\ (s \o t)[l] = s[l]
        BY <1>1, <2>1
      <3> QED BY <2>1, <3>1 DEF DistinctIn
    <2>2. CASE k - Len(s) \in 1..Len(t) /\ l - Len(s) \in 1..Len(t)
      <3>1. (s \o t)[k] = t[k - Len(s)] /\ (s \o t)[l] = t[l - Len(s)]
        BY <1>1, <2>2
      <3>2. k - Len(s) # l - Len(s)
        BY <1>1
      <3> QED BY <2>2, <3>1, <3>2 DEF DistinctIn
    <2>3. CASE k \in 1..Len(s) /\ l - Len(s) \in 1..Len(t)
      <3>1. (s \o t)[k] = s[k] /\ (s \o t)[l] = t[l - Len(s)]
        BY <1>1, <2>3
      <3> QED BY <1>3, <2>3, <3>1
    <2>4. CASE l \in 1..Len(s) /\ k - Len(s) \in 1..Len(t)
      <3>1. (s \o t)[l] = s[l] /\ (s \o t)[k] = t[k - Len(s)]
        BY <1>1, <2>4
      <3> QED BY <1>3, <2>4, <3>1
    <2> QED BY <1>1, <2>1, <2>2, <2>3, <2>4
  <1> QED BY <1>1, <1>4 DEF DistinctIn

LEMMA HistoryAppended ==
    ASSUME TypeInv, TypeInv', LogInv, MadeStep, NEW ops \in Seq(Op), history' = history \o ops,
           DistinctIn(ops), OpsIn(history) \cap OpsIn(ops) = {},
           \A op \in OpsIn(ops) : Made(op)'
    PROVE  /\ HistoryMade' /\ DistinctIn(history')
           /\ OpsIn(history') = OpsIn(history) \cup OpsIn(ops)
  <1>1. history \in Seq(Op) /\ \A i \in 1..Len(history) : history[i] \in Op
    BY ElementOfSeq DEF TypeInv, ServerType
  <1>2. OpsIn(history') = OpsIn(history) \cup OpsIn(ops)
    BY <1>1, OpsInConcat
  <1>3. \A op \in OpsIn(history) : Made(op)'
    BY <1>1, MadeGrows DEF LogInv, HistoryMade, OpsIn
  <1>4. HistoryMade'
    BY <1>2, <1>3 DEF HistoryMade, OpsIn
  <1> QED BY <1>1, <1>2, <1>4, DistinctConcat DEF LogInv

\* A batch that is accepted.
LEMMA AcceptFresh ==
    ASSUME TypeInv, TypeInv', LogInv, NEW c \in Clients, NEW i \in 1..Len(toServer[c]),
           Accepts(c, i)
    PROVE  LogInv' /\ OpsIn(history) \cap OpsIn(toServer[c][i].ops) = {}
  <1> DEFINE m == toServer[c][i]
  <1>1. toServer[c] \in Seq(BatchMsg) /\ m \in BatchMsg
    BY ElementOfSeq DEF TypeInv, NetType
  <1>2. m.ops \in Seq(Op) /\ m.type = "OpFromClient" /\ BatchOps(m) = OpsIn(m.ops)
    BY <1>1, MessageFields DEF BatchOps, Accepts
  <1>3. FlightOk(toServer[c], InFlight(c))
    BY DEF LogInv
  <1>4. BatchOps(m) \subseteq InFlight(c) /\ DistinctIn(m.ops)
    BY <1>2, <1>3 DEF FlightOk
  <1>5. OpsIn(history) \cap OpsIn(m.ops) = {} /\ OpsIn(m.ops) \subseteq MadeBy(c)
    BY <1>2, <1>4 DEF InFlight
  <1>6. MadeStep /\ \A d \in Clients : LocalRun(d)' /\ ClosedIsEmpty(d)'
    BY DocsSame DEF Accepts
  <1>7. \A d \in Clients : MadeBy(d) \subseteq MadeBy(d)'
    BY <1>6, MadeGrows
  <1> DEFINE ops == m.ops
  <1>8. /\ ops \in Seq(Op) /\ history' = history \o ops /\ DistinctIn(ops)
        /\ OpsIn(history) \cap OpsIn(ops) = {} /\ OpsIn(ops) \subseteq MadeBy(c)
        /\ BatchOps(m) = OpsIn(ops)
    BY <1>2, <1>4, <1>5 DEF Accepts
  <1>9. PICK t : t = ops
    OBVIOUS
  <1> HIDE DEF ops, m
  <1>10. \A op \in OpsIn(t) : Made(op)'
    BY <1>7, <1>8, <1>9 DEF MadeBy
  <1>11. /\ HistoryMade' /\ DistinctIn(history')
         /\ OpsIn(history') = OpsIn(history) \cup OpsIn(t)
    BY <1>6, <1>8, <1>9, <1>10, HistoryAppended
  <1>12. ASSUME NEW d \in Clients PROVE FlightOk(toServer[d], InFlight(d))'
    <2>1. CASE d = c
      <3>1. FlightOk(Without(toServer[c], i), InFlight(c) \ BatchOps(m))
        BY <1>1, <1>3, FlightWithout DEF m
      <3>2. InFlight(c) \ BatchOps(m) \subseteq InFlight(c)'
        BY <1>7, <1>8, <1>9, <1>11 DEF InFlight
      <3>3. toServer'[c] = Without(toServer[c], i)
        BY DEF TypeInv, NetType, Accepts
      <3> QED BY <2>1, <3>1, <3>2, <3>3, FlightMonotone
    <2>2. CASE d # c
      <3>1. InFlight(d) \subseteq InFlight(d)'
        BY <1>7, <1>8, <1>9, <1>11, <2>2 DEF InFlight, MadeBy
      <3>2. toServer'[d] = toServer[d]
        BY <2>2 DEF TypeInv, NetType, Accepts
      <3> QED BY <3>1, <3>2, FlightMonotone DEF LogInv
    <2> QED BY <2>1, <2>2
  <1>13. LogInv'
    BY <1>6, <1>11, <1>12 DEF LogInv
  <1> QED BY <1>5, <1>13 DEF m

\* A change on disk is an op that was not there before.
LEMMA ResetFresh ==
    ASSUME TypeInv, TypeInv', LogInv, ResetDocFromDisk
    PROVE  /\ LogInv'
           /\ \E op \in Op : history' = Append(history, op) /\ op \notin OpsIn(history)
  <1> DEFINE new == [site |-> External, seq |-> external + 1, session |-> 0]
  <1>1. external \in Nat /\ history \in Seq(Op)
    BY DEF TypeInv, BoundType, ServerType
  <1>2. /\ history' = Append(history, new) /\ external' = external + 1
        /\ UNCHANGED <<isOpen, session, engineVars, toServer>>
    BY DEF ResetDocFromDisk, clientVars, engineVars
  <1>3. PICK op \in Op : op = new
    <2>1. new \in Op
      BY <1>1 DEF Op
    <2> QED BY <2>1
  <1>4. /\ op.site = External /\ op.seq = external + 1 /\ history' = Append(history, op)
    BY <1>2, <1>3
  <1>5. op \notin OpsIn(history)
    BY <1>1, <1>4 DEF OpsIn, LogInv, HistoryMade, Made
  <1>6. Made(op)'
    BY <1>1, <1>2, <1>4 DEF Made
  <1>7. history' = history \o <<op>> /\ <<op>> \in Seq(Op)
    BY <1>1, <1>4, AppendIsConcat
  <1>8. OpsIn(<<op>>) = {op} /\ DistinctIn(<<op>>)
    BY DEF OpsIn, DistinctIn
  <1>9. MadeStep /\ \A d \in Clients : LocalRun(d)' /\ ClosedIsEmpty(d)'
    BY <1>2, DocsSame
  <1>10. /\ HistoryMade' /\ DistinctIn(history')
         /\ OpsIn(history') = OpsIn(history) \cup {op}
    <2>1. OpsIn(history) \cap OpsIn(<<op>>) = {} /\ \A x \in OpsIn(<<op>>) : Made(x)'
      BY <1>5, <1>6, <1>8
    <2> QED BY <1>7, <1>8, <1>9, <2>1, HistoryAppended
  <1>11. ASSUME NEW d \in Clients PROVE FlightOk(toServer[d], InFlight(d))'
    <2>1. MadeBy(d) \subseteq MadeBy(d)' /\ op \notin MadeBy(d)
      BY <1>4, <1>9, MadeGrows, SiteAssumption DEF MadeBy
    <2>2. InFlight(d) \subseteq InFlight(d)'
      BY <1>10, <2>1 DEF InFlight
    <2> QED BY <1>2, <2>2, FlightMonotone DEF LogInv
  <1>12. LogInv'
    BY <1>9, <1>10, <1>11 DEF LogInv
  <1> QED BY <1>4, <1>5, <1>12

-----------------------------------------------------------------------------
(* The kinds of steps *)

LEMMA EditorKind ==
    ASSUME TypeInv, NEW c \in Clients, Editor(c)
    PROVE  Quiet \/ \E n \in 0..MaxBatch : SendOps(c, n)
  <1> USE DEF serverVars, clientVars, engineVars, netVars, boundVars
  <1>1. CASE OpenFile(c)
    <2>1. /\ ToServer(c, <<[type |-> "RequestFile"]>>)
          /\ UNCHANGED <<history, isOpen, session, engineVars, external>>
      BY <1>1 DEF OpenFile
    <2> QED BY <2>1, QuietMessage, QuietMessages, MessageTypes DEF Quiet
  <1>2. CASE OpenLocalFile(c)
    <2>1. Len(history) \in Nat
      BY LenProperties DEF TypeInv, ServerType
    <2>2. UNCHANGED <<history, toServer, external>>
          /\ (UNCHANGED clientVars \/ NewRemoteDoc(c, Len(history)))
      BY <1>2 DEF OpenLocalFile
    <2> QED BY <2>1, <2>2 DEF Quiet, QuietQueue
  <1>3. ASSUME NEW n \in 0..MaxBatch, SendOpsFails(c, n) PROVE Quiet
    <2>1. UNCHANGED <<history, toServer, external>> /\ DropRemoteDoc(c)
      BY <1>3 DEF SendOpsFails
    <2> QED BY <2>1 DEF Quiet, QuietQueue
  <1>4. CASE DisconnectFile(c)
    <2>1. /\ ToServer(c, <<[type |-> "StopSendingOps"]>>) /\ DropRemoteDoc(c)
          /\ UNCHANGED <<history, external>>
      BY <1>4 DEF DisconnectFile
    <2> QED BY <2>1, QuietMessage, QuietMessages, MessageTypes DEF Quiet
  <1> QED BY <1>1, <1>2, <1>3, <1>4 DEF Editor

LEMMA ClientHandlesKind ==
    ASSUME TypeInv, NEW c \in Clients, ClientHandles(c)
    PROVE  Quiet
  <1> USE DEF serverVars, clientVars, engineVars, boundVars, ClientTakes
  <1>1. PICK i \in 1..Len(toClient[c]) :
          HandleSnapshot(c, i) \/ HandleOpFromServer(c, i) \/ HandleDocFatal(c, i)
    BY DEF ClientHandles, Deliverable
  <1> DEFINE m == toClient[c][i]
  <1>2. m \in ClientMsg
    BY ElementOfSeq DEF TypeInv, NetType
  <1>3. ASSUME NEW msgs \in Seq(BatchMsg), ToServer(c, msgs),
               \A k \in 1..Len(msgs) : msgs[k].type # "OpFromClient",
               UNCHANGED <<history, external>>,
               \/ UNCHANGED <<isOpen, session, engineVars>>
               \/ \E seq \in Nat : NewRemoteDoc(c, seq) \/ DropRemoteDoc(c)
        PROVE  Quiet
    BY <1>3, QuietMessage DEF Quiet
  <1>4. CASE HandleSnapshot(c, i)
    <2>1. UNCHANGED <<history, external>>
      BY <1>4 DEF HandleSnapshot
    <2>2. CASE isOpen[c]
      BY <1>3, <1>4, <2>1, <2>2, QuietMessages DEF HandleSnapshot
    <2>3. CASE ~isOpen[c]
      <3>1. m.seq \in Nat /\ [type |-> "RequestOps", after |-> m.seq] \in BatchMsg
        BY <1>2, <1>4, MessageFields, MessageTypes DEF HandleSnapshot
      <3>2. /\ ToServer(c, <<[type |-> "RequestOps", after |-> m.seq]>>)
            /\ NewRemoteDoc(c, m.seq)
        BY <1>4, <2>3 DEF HandleSnapshot
      <3> QED BY <1>3, <2>1, <3>1, <3>2, QuietMessages
    <2> QED BY <2>2, <2>3
  <1>5. CASE HandleOpFromServer(c, i)
    <2>1. UNCHANGED <<history, external, isOpen, session, engineVars>>
      BY <1>5 DEF HandleOpFromServer
    <2>2. CASE ~isOpen[c]
      BY <1>3, <1>5, <2>1, <2>2, QuietMessages, MessageTypes DEF HandleOpFromServer
    <2>3. CASE isOpen[c] /\ m.first > ExpectedSeq(c)
      <3> DEFINE request == [type |-> "RequestOps", after |-> ExpectedSeq(c) - 1]
      <3>1. request \in BatchMsg /\ request.type # "OpFromClient"
        <4>1. ExpectedSeq(c) - 1 \in Nat
          BY LenProperties DEF ExpectedSeq, CurrentSeq, TypeInv, ClientType, EngineType
        <4> QED BY <4>1, MessageTypes
      <3>2. m.ops \in Seq(Op) /\ Len(m.ops) \in Nat
        BY <1>2, <1>5, MessageFields, LenProperties DEF HandleOpFromServer
      <3>3. ToServer(c, [k \in 1..Len(m.ops) |-> request])
        BY <1>5, <2>3 DEF HandleOpFromServer
      <3> HIDE DEF request, m
      <3>4. /\ [k \in 1..Len(m.ops) |-> request] \in Seq(BatchMsg)
            /\ Len([k \in 1..Len(m.ops) |-> request]) = Len(m.ops)
        BY <3>1, <3>2, FunctionIsSeq
      <3> QED BY <1>3, <2>1, <3>1, <3>3, <3>4
    <2>4. CASE isOpen[c] /\ ~(m.first > ExpectedSeq(c))
      BY <1>3, <1>5, <2>1, <2>4, QuietMessages DEF HandleOpFromServer
    <2> QED BY <2>2, <2>3, <2>4
  <1>6. CASE HandleDocFatal(c, i)
    BY <1>3, <1>6, QuietMessages DEF HandleDocFatal
  <1> QED BY <1>1, <1>4, <1>5, <1>6

LEMMA ServerHandlesKind ==
    ASSUME TypeInv, NEW c \in Clients, ServerHandles(c)
    PROVE  Quiet \/ \E i \in 1..Len(toServer[c]) : Accepts(c, i)
  <1> USE DEF serverVars, clientVars, engineVars, boundVars, ServerTakes
  <1>1. PICK i \in 1..Len(toServer[c]) :
          \/ HandleRequestFile(c, i) \/ HandleRequestOps(c, i)
          \/ HandleOpFromClient(c, i) \/ HandleStopSendingOps(c, i)
    BY DEF ServerHandles, Deliverable
  <1>2. /\ toServer' = [toServer EXCEPT ![c] = Without(@, i)]
        /\ UNCHANGED <<isOpen, session, engineVars, external>>
    BY <1>1 DEF HandleRequestFile, HandleRequestOps, HandleOpFromClient, HandleStopSendingOps
  <1>3. CASE history' = history
    <2>1. \A d \in Clients : QuietQueue(d)
      BY <1>2 DEF TypeInv, NetType, QuietQueue
    <2> QED BY <1>2, <1>3, <2>1 DEF Quiet
  <1>4. history' = history \/ Accepts(c, i)
    BY <1>1, <1>2 DEF HandleRequestFile, HandleRequestOps, HandleOpFromClient,
                      HandleStopSendingOps, Accepts
  <1> QED BY <1>3, <1>4

LEMMA ConnectionKind ==
    ASSUME TypeInv, NEW c \in Clients, Break(c) \/ Restart(c) \/ Reconnect(c)
    PROVE  Quiet
  <1> USE DEF serverVars, clientVars, engineVars, boundVars
  <1>1. /\ UNCHANGED <<history, external>>
        /\ UNCHANGED <<isOpen, session, engineVars>> \/ DropRemoteDoc(c)
        /\ toServer' = toServer \/ toServer' = [toServer EXCEPT ![c] = << >>]
    BY DEF Break, Restart, Reconnect
  <1>2. \A d \in Clients : QuietQueue(d)
    BY <1>1 DEF TypeInv, NetType, QuietQueue
  <1> QED BY <1>1, <1>2 DEF Quiet

LEMMA StepKinds ==
    ASSUME TypeInv, Next
    PROVE  \/ Quiet
           \/ \E c \in Clients : \E n \in 0..MaxBatch : SendOps(c, n)
           \/ \E c \in Clients : \E i \in 1..Len(toServer[c]) : Accepts(c, i)
           \/ ResetDocFromDisk
  BY EditorKind, ClientHandlesKind, ServerHandlesKind, ConnectionKind DEF Next

LEMMA LogInvariant == Spec => []LogInv
  <1>1. Init => LogInv
    <2> SUFFICES ASSUME Init PROVE LogInv
      OBVIOUS
    <2>1. history = << >> /\ Len(history) = 0
      BY EmptySeq DEF Init
    <2>2. HistoryMade /\ DistinctIn(history)
      BY <2>1 DEF HistoryMade, DistinctIn
    <2>3. ASSUME NEW c \in Clients
          PROVE  LocalRun(c) /\ ClosedIsEmpty(c) /\ FlightOk(toServer[c], InFlight(c))
      <3>1. /\ local[c] = << >> /\ base[c] = 0 /\ global[c] = << >> /\ toServer[c] = << >>
        BY DEF Init
      <3> QED BY <3>1, FlightNone DEF LocalRun, RunOf, ClosedIsEmpty
    <2> QED BY <2>2, <2>3 DEF LogInv
  <1>2. LogInv /\ TypeInv /\ TypeInv' /\ [Next]_vars => LogInv'
    <2> SUFFICES ASSUME LogInv, TypeInv, TypeInv', [Next]_vars PROVE LogInv'
      OBVIOUS
    <2>1. CASE Quiet
      <3>1. MadeStep /\ \A d \in Clients : LocalRun(d)' /\ ClosedIsEmpty(d)'
        BY <2>1, DocsSame, DocReplaced DEF Quiet
      <3> QED BY <2>1, <3>1, QuietStep DEF Quiet
    <2>2. CASE UNCHANGED vars
      BY <2>2 DEF vars, serverVars, clientVars, engineVars, netVars, boundVars, LogInv, HistoryMade,
                  LocalRun, ClosedIsEmpty, InFlight, MadeBy, Made
    <2> QED BY <2>1, <2>2, StepKinds, SendOpsFresh, AcceptFresh, ResetFresh
  <1> QED
    BY <1>1, <1>2, TypeInvariant, PTL DEF Spec

-----------------------------------------------------------------------------
(* Steps of DocSync as steps of OrderedLog *)

\* Ops appended by the owner: new entries, each of them once.
LEMMA CommitStep ==
    ASSUME history \in Seq(Op), NEW ops \in Seq(Op), ops # << >>, history' = history \o ops,
           DistinctIn(history'), UNCHANGED <<isOpen, base, global>>
    PROVE  Log!Commit
  <1>1. /\ Len(history) \in Nat /\ Len(ops) \in Nat \ {0}
        /\ history' \in Seq(Op) /\ Len(history') = Len(history) + Len(ops)
        /\ \A k \in 1..Len(history) : history'[k] = history[k]
    BY ConcatProperties, LenProperties, EmptySeq
  <1>2. history # history'
    BY <1>1
  <1>3. SubSeq(history', 1, Len(history)) = history
    <2> DEFINE part == SubSeq(history', 1, Len(history))
    <2>1. \A j \in 1..Len(history) : history'[j] \in Op
      BY <1>1, ElementOfSeq
    <2>2. part \in Seq(Op) /\ Len(part) = Len(history)
          /\ \A k \in 1..Len(history) : part[k] = history'[k]
      BY <1>1, <2>1, SubSeqProperties
    <2> HIDE DEF part
    <2>3. part = history
      BY <1>1, <2>2, SeqEqual
    <2> QED BY <2>3 DEF part
  <1>4. \A k \in 1..Len(history') : history'[k] \in Op
    BY <1>1, ElementOfSeq
  <1>5. ASSUME NEW k \in (Len(history) + 1)..Len(history')
        PROVE  history'[k] \in Op /\ \A j \in 1..(k - 1) : history'[j] # history'[k]
    <2>1. k \in 1..Len(history') /\ \A j \in 1..(k - 1) : j \in 1..Len(history') /\ j # k
      BY <1>1
    <2> QED BY <1>4, <2>1 DEF DistinctIn
  <1> QED BY <1>2, <1>3, <1>5 DEF Log!Commit

\* A RemoteDoc that is created, or dropped.
LEMMA JoinStep ==
    ASSUME TypeInv, LogInv, NEW c \in Clients, isOpen[c] = FALSE, NEW seq \in Nat,
           seq <= Len(history), NewRemoteDoc(c, seq), history' = history
    PROVE  Log!Next
  <1>1. /\ global[c] = << >> /\ global \in [Clients -> Seq(Op)]
        /\ Len(history) \in Nat
    BY LenProperties DEF LogInv, ClosedIsEmpty, TypeInv, ServerType, ClientType, EngineType
  <1>2. /\ isOpen' = [isOpen EXCEPT ![c] = TRUE] /\ base' = [base EXCEPT ![c] = seq]
        /\ global' = [global EXCEPT ![c] = << >>]
    BY DEF NewRemoteDoc
  <1>3. global' = global /\ seq \in 0..Len(history)
    BY <1>1, <1>2
  <1>4. Log!Join(c)
    BY <1>2, <1>3 DEF Log!Join
  <1> QED BY <1>4 DEF Log!Next

LEMMA LeaveStep ==
    ASSUME TypeInv, LogInv, NEW c \in Clients, DropRemoteDoc(c), history' = history
    PROVE  Log!Next \/ UNCHANGED Log!vars
  <1>1. /\ isOpen' = [isOpen EXCEPT ![c] = FALSE] /\ base' = [base EXCEPT ![c] = 0]
        /\ global' = [global EXCEPT ![c] = << >>]
    BY DEF DropRemoteDoc
  <1>2. /\ isOpen \in [Clients -> BOOLEAN] /\ base \in [Clients -> Nat]
        /\ global \in [Clients -> Seq(Op)]
    BY DEF TypeInv, ClientType, EngineType
  <1>3. CASE isOpen[c] = TRUE
    <2>1. Log!Leave(c)
      BY <1>1, <1>3 DEF Log!Leave
    <2> QED BY <2>1 DEF Log!Next
  <1>4. CASE isOpen[c] = FALSE
    <2>1. base[c] = 0 /\ global[c] = << >>
      BY <1>4 DEF LogInv, ClosedIsEmpty
    <2>2. isOpen' = isOpen /\ base' = base /\ global' = global
      BY <1>1, <1>2, <1>4, <2>1
    <2> QED BY <2>2 DEF Log!vars
  <1> QED BY <1>2, <1>3, <1>4

\* Fetching the buffer reads on, up to the last op received.
LEMMA ReadStep ==
    ASSUME AgreeInv, NEW c \in Clients, isOpen[c] = TRUE,
           global' = [global EXCEPT ![c] = @ \o buffer[c]],
           UNCHANGED <<history, isOpen, base>>
    PROVE  Log!Next
  <1> DEFINE g == global[c]
             w == buffer[c]
             f == base[c]
  <1>1. history \in Seq(Op) /\ g \in Seq(Op) /\ w \in Seq(Op) /\ f \in Nat
    BY DEF AgreeInv, TypeInv, ServerType, ClientType, EngineType
  <1>2. StretchOf(history, g, f) /\ StretchOf(history, w, f + Len(g))
    BY DEF AgreeInv, ClientAgrees
  <1>3. global' = [global EXCEPT ![c] = g \o w]
    OBVIOUS
  <1> HIDE DEF w
  <1>4. StretchOf(history, g \o w, f) /\ g \o w \in Seq(Op)
    <2> HIDE DEF g, f
    <2> QED BY <1>1, <1>2, StretchConcat, ConcatProperties
  <1>5. /\ f + Len(g \o w) <= Len(history)
        /\ g \o w = SubSeq(history, f + 1, f + Len(g \o w))
    <2> HIDE DEF g, f
    <2> QED BY <1>1, <1>4, StretchIsSubSeq
  <1>6. Len(g \o w) \in Len(g)..(Len(history) - f)
    <2> HIDE DEF g, f
    <2>1. Len(g \o w) = Len(g) + Len(w) /\ Len(g) \in Nat /\ Len(w) \in Nat
          /\ Len(history) \in Nat
      BY <1>1, ConcatProperties, LenProperties
    <2> QED BY <1>1, <1>5, <2>1
  <1>7. Log!Read(c)
    BY <1>3, <1>5, <1>6 DEF Log!Read, Log!Stretch
  <1> QED BY <1>7 DEF Log!Next

LEMMA LogStep ==
    ASSUME AgreeInv, LogInv, LogInv', Next
    PROVE  Log!Next \/ UNCHANGED Log!vars
  <1> USE DEF serverVars, clientVars, engineVars, netVars, boundVars
  <1>1. /\ TypeInv /\ history \in Seq(Op) /\ Len(history) \in Nat
        /\ isOpen \in [Clients -> BOOLEAN]
    BY LenProperties DEF AgreeInv, TypeInv, ServerType, ClientType
  <1>2. CASE UNCHANGED <<history, isOpen, base, global>>
    BY <1>2 DEF Log!vars
  <1>3. ASSUME NEW c \in Clients, Editor(c) PROVE Log!Next \/ UNCHANGED Log!vars
    <2>1. CASE OpenFile(c)
      BY <1>2, <2>1 DEF OpenFile
    <2>2. CASE OpenLocalFile(c)
      <3>1. CASE isOpen[c] = TRUE
        BY <1>2, <2>2, <3>1 DEF OpenLocalFile
      <3>2. CASE isOpen[c] = FALSE
        <4>1. NewRemoteDoc(c, Len(history)) /\ history' = history
          BY <2>2, <3>2 DEF OpenLocalFile
        <4>2. PICK seq \in Nat : seq = Len(history) /\ seq <= Len(history)
          BY <1>1
        <4>3. NewRemoteDoc(c, seq)
          BY <4>1, <4>2
        <4> QED BY <1>1, <3>2, <4>1, <4>2, <4>3, JoinStep
      <3> QED BY <1>1, <3>1, <3>2
    <2>3. ASSUME NEW n \in 0..MaxBatch, SendOps(c, n) PROVE Log!Next
      <3>1. /\ isOpen[c] = TRUE /\ global' = [global EXCEPT ![c] = @ \o buffer[c]]
            /\ UNCHANGED <<history, isOpen, base>>
        BY <1>1, <2>3 DEF SendOps
      <3> QED BY <3>1, ReadStep
    <2>4. ASSUME NEW n \in 0..MaxBatch, SendOpsFails(c, n) PROVE Log!Next \/ UNCHANGED Log!vars
      BY <1>1, <2>4, LeaveStep DEF SendOpsFails
    <2>5. CASE DisconnectFile(c)
      BY <1>1, <2>5, LeaveStep DEF DisconnectFile
    <2> QED BY <1>3, <2>1, <2>2, <2>3, <2>4, <2>5 DEF Editor
  <1>4. ASSUME NEW c \in Clients, ClientHandles(c) PROVE Log!Next \/ UNCHANGED Log!vars
    <2>1. PICK i \in 1..Len(toClient[c]) :
            HandleSnapshot(c, i) \/ HandleOpFromServer(c, i) \/ HandleDocFatal(c, i)
      BY <1>4 DEF ClientHandles, Deliverable
    <2> DEFINE m == toClient[c][i]
    <2>2. m \in AgreedMsg(history) /\ m \in ClientMsg
      BY ElementOfSeq DEF AgreeInv, MessagesAgree, AgreedMsg
    <2>3. CASE HandleSnapshot(c, i)
      <3>1. history' = history
        BY <2>3 DEF HandleSnapshot
      <3>2. CASE isOpen[c] = TRUE
        BY <1>2, <2>3, <3>2 DEF HandleSnapshot
      <3>3. CASE isOpen[c] = FALSE
        <4>1. m.seq \in Nat /\ m.seq <= Len(history)
          BY <2>2, <2>3, MessageFields DEF HandleSnapshot, AgreedMsg
        <4>2. NewRemoteDoc(c, m.seq)
          BY <2>3, <3>3 DEF HandleSnapshot
        <4> QED BY <1>1, <3>1, <3>3, <4>1, <4>2, JoinStep
      <3> QED BY <1>1, <3>2, <3>3
    <2>4. CASE HandleOpFromServer(c, i)
      BY <1>2, <2>4 DEF HandleOpFromServer
    <2>5. CASE HandleDocFatal(c, i)
      BY <1>1, <2>5, LeaveStep DEF HandleDocFatal
    <2> QED BY <2>1, <2>3, <2>4, <2>5
  <1>5. ASSUME NEW c \in Clients, ServerHandles(c) PROVE Log!Next \/ UNCHANGED Log!vars
    <2>1. PICK i \in 1..Len(toServer[c]) :
            \/ HandleRequestFile(c, i) \/ HandleRequestOps(c, i)
            \/ HandleOpFromClient(c, i) \/ HandleStopSendingOps(c, i)
      BY <1>5 DEF ServerHandles, Deliverable
    <2>2. UNCHANGED <<isOpen, base, global>>
      BY <2>1 DEF HandleRequestFile, HandleRequestOps, HandleOpFromClient, HandleStopSendingOps
    <2>3. CASE history' = history
      BY <1>2, <2>2, <2>3
    <2>4. CASE /\ toServer[c][i].type = "OpFromClient"
               /\ history' = history \o toServer[c][i].ops
      <3>1. toServer[c][i] \in BatchMsg
        BY <1>1, ElementOfSeq DEF TypeInv, NetType
      <3>2. toServer[c][i].ops \in Seq(Op) /\ toServer[c][i].ops # << >>
        BY <2>4, <3>1, MessageFields DEF BatchMsg
      <3>3. Log!Commit
        BY <1>1, <2>2, <2>4, <3>2, CommitStep DEF LogInv
      <3> QED BY <3>3 DEF Log!Next
    <2> QED
      BY <2>1, <2>3, <2>4 DEF HandleRequestFile, HandleRequestOps, HandleOpFromClient,
                              HandleStopSendingOps
  <1>6. ASSUME NEW c \in Clients, Break(c) \/ Restart(c) \/ Reconnect(c)
        PROVE  Log!Next \/ UNCHANGED Log!vars
    <2>1. CASE Break(c) \/ Reconnect(c)
      BY <1>2, <2>1 DEF Break, Reconnect
    <2>2. CASE Restart(c)
      BY <1>1, <2>2, LeaveStep DEF Restart
    <2> QED BY <1>6, <2>1, <2>2
  <1>7. CASE ResetDocFromDisk
    <2>1. PICK op \in Op : history' = Append(history, op)
      BY <1>1, <1>7 DEF ResetDocFromDisk, Op, TypeInv, BoundType
    <2>2. history' = history \o <<op>> /\ <<op>> \in Seq(Op) /\ <<op>> # << >>
      BY <1>1, <2>1, AppendIsConcat
    <2>3. UNCHANGED <<isOpen, base, global>>
      BY <1>7 DEF ResetDocFromDisk
    <2>4. Log!Commit
      BY <1>1, <2>2, <2>3, CommitStep DEF LogInv
    <2> QED BY <2>4 DEF Log!Next
  <1> QED BY <1>3, <1>4, <1>5, <1>6, <1>7 DEF Next

\* DocSync implements OrderedLog: whatever is lost, delayed or repeated, the
\* owner's history only grows at its end, by ops that were not in it, and a
\* host that has the document open reads it on from its snapshot, in order,
\* until it closes the document.
THEOREM ImplementsOrderedLog == Spec => LogSpec
  <1>1. Init => Log!Init
    BY DEF Init, Log!Init
  <1>2. AgreeInv /\ LogInv /\ LogInv' /\ [Next]_vars => [Log!Next]_(Log!vars)
    <2> SUFFICES ASSUME AgreeInv, LogInv, LogInv', [Next]_vars PROVE [Log!Next]_(Log!vars)
      OBVIOUS
    <2>1. CASE Next
      BY <2>1, LogStep
    <2>2. CASE UNCHANGED vars
      BY <2>2 DEF vars, serverVars, clientVars, Log!vars
    <2> QED BY <2>1, <2>2
  <1> QED
    BY <1>1, <1>2, AgreeInvariant, LogInvariant, PTL DEF Spec, LogSpec, Log!Spec

-----------------------------------------------------------------------------
(***************************************************************************)
(* 3. Once and in order                                                    *)
(*                                                                         *)
(* The ops of one opening of a document enter the history with site seqs   *)
(* 1, 2, 3, ..., and the acknowledgements a client waits for fit, for any  *)
(* transport, any loss and any number of openings, provided that no batch  *)
(* of an earlier opening is sequenced when the document is open again.     *)
(* Without that condition it is false: the client takes the late op for    *)
(* the acknowledgement of a new one, as both have the same site seq.       *)
(***************************************************************************)

\* While a host has the document open, its ops in the owner's history after
\* its snapshot are of the present opening.
NoStaleOps ==
    \A c \in Clients : isOpen[c] =>
        \A i \in (base[c] + 1)..Len(history) :
            history[i].site = c => history[i].session = session[c]

\* So are its batches under way.
NoStaleBatch ==
    \A c \in Clients : isOpen[c] =>
        \A i \in 1..Len(toServer[c]) :
            toServer[c][i].type = "OpFromClient" => toServer[c][i].ops[1].session = session[c]

-----------------------------------------------------------------------------
(* Counting the ops of one session *)

\* The ops of session s of site c among the first j of h, and their number.
Places(h, c, s, j) == {i \in 1..j : h[i].site = c /\ h[i].session = s}
Count(h, c, s, j) == Cardinality(Places(h, c, s, j))

LEMMA CountType ==
    ASSUME NEW h, NEW c, NEW s, NEW j \in Nat
    PROVE  IsFiniteSet(Places(h, c, s, j)) /\ Count(h, c, s, j) \in Nat
  <1>1. IsFiniteSet(1..j) /\ Places(h, c, s, j) \in SUBSET (1..j)
    BY FS_Interval DEF Places
  <1>2. IsFiniteSet(Places(h, c, s, j))
    BY <1>1, FS_Subset
  <1> QED BY <1>2, FS_CardinalityType DEF Count

\* A longer part has as many or more; if it has as many, none of the ops in
\* between is of the session.
LEMMA CountMonotone ==
    ASSUME NEW h, NEW c, NEW s, NEW j \in Nat, NEW k \in Nat, j <= k
    PROVE  /\ Count(h, c, s, j) <= Count(h, c, s, k)
           /\ Count(h, c, s, j) = Count(h, c, s, k) =>
                \A g \in (j + 1)..k : ~(h[g].site = c /\ h[g].session = s)
  <1>1. IsFiniteSet(Places(h, c, s, k))
    BY CountType
  <1>2. Places(h, c, s, j) \in SUBSET Places(h, c, s, k)
    BY DEF Places
  <1>3. /\ Count(h, c, s, j) <= Count(h, c, s, k)
        /\ Count(h, c, s, j) = Count(h, c, s, k) => Places(h, c, s, k) = Places(h, c, s, j)
    BY <1>1, <1>2, FS_Subset DEF Count
  <1>4. ASSUME Places(h, c, s, k) = Places(h, c, s, j), NEW g \in (j + 1)..k
        PROVE  ~(h[g].site = c /\ h[g].session = s)
    BY <1>4 DEF Places
  <1> QED BY <1>3, <1>4

\* None, or all of them.
LEMMA CountNone ==
    ASSUME NEW h, NEW c, NEW s, NEW j \in Nat,
           \A i \in 1..j : ~(h[i].site = c /\ h[i].session = s)
    PROVE  Count(h, c, s, j) = 0
  <1>1. Places(h, c, s, j) = {}
    BY DEF Places
  <1> QED BY <1>1, FS_EmptySet DEF Count

LEMMA CountAll ==
    ASSUME NEW h, NEW c, NEW s, NEW j \in Nat,
           \A i \in 1..j : h[i].site = c /\ h[i].session = s
    PROVE  Count(h, c, s, j) = j
  <1>1. Places(h, c, s, j) = 1..j
    BY DEF Places
  <1>2. Cardinality(1..j) = j
    BY FS_Interval
  <1> QED BY <1>1, <1>2 DEF Count

\* The first places do not depend on what follows.
LEMMA CountPrefix ==
    ASSUME NEW h \in Seq(Op), NEW t \in Seq(Op), NEW c, NEW s, NEW j \in 0..Len(h)
    PROVE  Count(h \o t, c, s, j) = Count(h, c, s, j)
  <1>1. Len(h) \in Nat /\ \A i \in 1..Len(h) : (h \o t)[i] = h[i]
    BY ConcatProperties, LenProperties
  <1>2. Places(h \o t, c, s, j) = Places(h, c, s, j)
    BY <1>1 DEF Places
  <1> QED BY <1>2 DEF Count

\* The numbers of two parts in a row add up.
LEMMA CountStretch ==
    ASSUME NEW h \in Seq(Op), NEW ops \in Seq(Op), NEW f \in Nat, StretchOf(h, ops, f),
           NEW c, NEW s, NEW k \in 0..Len(ops)
    PROVE  Count(h, c, s, f + k) = Count(h, c, s, f) + Count(ops, c, s, k)
  <1> DEFINE P == Places(h, c, s, f)
             Q == Places(ops, c, s, k)
             R == {f + i : i \in Q}
             shift == [i \in Q |-> f + i]
  <1>1. Len(ops) \in Nat /\ k \in Nat /\ k <= Len(ops)
    BY LenProperties
  <1>2. \A i \in 1..k : h[f + i] = ops[i]
    BY <1>1 DEF StretchOf
  <1>3. Places(h, c, s, f + k) = P \cup R
    <2>1. ASSUME NEW i \in Places(h, c, s, f + k) PROVE i \in P \cup R
      <3>1. i \in 1..(f + k) /\ h[i].site = c /\ h[i].session = s
        BY DEF Places
      <3>2. CASE i <= f
        BY <3>1, <3>2 DEF Places
      <3>3. CASE ~(i <= f)
        <4>1. i - f \in 1..k /\ f + (i - f) = i
          BY <1>1, <3>1, <3>3
        <4>2. i - f \in Q
          BY <1>2, <3>1, <4>1 DEF Places
        <4> QED BY <4>1, <4>2
      <3> QED BY <3>2, <3>3
    <2>2. P \subseteq Places(h, c, s, f + k)
      BY <1>1 DEF Places
    <2>3. ASSUME NEW i \in Q PROVE f + i \in Places(h, c, s, f + k)
      <3>1. i \in 1..k /\ ops[i].site = c /\ ops[i].session = s
        BY DEF Places
      <3>2. f + i \in 1..(f + k) /\ h[f + i] = ops[i]
        BY <1>1, <1>2, <3>1
      <3> QED BY <3>1, <3>2 DEF Places
    <2> QED BY <2>1, <2>2, <2>3
  <1>4. \A i \in Q : i \in Nat /\ i >= 1
    BY <1>1 DEF Places
  <1>5. P \cap R = {}
    BY <1>4 DEF Places
  <1>6. IsFiniteSet(P) /\ IsFiniteSet(Q)
    BY <1>1, CountType
  <1> HIDE DEF P, Q
  <1>7. IsFiniteSet(R) /\ Cardinality(R) = Cardinality(Q)
    <2>1. shift \in Bijection(Q, R)
      <3>1. \A i, j \in Q : f + i = f + j => i = j
        BY <1>4
      <3>2. shift \in Injection(Q, R)
        BY <3>1 DEF Injection, IsInjective
      <3>3. shift \in Surjection(Q, R)
        BY DEF Surjection
      <3> QED BY <3>2, <3>3 DEF Bijection
    <2>2. ExistsBijection(Q, R)
      BY <2>1 DEF ExistsBijection
    <2> QED BY <1>6, <2>2, FS_Bijection
  <1> HIDE DEF R
  <1>8. Cardinality(P \cup R) = Cardinality(P) + Cardinality(R)
    <2>1. Cardinality(P \cap R) = 0 /\ Cardinality(P) \in Nat /\ Cardinality(R) \in Nat
      BY <1>5, <1>6, <1>7, FS_EmptySet, FS_CardinalityType
    <2>2. Cardinality(P \cup R) = Cardinality(P) + Cardinality(R) - Cardinality(P \cap R)
      BY <1>6, <1>7, FS_Union
    <2> QED BY <2>1, <2>2
  <1> QED BY <1>3, <1>7, <1>8 DEF Count, P, Q

-----------------------------------------------------------------------------
(* The invariant *)

\* How many ops of a session are in history h.
Done(h, c, s) == Count(h, c, s, Len(h))

\* SequencedOnce of a history h.
InOrder(h) ==
    \A j \in 1..Len(h) : h[j].site # External =>
        h[j].seq = Count(h, h[j].site, h[j].session, j)

\* The ops of c in h are the first ones of their sessions.
Complete(h, c) ==
    \A s \in Nat : \A n \in 1..Done(h, c, s) :
        \E i \in 1..Len(h) : h[i] = [site |-> c, seq |-> n, session |-> s]

\* A batch in flight has the next ops of its session, and is the only one.
BatchSession(m) == m.ops[1].session
NextBatch(h, c, m) ==
    RunOf(m.ops, c, Done(h, c, BatchSession(m)) + Len(m.ops), BatchSession(m))
FlightNext(h, c, q) ==
    /\ \A i \in 1..Len(q) : q[i].type = "OpFromClient" => NextBatch(h, c, q[i])
    /\ \A i, j \in 1..Len(q) :
         i # j /\ q[i].type = "OpFromClient" /\ q[j].type = "OpFromClient" =>
             BatchSession(q[i]) # BatchSession(q[j])

\* An open client has taken as many acknowledgements as its history has ops of
\* the session; what it has sent are the sequenced ops and those in flight.
ClientCounts(c) ==
    isOpen[c] = TRUE =>
        /\ siteSeq[c] = Len(local[c]) + Count(history, c, session[c], CurrentSeq(c))
        /\ Done(history, c, session[c]) <= lastSent[c]
        /\ lastSent[c] <= siteSeq[c]

OnceInv ==
    /\ InOrder(history)
    /\ \A c \in Clients : /\ Complete(history, c)
                          /\ FlightNext(history, c, toServer[c])
                          /\ ClientCounts(c)

LEMMA DoneType ==
    ASSUME NEW h \in Seq(Op), NEW c, NEW s
    PROVE  Done(h, c, s) \in Nat
  BY CountType, LenProperties DEF Done

\* The batches of queue r are batches of queue q, each once.
Keeps(r, q) ==
    \E at \in [1..Len(r) -> Int] :
        /\ \A j \in 1..Len(r) : r[j].type = "OpFromClient" =>
             at[j] \in 1..Len(q) /\ r[j] = q[at[j]]
        /\ \A j, k \in 1..Len(r) :
             j # k /\ r[j].type = "OpFromClient" /\ r[k].type = "OpFromClient" => at[j] # at[k]

LEMMA QuietKeeps ==
    ASSUME NEW q \in Seq(BatchMsg), NEW r,
           \/ r \in {q, << >>}
           \/ \E msgs \in Seq(BatchMsg) :
                /\ \A k \in 1..Len(msgs) : msgs[k].type # "OpFromClient"
                /\ r = q \o msgs
           \/ \E i \in 1..Len(q) : r = Without(q, i)
    PROVE  Keeps(r, q)
  <1>0. Len(q) \in Nat
    BY LenProperties
  <1>1. CASE r \in {q, << >>}
    <2> DEFINE at == [j \in 1..Len(r) |-> j]
    <2>1. at \in [1..Len(r) -> Int]
      OBVIOUS
    <2>2. \A j \in 1..Len(r) : at[j] \in 1..Len(q) /\ r[j] = q[at[j]]
      BY <1>1
    <2>3. \A j, k \in 1..Len(r) : j # k => at[j] # at[k]
      OBVIOUS
    <2> QED BY <2>1, <2>2, <2>3 DEF Keeps
  <1>2. ASSUME NEW msgs \in Seq(BatchMsg), \A k \in 1..Len(msgs) : msgs[k].type # "OpFromClient",
               r = q \o msgs
        PROVE  Keeps(r, q)
    <2> DEFINE at == [j \in 1..Len(r) |-> j]
    <2>1. at \in [1..Len(r) -> Int]
      OBVIOUS
    <2>2. /\ Len(msgs) \in Nat /\ Len(r) = Len(q) + Len(msgs)
          /\ \A k \in 1..(Len(q) + Len(msgs)) :
               r[k] = IF k <= Len(q) THEN q[k] ELSE msgs[k - Len(q)]
      BY <1>2, ConcatProperties, LenProperties
    <2>3. ASSUME NEW j \in 1..Len(r), r[j].type = "OpFromClient"
          PROVE  j \in 1..Len(q) /\ r[j] = q[j]
      BY <1>0, <1>2, <2>2, <2>3
    <2>4. \A j, k \in 1..Len(r) : j # k => at[j] # at[k]
      OBVIOUS
    <2> QED BY <2>1, <2>3, <2>4 DEF Keeps
  <1>3. ASSUME NEW i \in 1..Len(q), r = Without(q, i)
        PROVE  Keeps(r, q)
    <2> DEFINE at == [j \in 1..Len(r) |-> IF j < i THEN j ELSE j + 1]
    <2>1. at \in [1..Len(r) -> Int]
      OBVIOUS
    <2>2. ASSUME NEW j \in 1..Len(r) PROVE at[j] \in 1..Len(q) /\ r[j] = q[at[j]]
      <3>1. LET k == IF j < i THEN j ELSE j + 1 IN k \in 1..Len(q) /\ r[j] = q[k]
        <4> HIDE DEF at
        <4> QED BY <1>3, WithoutElements
      <3> QED BY <3>1
    <2>3. \A j, k \in 1..Len(r) : j # k => at[j] # at[k]
      OBVIOUS
    <2> HIDE DEF at
    <2> QED BY <2>1, <2>2, <2>3 DEF Keeps
  <1> QED BY <1>1, <1>2, <1>3

\* FlightNext of a queue with the same or fewer batches.
LEMMA FlightNextKeeps ==
    ASSUME NEW h, NEW c, NEW q, NEW r, Keeps(r, q), FlightNext(h, c, q)
    PROVE  FlightNext(h, c, r)
  <1>1. PICK at \in [1..Len(r) -> Int] :
        /\ \A j \in 1..Len(r) : r[j].type = "OpFromClient" =>
             at[j] \in 1..Len(q) /\ r[j] = q[at[j]]
        /\ \A j, k \in 1..Len(r) :
             j # k /\ r[j].type = "OpFromClient" /\ r[k].type = "OpFromClient" => at[j] # at[k]
    BY DEF Keeps
  <1>2. ASSUME NEW j \in 1..Len(r), r[j].type = "OpFromClient" PROVE NextBatch(h, c, r[j])
    <2>1. at[j] \in 1..Len(q) /\ r[j] = q[at[j]]
      BY <1>1, <1>2
    <2> QED BY <1>2, <2>1 DEF FlightNext
  <1>3. ASSUME NEW j \in 1..Len(r), NEW k \in 1..Len(r), j # k, r[j].type = "OpFromClient",
               r[k].type = "OpFromClient"
        PROVE  BatchSession(r[j]) # BatchSession(r[k])
    <2>1. /\ at[j] \in 1..Len(q) /\ r[j] = q[at[j]] /\ at[k] \in 1..Len(q) /\ r[k] = q[at[k]]
          /\ at[j] # at[k]
      BY <1>1, <1>3
    <2> QED BY <1>3, <2>1 DEF FlightNext
  <1> QED BY <1>2, <1>3 DEF FlightNext

-----------------------------------------------------------------------------
(* The history grows *)

LEMMA CountAppend ==
    ASSUME NEW h \in Seq(Op), NEW t \in Seq(Op), NEW c, NEW s, NEW k \in 0..Len(t)
    PROVE  Count(h \o t, c, s, Len(h) + k) = Done(h, c, s) + Count(t, c, s, k)
  <1>1. /\ Len(h) \in Nat /\ Len(t) \in Nat /\ h \o t \in Seq(Op)
        /\ Len(h \o t) = Len(h) + Len(t)
        /\ \A j \in 1..(Len(h) + Len(t)) :
             (h \o t)[j] = IF j <= Len(h) THEN h[j] ELSE t[j - Len(h)]
    BY ConcatProperties, LenProperties
  <1>2. \A j \in 1..Len(t) : (h \o t)[Len(h) + j] = t[j]
    BY <1>1
  <1>3. StretchOf(h \o t, t, Len(h))
    BY <1>1, <1>2 DEF StretchOf
  <1>4. Count(h \o t, c, s, Len(h) + k) = Count(h \o t, c, s, Len(h)) + Count(t, c, s, k)
    <2> DEFINE g == h \o t
               f == Len(h)
    <2>1. g \in Seq(Op) /\ f \in Nat /\ StretchOf(g, t, f)
      BY <1>1, <1>3
    <2> HIDE DEF g, f
    <2>2. Count(g, c, s, f + k) = Count(g, c, s, f) + Count(t, c, s, k)
      BY <2>1, CountStretch
    <2> QED BY <2>2 DEF g, f
  <1>5. Count(h \o t, c, s, Len(h)) = Count(h, c, s, Len(h))
    BY <1>1, CountPrefix
  <1> QED BY <1>4, <1>5 DEF Done

\* Ops of one site and session, or of the external site, are appended:
\* the counts of the other sessions stay.
LEMMA OthersSame ==
    ASSUME NEW h \in Seq(Op), NEW t \in Seq(Op), NEW d, NEW r,
           \A k \in 1..Len(t) : ~(t[k].site = d /\ t[k].session = r)
    PROVE  Done(h \o t, d, r) = Done(h, d, r)
  <1>1. /\ Len(h) \in Nat /\ Len(t) \in Nat /\ Len(h \o t) = Len(h) + Len(t)
    BY ConcatProperties, LenProperties
  <1>2. Count(t, d, r, Len(t)) = 0
    BY <1>1, CountNone
  <1>3. Count(h \o t, d, r, Len(h) + Len(t)) = Done(h, d, r) + Count(t, d, r, Len(t))
    BY <1>1, CountAppend
  <1>4. Done(h, d, r) \in Nat
    BY DoneType
  <1> QED BY <1>1, <1>2, <1>3, <1>4 DEF Done

\* A place of h keeps its count when ops are appended.
LEMMA InOrderPrefix ==
    ASSUME NEW h \in Seq(Op), NEW t \in Seq(Op), InOrder(h),
           \A k \in 1..Len(t) : t[k].site # External =>
             t[k].seq = Done(h, t[k].site, t[k].session)
                          + Count(t, t[k].site, t[k].session, k)
    PROVE  InOrder(h \o t)
  <1>1. /\ Len(h) \in Nat /\ Len(t) \in Nat /\ Len(h \o t) = Len(h) + Len(t)
        /\ \A j \in 1..(Len(h) + Len(t)) :
             (h \o t)[j] = IF j <= Len(h) THEN h[j] ELSE t[j - Len(h)]
    BY ConcatProperties, LenProperties
  <1> DEFINE g == h \o t
  <1>2. ASSUME NEW j \in 1..Len(g), g[j].site # External
        PROVE  g[j].seq = Count(g, g[j].site, g[j].session, j)
    <2>1. CASE j <= Len(h)
      <3>1. g[j] = h[j] /\ j \in 1..Len(h) /\ j \in 0..Len(h)
        BY <1>1, <2>1
      <3>2. h[j].seq = Count(h, h[j].site, h[j].session, j)
        BY <1>2, <3>1 DEF InOrder
      <3>3. Count(g, h[j].site, h[j].session, j) = Count(h, h[j].site, h[j].session, j)
        BY <3>1, CountPrefix
      <3> QED BY <3>1, <3>2, <3>3
    <2>2. CASE ~(j <= Len(h))
      <3> DEFINE k == j - Len(h)
      <3>1. g[j] = t[k] /\ k \in 1..Len(t) /\ k \in 0..Len(t) /\ Len(h) + k = j
        BY <1>1, <2>2
      <3> HIDE DEF k, g
      <3>2. t[k].seq = Done(h, t[k].site, t[k].session)
                         + Count(t, t[k].site, t[k].session, k)
        BY <1>2, <3>1
      <3>3. Count(h \o t, t[k].site, t[k].session, Len(h) + k)
              = Done(h, t[k].site, t[k].session) + Count(t, t[k].site, t[k].session, k)
        BY <3>1, CountAppend
      <3> QED BY <3>1, <3>2, <3>3 DEF g
    <2> QED BY <2>1, <2>2
  <1> QED BY <1>2 DEF InOrder

\* The next ops of session s of site c are appended.
LEMMA AppendRun ==
    ASSUME NEW h \in Seq(Op), NEW ops \in Seq(Op), NEW c \in Clients, NEW s \in Nat,
           RunOf(ops, c, Done(h, c, s) + Len(ops), s), InOrder(h), Complete(h, c)
    PROVE  /\ InOrder(h \o ops)
           /\ Done(h \o ops, c, s) = Done(h, c, s) + Len(ops)
           /\ \A d, r : d # c \/ r # s => Done(h \o ops, d, r) = Done(h, d, r)
           /\ Complete(h \o ops, c)
  <1>1. /\ Len(h) \in Nat /\ Len(ops) \in Nat /\ Len(h \o ops) = Len(h) + Len(ops)
        /\ \A j \in 1..(Len(h) + Len(ops)) :
             (h \o ops)[j] = IF j <= Len(h) THEN h[j] ELSE ops[j - Len(h)]
    BY ConcatProperties, LenProperties
  <1>2. Done(h, c, s) \in Nat
    BY DoneType
  <1>3. ASSUME NEW k \in 1..Len(ops)
        PROVE  /\ ops[k] = [site |-> c, seq |-> Done(h, c, s) + k, session |-> s]
               /\ ops[k].site = c /\ ops[k].session = s /\ ops[k].seq = Done(h, c, s) + k
    <2>1. (Done(h, c, s) + Len(ops)) - Len(ops) + k = Done(h, c, s) + k
      BY <1>1, <1>2
    <2>2. ops[k] = [site |-> c, seq |-> (Done(h, c, s) + Len(ops)) - Len(ops) + k,
                    session |-> s]
      BY DEF RunOf
    <2>3. ops[k] = [site |-> c, seq |-> Done(h, c, s) + k, session |-> s]
      BY <2>1, <2>2
    <2> QED BY <2>3
  <1>30. \A k \in 1..Len(ops) :
           /\ ops[k].site = c /\ ops[k].session = s /\ ops[k].seq = Done(h, c, s) + k
    BY <1>3
  <1>4. ASSUME NEW k \in 0..Len(ops) PROVE Count(ops, c, s, k) = k
    <2>1. k \in Nat /\ \A i \in 1..k : i \in 1..Len(ops)
      BY <1>1
    <2>2. \A i \in 1..k : ops[i].site = c /\ ops[i].session = s
      BY <1>30, <2>1
    <2> QED BY <2>1, <2>2, CountAll
  <1>5. Done(h \o ops, c, s) = Done(h, c, s) + Len(ops)
    <2>1. Count(h \o ops, c, s, Len(h) + Len(ops)) = Done(h, c, s) + Count(ops, c, s, Len(ops))
      BY <1>1, CountAppend
    <2> QED BY <1>1, <1>4, <2>1 DEF Done
  <1>6. InOrder(h \o ops)
    <2>1. \A k \in 1..Len(ops) :
            ops[k].seq = Done(h, ops[k].site, ops[k].session)
                           + Count(ops, ops[k].site, ops[k].session, k)
      <3> SUFFICES ASSUME NEW k \in 1..Len(ops)
                   PROVE  ops[k].seq = Done(h, ops[k].site, ops[k].session)
                                         + Count(ops, ops[k].site, ops[k].session, k)
        OBVIOUS
      <3>1. k \in 0..Len(ops)
        BY <1>1
      <3>2. Count(ops, c, s, k) = k
        BY <1>4, <3>1
      <3> QED BY <1>30, <3>2
    <2> QED BY <2>1, InOrderPrefix
  <1>7. ASSUME NEW d, NEW r, d # c \/ r # s
        PROVE  Done(h \o ops, d, r) = Done(h, d, r)
    BY <1>30, <1>7, OthersSame
  <1>8. ASSUME NEW r \in Nat, NEW n \in 1..Done(h \o ops, c, r)
        PROVE  \E i \in 1..Len(h \o ops) :
                  (h \o ops)[i] = [site |-> c, seq |-> n, session |-> r]
    <2>0. Done(h, c, r) \in Nat /\ Done(h \o ops, c, r) \in Nat
      BY DoneType, ConcatProperties
    <2>1. CASE n <= Done(h, c, r)
      <3>1. PICK i \in 1..Len(h) : h[i] = [site |-> c, seq |-> n, session |-> r]
        BY <2>0, <2>1 DEF Complete
      <3>2. i \in 1..Len(h \o ops) /\ (h \o ops)[i] = h[i]
        BY <1>1
      <3> QED BY <3>1, <3>2
    <2>2. CASE ~(n <= Done(h, c, r))
      <3>1. r = s
        BY <1>7, <2>2
      <3>2. n - Done(h, c, s) \in 1..Len(ops)
        BY <1>1, <1>2, <1>5, <2>2, <3>1
      <3>3. PICK k \in 1..Len(ops) : k = n - Done(h, c, s)
        BY <3>2
      <3>4. Done(h, c, s) + k = n
        BY <1>2, <3>3
      <3>5. ops[k] = [site |-> c, seq |-> n, session |-> r]
        BY <1>3, <3>1, <3>4
      <3>6. Len(h) + k \in 1..Len(h \o ops) /\ (h \o ops)[Len(h) + k] = ops[k]
        BY <1>1
      <3> QED BY <3>5, <3>6
    <2> QED BY <2>1, <2>2
  <1>9. Complete(h \o ops, c)
    BY <1>8 DEF Complete
  <1> QED BY <1>5, <1>6, <1>7, <1>9

\* Ops of other sites are appended.
LEMMA CompleteSame ==
    ASSUME NEW h \in Seq(Op), NEW t \in Seq(Op), NEW c, Complete(h, c),
           \A s : Done(h \o t, c, s) = Done(h, c, s)
    PROVE  Complete(h \o t, c)
  <1>1. /\ Len(h) \in Nat /\ Len(t) \in Nat /\ Len(h \o t) = Len(h) + Len(t)
        /\ \A j \in 1..Len(h) : (h \o t)[j] = h[j]
    BY ConcatProperties, LenProperties
  <1>2. ASSUME NEW s \in Nat, NEW n \in 1..Done(h \o t, c, s)
        PROVE  \E i \in 1..Len(h \o t) : (h \o t)[i] = [site |-> c, seq |-> n, session |-> s]
    <2>1. n \in 1..Done(h, c, s)
      OBVIOUS
    <2>2. PICK i \in 1..Len(h) : h[i] = [site |-> c, seq |-> n, session |-> s]
      BY <2>1 DEF Complete
    <2>3. i \in 1..Len(h \o t) /\ (h \o t)[i] = h[i]
      BY <1>1
    <2> QED BY <2>2, <2>3
  <1> QED BY <1>2 DEF Complete

LEMMA FlightNextSame ==
    ASSUME NEW h, NEW g, NEW c, NEW q, FlightNext(h, c, q),
           \A i \in 1..Len(q) : q[i].type = "OpFromClient" =>
             Done(g, c, BatchSession(q[i])) = Done(h, c, BatchSession(q[i]))
    PROVE  FlightNext(g, c, q)
  <1>1. \A i \in 1..Len(q) : q[i].type = "OpFromClient" => NextBatch(g, c, q[i])
    BY DEF FlightNext, NextBatch
  <1> QED BY <1>1 DEF FlightNext

\* What a client has taken is in the history.
LEMMA TakenInHistory ==
    ASSUME AgreeInv, NEW c \in Clients
    PROVE  /\ history \in Seq(Op) /\ Len(history) \in Nat
           /\ CurrentSeq(c) \in 0..Len(history) /\ base[c] \in Nat /\ base[c] <= CurrentSeq(c)
           /\ buffer[c] \in Seq(Op) /\ Len(buffer[c]) \in Nat
           /\ StretchOf(history, buffer[c], CurrentSeq(c))
           /\ CurrentSeq(c) + Len(buffer[c]) <= Len(history)
  <1>1. /\ history \in Seq(Op) /\ Len(history) \in Nat /\ base[c] \in Nat
        /\ global[c] \in Seq(Op) /\ Len(global[c]) \in Nat
        /\ buffer[c] \in Seq(Op) /\ Len(buffer[c]) \in Nat
    BY LenProperties DEF AgreeInv, TypeInv, ServerType, ClientType, EngineType
  <1>2. CurrentSeq(c) \in Nat /\ base[c] <= CurrentSeq(c)
    BY <1>1 DEF CurrentSeq
  <1>3. StretchOf(history, buffer[c], CurrentSeq(c))
    BY DEF AgreeInv, ClientAgrees, CurrentSeq
  <1>4. CurrentSeq(c) + Len(buffer[c]) <= Len(history)
    BY <1>3 DEF StretchOf
  <1>5. CurrentSeq(c) \in 0..Len(history)
    BY <1>1, <1>2, <1>4
  <1> QED BY <1>1, <1>2, <1>3, <1>4, <1>5

\* The counts of a client whose document stays as it is: what the owner
\* appends is at most what the client has sent.
LEMMA CountsStay ==
    ASSUME AgreeInv, OnceInv, NEW ops \in Seq(Op), history' = history \o ops, NEW d \in Clients,
           UNCHANGED <<isOpen, session, engineVars>>,
           isOpen[d] = TRUE => Done(history \o ops, d, session[d]) <= lastSent[d]
    PROVE  ClientCounts(d)'
  <1>1. ClientCounts(d)
    BY DEF OnceInv
  <1>2. Count(history \o ops, d, session[d], CurrentSeq(d))
          = Count(history, d, session[d], CurrentSeq(d))
    BY TakenInHistory, CountPrefix
  <1>3. /\ isOpen' = isOpen /\ session' = session /\ siteSeq' = siteSeq /\ local' = local
        /\ lastSent' = lastSent /\ CurrentSeq(d)' = CurrentSeq(d)
    BY DEF engineVars, CurrentSeq
  <1> QED BY <1>1, <1>2, <1>3 DEF ClientCounts

-----------------------------------------------------------------------------
(* Steps *)

\* A batch in flight, seen by itself.
LEMMA BatchFields ==
    ASSUME TypeInv, LogInv, OnceInv, NEW c \in Clients, NEW i \in 1..Len(toServer[c]),
           toServer[c][i].type = "OpFromClient"
    PROVE  LET m == toServer[c][i]
           IN  /\ m \in BatchMsg /\ m.ops \in Seq(Op) /\ Len(m.ops) \in Nat \ {0}
               /\ BatchSession(m) \in Nat /\ BatchSession(m) <= session[c]
               /\ RunOf(m.ops, c, Done(history, c, BatchSession(m)) + Len(m.ops), BatchSession(m))
               /\ m.ops[1].seq = Done(history, c, BatchSession(m)) + 1
               /\ isOpen[c] /\ BatchSession(m) = session[c] =>
                    Done(history, c, BatchSession(m)) + Len(m.ops) <= lastSent[c]
  <1> DEFINE m == toServer[c][i]
             s == BatchSession(m)
             e == Done(history, c, s)
  <1>1. m \in BatchMsg
    BY ElementOfSeq DEF TypeInv, NetType
  <1>2. m.ops \in Seq(Op) /\ Len(m.ops) \in Nat \ {0}
    BY <1>1, MessageFields
  <1>3. RunOf(m.ops, c, e + Len(m.ops), s)
    BY DEF OnceInv, FlightNext, NextBatch
  <1>4. e \in Nat
    BY DoneType DEF TypeInv, ServerType
  <1>5. FlightOk(toServer[c], InFlight(c))
    BY DEF LogInv
  <1>6. BatchOps(m) \subseteq InFlight(c)
    BY <1>5 DEF FlightOk
  <1>7. \A k \in 1..Len(m.ops) : m.ops[k] \in MadeBy(c)
    BY <1>6 DEF BatchOps, OpsIn, InFlight
  <1>8. c # External
    BY SiteAssumption
  <1>9. \A k \in 1..Len(m.ops) :
          /\ m.ops[k] \in Op /\ m.ops[k].session <= session[c]
          /\ (isOpen[c] /\ m.ops[k].session = session[c]) => m.ops[k].seq <= lastSent[c]
    BY <1>7, <1>8 DEF MadeBy, Made
  <1> HIDE DEF m, e
  <1>10. s \in Nat /\ s <= session[c]
    BY <1>2, <1>9 DEF BatchSession, Op
  <1> HIDE DEF s
  <1>11. ASSUME NEW k \in 1..Len(m.ops)
         PROVE  m.ops[k].seq = e + k /\ m.ops[k].session = s
    <2>1. m.ops[k] = [site |-> c, seq |-> (e + Len(m.ops)) - Len(m.ops) + k, session |-> s]
      BY <1>3 DEF RunOf
    <2>2. (e + Len(m.ops)) - Len(m.ops) + k = e + k
      BY <1>2, <1>4
    <2> QED BY <2>1, <2>2
  <1>12. m.ops[1].seq = e + 1
    BY <1>2, <1>11
  <1>13. isOpen[c] /\ s = session[c] => e + Len(m.ops) <= lastSent[c]
    <2>1. Len(m.ops) \in 1..Len(m.ops)
      BY <1>2
    <2> QED BY <1>9, <1>11, <2>1
  <1> QED BY <1>1, <1>2, <1>3, <1>10, <1>12, <1>13 DEF e, s, m

\* A batch is accepted.
LEMMA AcceptCounts ==
    ASSUME AgreeInv, LogInv, OnceInv, NEW c \in Clients, NEW i \in 1..Len(toServer[c]),
           Accepts(c, i)
    PROVE  OnceInv'
  <1> DEFINE m == toServer[c][i]
             ops == m.ops
             s == BatchSession(m)
  <1>1. /\ m.type = "OpFromClient" /\ history' = history \o ops
        /\ toServer' = [toServer EXCEPT ![c] = Without(@, i)]
        /\ UNCHANGED <<isOpen, session, engineVars>>
    BY DEF Accepts
  <1>2. /\ TypeInv /\ history \in Seq(Op) /\ toServer[c] \in Seq(BatchMsg)
        /\ toServer \in [Clients -> Seq(BatchMsg)]
        /\ InOrder(history)
        /\ \A d \in Clients : Complete(history, d) /\ FlightNext(history, d, toServer[d])
                              /\ ClientCounts(d)
    BY DEF AgreeInv, TypeInv, ServerType, NetType, OnceInv
  <1>3. /\ ops \in Seq(Op) /\ s \in Nat /\ RunOf(ops, c, Done(history, c, s) + Len(ops), s)
        /\ isOpen[c] /\ s = session[c] => Done(history, c, s) + Len(ops) <= lastSent[c]
    BY <1>1, <1>2, BatchFields
  <1>4. PICK t, r : t = ops /\ r = s
    OBVIOUS
  <1> HIDE DEF ops
  <1>5. /\ InOrder(history \o t)
        /\ Done(history \o t, c, r) = Done(history, c, r) + Len(t)
        /\ \A d, x : d # c \/ x # r => Done(history \o t, d, x) = Done(history, d, x)
        /\ Complete(history \o t, c)
    BY <1>2, <1>3, <1>4, AppendRun
  <1>6. ASSUME NEW d \in Clients PROVE Complete(history \o t, d)
    <2>1. CASE d = c
      BY <1>5, <2>1
    <2>2. CASE d # c
      <3>1. \A x : Done(history \o t, d, x) = Done(history, d, x)
        BY <1>5, <2>2
      <3> QED BY <1>2, <1>3, <1>4, <3>1, CompleteSame
    <2> QED BY <2>1, <2>2
  <1>7. ASSUME NEW d \in Clients PROVE FlightNext(history \o t, d, toServer'[d])
    <2>1. CASE d # c
      <3>1. toServer'[d] = toServer[d]
        BY <1>1, <1>2, <2>1
      <3>2. \A x : Done(history \o t, d, x) = Done(history, d, x)
        BY <1>5, <2>1
      <3> QED BY <1>2, <3>1, <3>2, FlightNextSame
    <2>2. CASE d = c
      <3> DEFINE q == toServer[c]
                 w == Without(q, i)
      <3>1. toServer'[d] = w
        BY <1>1, <1>2, <2>2
      <3>2. Keeps(w, q)
        BY <1>2, QuietKeeps
      <3>3. FlightNext(history, c, w)
        BY <1>2, <3>2, FlightNextKeeps
      <3>4. ASSUME NEW j \in 1..Len(w), w[j].type = "OpFromClient"
            PROVE  BatchSession(w[j]) # r
        <4>1. PICK k \in 1..Len(q) : k # i /\ w[j] = q[k]
          BY <1>2, WithoutElements
        <4>2. BatchSession(q[k]) # BatchSession(q[i])
          BY <1>1, <1>2, <3>4, <4>1 DEF FlightNext
        <4> QED BY <1>4, <4>1, <4>2
      <3> HIDE DEF w
      <3>5. FlightNext(history \o t, c, w)
        BY <1>5, <3>3, <3>4, FlightNextSame
      <3> QED BY <2>2, <3>1, <3>5
    <2> QED BY <2>1, <2>2
  <1>8. ASSUME NEW d \in Clients PROVE ClientCounts(d)'
    <2>1. isOpen[d] = TRUE => Done(history \o t, d, session[d]) <= lastSent[d]
      <3>1. CASE d = c /\ session[d] = r
        BY <1>3, <1>4, <1>5, <3>1
      <3>2. CASE ~(d = c /\ session[d] = r)
        <4>1. Done(history \o t, d, session[d]) = Done(history, d, session[d])
          BY <1>5, <3>2
        <4> QED BY <1>2, <4>1 DEF ClientCounts
      <3> QED BY <3>1, <3>2
    <2> QED BY <1>1, <1>3, <1>4, <2>1, CountsStay
  <1>9. history' = history \o t
    BY <1>1, <1>4
  <1> QED BY <1>5, <1>6, <1>7, <1>8, <1>9 DEF OnceInv

\* A change on disk is appended.
LEMMA ResetCounts ==
    ASSUME AgreeInv, LogInv, OnceInv, ResetDocFromDisk
    PROVE  OnceInv'
  <1>1. /\ UNCHANGED <<isOpen, session, engineVars, toServer>>
        /\ history' = Append(history, [site |-> External, seq |-> external + 1, session |-> 0])
    BY DEF ResetDocFromDisk, clientVars, engineVars
  <1>2. /\ TypeInv /\ history \in Seq(Op) /\ external \in Nat
        /\ InOrder(history)
        /\ \A d \in Clients : Complete(history, d) /\ FlightNext(history, d, toServer[d])
                              /\ ClientCounts(d)
    BY DEF AgreeInv, TypeInv, ServerType, BoundType, OnceInv
  <1>3. PICK op \in Op : op = [site |-> External, seq |-> external + 1, session |-> 0]
    <2>1. [site |-> External, seq |-> external + 1, session |-> 0] \in Op
      BY <1>2 DEF Op
    <2> QED BY <2>1
  <1>4. PICK t : t = <<op>>
    OBVIOUS
  <1>5. /\ t \in Seq(Op) /\ history' = history \o t
        /\ \A k \in 1..Len(t) : t[k].site = External
    BY <1>1, <1>2, <1>3, <1>4, AppendIsConcat
  <1>6. InOrder(history \o t)
    BY <1>2, <1>5, InOrderPrefix
  <1>7. ASSUME NEW d \in Clients, NEW x PROVE Done(history \o t, d, x) = Done(history, d, x)
    <2>1. d # External
      BY SiteAssumption
    <2> QED BY <1>2, <1>5, <2>1, OthersSame
  <1>8. ASSUME NEW d \in Clients
        PROVE  Complete(history \o t, d) /\ FlightNext(history \o t, d, toServer[d])
    <2>1. \A x : Done(history \o t, d, x) = Done(history, d, x)
      BY <1>7
    <2> QED BY <1>2, <1>5, <2>1, CompleteSame, FlightNextSame
  <1>9. ASSUME NEW d \in Clients PROVE ClientCounts(d)'
    <2>1. isOpen[d] = TRUE => Done(history \o t, d, session[d]) <= lastSent[d]
      BY <1>2, <1>7 DEF ClientCounts
    <2> QED BY <1>1, <1>5, <2>1, CountsStay
  <1> QED BY <1>1, <1>5, <1>6, <1>8, <1>9 DEF OnceInv

\* Nothing is sent or appended.
LEMMA QuietCounts ==
    ASSUME AgreeInv, AgreeInv', LogInv, OnceInv, Quiet
    PROVE  OnceInv'
  <1>1. /\ TypeInv /\ history \in Seq(Op) /\ Len(history) \in Nat /\ history' = history
        /\ toServer \in [Clients -> Seq(BatchMsg)]
        /\ InOrder(history)
        /\ \A d \in Clients : Complete(history, d) /\ FlightNext(history, d, toServer[d])
                              /\ ClientCounts(d)
    BY LenProperties DEF AgreeInv, TypeInv, ServerType, NetType, OnceInv, Quiet
  <1>2. ASSUME NEW d \in Clients PROVE FlightNext(history, d, toServer'[d])
    <2>1. QuietQueue(d) /\ toServer[d] \in Seq(BatchMsg)
      BY <1>1 DEF Quiet
    <2>2. Keeps(toServer'[d], toServer[d])
      BY <2>1, QuietKeeps DEF QuietQueue
    <2> QED BY <1>1, <2>2, FlightNextKeeps
  <1>3. ASSUME UNCHANGED <<isOpen, session, engineVars>>, NEW d \in Clients
        PROVE  ClientCounts(d)'
    BY <1>1, <1>3 DEF ClientCounts, CurrentSeq, engineVars
  <1>4. ASSUME NEW c \in Clients, NEW seq \in Nat, NewRemoteDoc(c, seq) \/ DropRemoteDoc(c),
               NEW d \in Clients
        PROVE  ClientCounts(d)'
    <2>1. /\ isOpen \in [Clients -> BOOLEAN] /\ session \in [Clients -> Nat]
          /\ base \in [Clients -> Nat] /\ global \in [Clients -> Seq(Op)]
          /\ local \in [Clients -> Seq(Op)] /\ siteSeq \in [Clients -> Nat]
          /\ lastSent \in [Clients -> Nat]
      BY <1>1 DEF TypeInv, ClientType, EngineType
    <2>2. CASE d # c
      <3>1. /\ isOpen'[d] = isOpen[d] /\ session'[d] = session[d] /\ base'[d] = base[d]
            /\ global'[d] = global[d] /\ local'[d] = local[d] /\ siteSeq'[d] = siteSeq[d]
            /\ lastSent'[d] = lastSent[d]
        BY <1>4, <2>1, <2>2 DEF NewRemoteDoc, DropRemoteDoc
      <3> QED BY <1>1, <3>1 DEF ClientCounts, CurrentSeq
    <2>3. CASE d = c /\ DropRemoteDoc(c)
      <3>1. isOpen'[d] = FALSE
        BY <2>1, <2>3 DEF DropRemoteDoc
      <3> QED BY <3>1 DEF ClientCounts
    <2>4. CASE d = c /\ NewRemoteDoc(c, seq)
      <3>1. /\ session'[c] = session[c] + 1 /\ local'[c] = << >> /\ siteSeq'[c] = 0
            /\ lastSent'[c] = 0 /\ base'[c] = seq /\ global'[c] = << >>
        BY <2>1, <2>4 DEF NewRemoteDoc
      <3>2. ASSUME NEW i \in 1..Len(history)
            PROVE  ~(history[i].site = c /\ history[i].session = session[c] + 1)
        <4>1. Made(history[i]) /\ c # External /\ session[c] \in Nat
              /\ history[i] \in Op
          BY <1>1, <2>1, SiteAssumption, ElementOfSeq DEF LogInv, HistoryMade
        <4> QED BY <4>1 DEF Made, Op
      <3>3. /\ Len(global'[c]) = 0 /\ seq <= Len(history)
            /\ CurrentSeq(c)' = seq
        <4>1. StretchOf(history', global'[c], base'[c])
          BY DEF AgreeInv, ClientAgrees
        <4>2. Len(global'[c]) = 0
          BY <3>1
        <4> QED BY <1>1, <3>1, <4>1, <4>2 DEF StretchOf, CurrentSeq
      <3>4. PICK s : s = session[c] + 1
        OBVIOUS
      <3>5. Done(history, c, s) = 0
        BY <1>1, <3>2, <3>4, CountNone DEF Done
      <3>6. Count(history, c, s, seq) = 0
        <4>1. \A i \in 1..seq : i \in 1..Len(history)
          BY <1>1, <3>3
        <4> QED BY <3>2, <3>4, <4>1, CountNone
      <3>7. Len(local'[c]) = 0
        BY <3>1
      <3>8. /\ siteSeq'[c] = Len(local'[c]) + Count(history', c, session'[c], CurrentSeq(c)')
            /\ Done(history', c, session'[c]) <= lastSent'[c]
            /\ lastSent'[c] <= siteSeq'[c]
        BY <1>1, <3>1, <3>3, <3>4, <3>5, <3>6, <3>7
      <3> QED BY <2>4, <3>8 DEF ClientCounts
    <2> QED BY <1>4, <2>2, <2>3, <2>4
  <1> QED BY <1>1, <1>2, <1>3, <1>4 DEF OnceInv, Quiet

\* The acknowledgements among the first k ops of the buffer are the ops of
\* the session; there is an unacknowledged op for each.
LEMMA AcksCounted ==
    ASSUME AgreeInv, OnceInv, NoStaleOps, NEW c \in Clients, isOpen[c] = TRUE,
           NEW k \in 0..Len(buffer[c])
    PROVE  /\ Cardinality(Acks(c, k)) = Count(buffer[c], c, session[c], k)
           /\ Cardinality(Acks(c, k)) \in 0..Len(local[c])
           /\ Count(history, c, session[c], CurrentSeq(c) + k)
                = siteSeq[c] - Len(local[c]) + Cardinality(Acks(c, k))
  <1> DEFINE w == buffer[c]
             f == CurrentSeq(c)
             s == session[c]
  <1>1. /\ history \in Seq(Op) /\ Len(history) \in Nat /\ f \in Nat /\ base[c] \in Nat
        /\ base[c] <= f /\ w \in Seq(Op) /\ Len(w) \in Nat /\ StretchOf(history, w, f)
        /\ f + Len(w) <= Len(history) /\ k \in Nat
    BY TakenInHistory
  <1>2. /\ siteSeq[c] = Len(local[c]) + Count(history, c, s, f)
        /\ Done(history, c, s) <= lastSent[c] /\ lastSent[c] <= siteSeq[c]
    BY DEF OnceInv, ClientCounts
  <1>3. siteSeq[c] \in Nat /\ lastSent[c] \in Nat /\ Len(local[c]) \in Nat
    BY LenProperties DEF AgreeInv, TypeInv, ClientType, EngineType
  <1>4. ASSUME NEW j \in 1..k PROVE w[j].site = c => w[j].session = s
    <2>1. /\ f + j \in (base[c] + 1)..Len(history) /\ w[j] = history[f + j]
      BY <1>1 DEF StretchOf
    <2> QED BY <2>1 DEF NoStaleOps
  <1>5. Acks(c, k) = Places(w, c, s, k)
    BY <1>4 DEF Acks, Places
  <1> HIDE DEF w, f, s
  <1>6. Cardinality(Acks(c, k)) = Count(w, c, s, k)
    BY <1>5 DEF Count
  <1>7. Count(history, c, s, f + k) = Count(history, c, s, f) + Count(w, c, s, k)
    BY <1>1, CountStretch DEF w
  <1>8. /\ Count(history, c, s, f) \in Nat /\ Count(w, c, s, k) \in Nat
        /\ Count(history, c, s, f + k) \in Nat
    BY <1>1, CountType
  <1>9. Count(history, c, s, f + k) <= Done(history, c, s) /\ Done(history, c, s) \in Nat
    <2>1. f + k \in Nat /\ f + k <= Len(history)
      BY <1>1 DEF w
    <2> QED BY <1>1, <2>1, CountMonotone, DoneType DEF Done
  <1>10. Count(w, c, s, k) <= Len(local[c])
    BY <1>2, <1>3, <1>7, <1>8, <1>9
  <1>11. Count(history, c, s, f + k) = siteSeq[c] - Len(local[c]) + Count(w, c, s, k)
    BY <1>2, <1>3, <1>7, <1>8
  <1>12. Count(w, c, s, k) \in 0..Len(local[c])
    BY <1>3, <1>8, <1>10
  <1> QED BY <1>6, <1>11, <1>12 DEF w, f, s

\* What SendOps leaves: the site seqs of the ops that wait, and when they are
\* sent, that everything of the session is sequenced and taken.
LEMMA SendSeqs ==
    ASSUME AgreeInv, LogInv, OnceInv, NoStaleOps, NEW c \in Clients, isOpen[c] = TRUE,
           NEW n \in Nat
    PROVE  LET pending == NewLocal(c, n)
               rest    == SubSeq(pending, AckCount(c) + 1, Len(pending))
           IN  /\ rest \in Seq(Op)
               /\ RunOf(rest, c, siteSeq[c] + n, session[c])
               /\ siteSeq[c] + n
                    = Len(rest) + Count(history, c, session[c], Context(c))
               /\ PrevOpAcked(c, rest) =>
                    /\ rest # << >> /\ LastSeq(rest) = siteSeq[c] + n
                    /\ Done(history, c, session[c]) = lastSent[c]
                    /\ Count(history, c, session[c], Context(c)) = lastSent[c]
                    /\ rest[1].session = session[c]
                    /\ siteSeq[c] + n = Done(history, c, session[c]) + Len(rest)
  <1> DEFINE pending == NewLocal(c, n)
             A    == AckCount(c)
             rest == SubSeq(pending, A + 1, Len(pending))
             L    == Len(local[c])
             s    == session[c]
             last == siteSeq[c] + n
             D    == Done(history, c, s)
             T    == Count(history, c, s, Context(c))
  <1>1. TypeInv /\ siteSeq[c] \in Nat /\ lastSent[c] \in Nat /\ L \in Nat
    BY LenProperties DEF AgreeInv, TypeInv, ClientType, EngineType
  <1>2. A \in 0..L /\ T = siteSeq[c] - L + A
    <2>1. Len(buffer[c]) \in 0..Len(buffer[c])
      BY TakenInHistory
    <2>2. /\ Cardinality(Acks(c, Len(buffer[c]))) \in 0..Len(local[c])
          /\ Count(history, c, session[c], CurrentSeq(c) + Len(buffer[c]))
               = siteSeq[c] - Len(local[c]) + Cardinality(Acks(c, Len(buffer[c])))
      BY <2>1, AcksCounted
    <2> QED BY <2>2 DEF AckCount, Context
  <1>3. A \in Nat
    BY <1>1, <1>2
  <1>4. /\ Len(pending) = L + n /\ rest \in Seq(Op)
        /\ Len(rest) = (IF A < Len(pending) THEN Len(pending) - A ELSE 0)
        /\ RunOf(rest, c, last, s)
    BY <1>1, <1>3, PendingRun
  <1>5. T \in Nat /\ T <= D /\ D \in Nat /\ D <= lastSent[c] /\ lastSent[c] <= siteSeq[c]
    <2>1. Context(c) \in Nat /\ Context(c) <= Len(history) /\ Len(history) \in Nat
          /\ history \in Seq(Op)
      BY TakenInHistory DEF Context
    <2>2. T \in Nat /\ T <= D /\ D \in Nat
      BY <2>1, CountType, CountMonotone DEF Done
    <2> QED BY <2>2 DEF OnceInv, ClientCounts
  <1> HIDE DEF pending, A, rest, L, s, last, D, T
  <1>6. Len(rest) = (L + n) - A /\ last = Len(rest) + T /\ last \in Nat
    <2>1. A <= L /\ A \in Nat /\ L \in Nat /\ siteSeq[c] \in Nat
      BY <1>1, <1>2, <1>3
    <2>2. Len(rest) = (L + n) - A
      <3>1. Len(rest) = (IF A < L + n THEN (L + n) - A ELSE 0)
        BY <1>4
      <3> QED BY <2>1, <3>1
    <2>3. last = siteSeq[c] + n /\ T = (siteSeq[c] - L) + A
      BY <1>2 DEF last
    <2>4. last \in Nat
      BY <2>1, <2>3
    <2>5. siteSeq[c] + n = ((L + n) - A) + ((siteSeq[c] - L) + A)
      BY <2>1
    <2> QED BY <2>2, <2>3, <2>4, <2>5
  <1>7. ASSUME PrevOpAcked(c, rest)
        PROVE  /\ rest # << >> /\ LastSeq(rest) = last /\ rest[1].session = s
               /\ D = lastSent[c] /\ T = lastSent[c] /\ last = D + Len(rest)
    <2>1. rest # << >> /\ rest[1].seq = lastSent[c] + 1
      BY <1>7 DEF PrevOpAcked
    <2>2. LastSeq(rest) = last /\ Len(rest) \in Nat \ {0} /\ rest[1].seq = (last - Len(rest)) + 1
      <3>1. rest \in Seq(Op) /\ RunOf(rest, c, last, s) /\ last \in Nat /\ rest # << >>
        BY <1>4, <1>6, <2>1
      <3>2. LastSeq(rest) = last /\ Len(rest) \in Nat \ {0}
        BY <3>1, RunSeqs
      <3>3. rest[1].seq = last - Len(rest) + 1
        BY <3>1, RunSeqs
      <3> QED BY <3>1, <3>2, <3>3
    <2>3. T = lastSent[c]
      BY <1>1, <1>5, <1>6, <2>1, <2>2
    <2>4. D = lastSent[c]
      BY <1>1, <1>5, <2>3
    <2>5. rest[1].session = s
      <3>1. 1 \in 1..Len(rest)
        BY <2>2
      <3>2. rest[1] = [site |-> c, seq |-> last - Len(rest) + 1, session |-> s]
        BY <1>4, <3>1 DEF RunOf
      <3> QED BY <3>2
    <2>6. last = D + Len(rest)
      BY <1>5, <1>6, <2>2, <2>3, <2>4
    <2> QED BY <2>1, <2>2, <2>3, <2>4, <2>5, <2>6
  <1> QED
    BY <1>4, <1>6, <1>7 DEF pending, A, rest, s, last, D, T

\* One more message in a queue.
LEMMA QueuePlusOne ==
    ASSUME NEW q \in Seq(BatchMsg), NEW m \in BatchMsg
    PROVE  /\ Len(q \o <<m>>) = Len(q) + 1 /\ Len(q) \in Nat
           /\ \A k \in 1..Len(q \o <<m>>) :
                \/ k \in 1..Len(q) /\ (q \o <<m>>)[k] = q[k]
                \/ k = Len(q) + 1 /\ (q \o <<m>>)[k] = m
  <1>1. /\ Len(q) \in Nat /\ Len(q \o <<m>>) = Len(q) + 1
        /\ \A k \in 1..(Len(q) + 1) : (q \o <<m>>)[k] = IF k <= Len(q) THEN q[k] ELSE m
    BY ConcatProperties, LenProperties
  <1> QED BY <1>1

\* A batch with the next ops of its session, when there is none yet.
LEMMA FlightNextSend ==
    ASSUME NEW h, NEW c, NEW q \in Seq(BatchMsg), NEW m \in BatchMsg, FlightNext(h, c, q),
           NextBatch(h, c, m),
           \A i \in 1..Len(q) : q[i].type = "OpFromClient" => BatchSession(q[i]) # BatchSession(m)
    PROVE  FlightNext(h, c, q \o <<m>>)
  <1> DEFINE r == q \o <<m>>
  <1>1. \A k \in 1..Len(r) : \/ k \in 1..Len(q) /\ r[k] = q[k]
                             \/ k = Len(q) + 1 /\ r[k] = m
    BY QueuePlusOne
  <1> HIDE DEF r
  <1>2. ASSUME NEW k \in 1..Len(r), r[k].type = "OpFromClient" PROVE NextBatch(h, c, r[k])
    BY <1>1, <1>2 DEF FlightNext
  <1>3. ASSUME NEW j \in 1..Len(r), NEW k \in 1..Len(r), j # k, r[j].type = "OpFromClient",
               r[k].type = "OpFromClient"
        PROVE  BatchSession(r[j]) # BatchSession(r[k])
    <2>1. CASE j \in 1..Len(q) /\ r[j] = q[j] /\ k \in 1..Len(q) /\ r[k] = q[k]
      <3>1. BatchSession(q[j]) # BatchSession(q[k])
        BY <1>3, <2>1 DEF FlightNext
      <3> QED BY <2>1, <3>1
    <2>2. CASE j \in 1..Len(q) /\ r[j] = q[j] /\ r[k] = m
      <3>1. BatchSession(q[j]) # BatchSession(m)
        BY <1>3, <2>2
      <3> QED BY <2>2, <3>1
    <2>3. CASE r[j] = m /\ k \in 1..Len(q) /\ r[k] = q[k]
      <3>1. BatchSession(q[k]) # BatchSession(m)
        BY <1>3, <2>3
      <3> QED BY <2>3, <3>1
    <2> QED BY <1>1, <1>3, <2>1, <2>2, <2>3
  <1> QED BY <1>2, <1>3 DEF FlightNext, r

\* What SendOps does, with its batch by itself.
LEMMA SendParts ==
    ASSUME TypeInv, NEW c \in Clients, NEW n \in 0..MaxBatch, SendOps(c, n)
    PROVE  LET pending == NewLocal(c, n)
               rest    == SubSeq(pending, AckCount(c) + 1, Len(pending))
               m       == [type |-> "OpFromClient", context |-> Context(c), ops |-> rest]
               send    == PrevOpAcked(c, rest)
           IN  /\ n \in Nat /\ isOpen[c] = TRUE /\ history' = history
               /\ isOpen' = isOpen /\ session' = session
               /\ local'[c] = rest /\ siteSeq'[c] = siteSeq[c] + n
               /\ CurrentSeq(c)' = Context(c)
               /\ lastSent'[c] = IF send THEN LastSeq(rest) ELSE lastSent[c]
               /\ \A d \in Clients : d # c =>
                    /\ local'[d] = local[d] /\ siteSeq'[d] = siteSeq[d]
                    /\ lastSent'[d] = lastSent[d] /\ CurrentSeq(d)' = CurrentSeq(d)
               /\ \A d \in Clients :
                    toServer'[d] = IF d = c /\ up[c] /\ send THEN toServer[c] \o <<m>>
                                                             ELSE toServer[d]
               /\ rest \in Seq(Op) => (send => m \in BatchMsg)
  <1> DEFINE pending == NewLocal(c, n)
             rest    == SubSeq(pending, AckCount(c) + 1, Len(pending))
             m       == [type |-> "OpFromClient", context |-> Context(c), ops |-> rest]
             send    == PrevOpAcked(c, rest)
  <1>1. /\ isOpen[c] = TRUE
        /\ global' = [global EXCEPT ![c] = @ \o buffer[c]]
        /\ local' = [local EXCEPT ![c] = rest]
        /\ siteSeq' = [siteSeq EXCEPT ![c] = @ + n]
        /\ lastSent' = [lastSent EXCEPT ![c] = IF send THEN LastSeq(rest) ELSE @]
        /\ ToServer(c, IF send THEN <<m>> ELSE << >>)
        /\ UNCHANGED <<history, isOpen, session, base>>
    BY DEF SendOps, serverVars, TypeInv, ClientType
  <1>2. /\ n \in Nat /\ send => rest # << >>
        /\ siteSeq \in [Clients -> Nat] /\ lastSent \in [Clients -> Nat]
        /\ base \in [Clients -> Nat] /\ global \in [Clients -> Seq(Op)]
        /\ local \in [Clients -> Seq(Op)] /\ buffer \in [Clients -> Seq(Op)]
        /\ toServer \in [Clients -> Seq(BatchMsg)]
    BY BoundAssumption DEF TypeInv, ClientType, EngineType, NetType, PrevOpAcked
  <1> HIDE DEF rest, send
  <1>3. /\ Len(global[c]) \in Nat /\ Len(buffer[c]) \in Nat
        /\ global'[c] = global[c] \o buffer[c]
        /\ Len(global[c] \o buffer[c]) = Len(global[c]) + Len(buffer[c])
    BY <1>1, <1>2, LenProperties, ConcatProperties
  <1>4. CurrentSeq(c)' = Context(c) /\ Context(c) \in Nat
    <2>1. base[c] + (Len(global[c]) + Len(buffer[c])) = (base[c] + Len(global[c])) + Len(buffer[c])
          /\ (base[c] + Len(global[c])) + Len(buffer[c]) \in Nat
      BY <1>2, <1>3
    <2> QED BY <1>1, <1>3, <2>1 DEF CurrentSeq, Context
  <1>5. \A d \in Clients : d # c =>
          /\ local'[d] = local[d] /\ siteSeq'[d] = siteSeq[d]
          /\ lastSent'[d] = lastSent[d] /\ CurrentSeq(d)' = CurrentSeq(d)
    BY <1>1, <1>2 DEF CurrentSeq
  <1>6. /\ local'[c] = rest /\ siteSeq'[c] = siteSeq[c] + n
        /\ lastSent'[c] = IF send THEN LastSeq(rest) ELSE lastSent[c]
    BY <1>1, <1>2
  <1>7. ASSUME NEW d \in Clients
        PROVE  toServer'[d] = IF d = c /\ up[c] /\ send THEN toServer[c] \o <<m>>
                                                        ELSE toServer[d]
    <2> HIDE DEF m
    <2>1. toServer[c] \o << >> = toServer[c]
      BY <1>2, ConcatEmptySeq
    <2>2. toServer' = [toServer EXCEPT ![c] =
                         IF up[c] THEN toServer[c] \o (IF send THEN <<m>> ELSE << >>)
                                  ELSE toServer[c]]
      BY <1>1 DEF ToServer, Sent
    <2> QED BY <1>2, <2>1, <2>2
  <1>8. ASSUME rest \in Seq(Op), send PROVE m \in BatchMsg
    BY <1>2, <1>4, <1>8, MessageTypes
  <1>9. /\ n \in Nat /\ isOpen[c] = TRUE /\ history' = history
        /\ isOpen' = isOpen /\ session' = session
    BY <1>1, <1>2
  <1> HIDE DEF m
  <1>10. rest \in Seq(Op) => (send => m \in BatchMsg)
    BY <1>8
  <1> QED BY <1>4, <1>5, <1>6, <1>7, <1>9, <1>10 DEF rest, send, m, pending

\* A client whose sent ops are all sequenced has none in flight.
LEMMA NoneInFlight ==
    ASSUME TypeInv, LogInv, OnceInv, NEW c \in Clients, isOpen[c] = TRUE,
           Done(history, c, session[c]) = lastSent[c]
    PROVE  \A i \in 1..Len(toServer[c]) : toServer[c][i].type = "OpFromClient" =>
             BatchSession(toServer[c][i]) # session[c]
  <1> SUFFICES ASSUME NEW i \in 1..Len(toServer[c]), toServer[c][i].type = "OpFromClient",
                      BatchSession(toServer[c][i]) = session[c]
               PROVE  FALSE
    OBVIOUS
  <1>1. /\ Done(history, c, session[c]) + Len(toServer[c][i].ops) <= lastSent[c]
        /\ Len(toServer[c][i].ops) \in Nat \ {0}
    BY BatchFields
  <1>2. lastSent[c] \in Nat
    BY DEF TypeInv, ClientType, EngineType
  <1> QED BY <1>1, <1>2

\* A batch is sent, if any.
LEMMA SendCounts ==
    ASSUME AgreeInv, LogInv, OnceInv, NoStaleOps, NEW c \in Clients, NEW n \in 0..MaxBatch,
           SendOps(c, n)
    PROVE  OnceInv'
  <1> DEFINE pending == NewLocal(c, n)
             rest    == SubSeq(pending, AckCount(c) + 1, Len(pending))
             m       == [type |-> "OpFromClient", context |-> Context(c), ops |-> rest]
             send    == PrevOpAcked(c, rest)
             s       == session[c]
             D       == Done(history, c, s)
             T       == Count(history, c, s, Context(c))
  <1>1. /\ n \in Nat /\ isOpen[c] = TRUE /\ history' = history
        /\ isOpen' = isOpen /\ session' = session
        /\ local'[c] = rest /\ siteSeq'[c] = siteSeq[c] + n
        /\ CurrentSeq(c)' = Context(c)
        /\ lastSent'[c] = IF send THEN LastSeq(rest) ELSE lastSent[c]
        /\ \A d \in Clients : d # c =>
             /\ local'[d] = local[d] /\ siteSeq'[d] = siteSeq[d]
             /\ lastSent'[d] = lastSent[d] /\ CurrentSeq(d)' = CurrentSeq(d)
        /\ \A d \in Clients :
             toServer'[d] = IF d = c /\ up[c] /\ send THEN toServer[c] \o <<m>>
                                                      ELSE toServer[d]
        /\ rest \in Seq(Op) => (send => m \in BatchMsg)
    BY SendParts DEF AgreeInv
  <1>2. /\ rest \in Seq(Op)
        /\ RunOf(rest, c, siteSeq[c] + n, s)
        /\ siteSeq[c] + n = Len(rest) + T
        /\ send => /\ rest # << >> /\ LastSeq(rest) = siteSeq[c] + n
                   /\ D = lastSent[c] /\ T = lastSent[c]
                   /\ rest[1].session = s
                   /\ siteSeq[c] + n = D + Len(rest)
    BY <1>1, SendSeqs
  <1>3. /\ TypeInv /\ InOrder(history)
        /\ \A d \in Clients : Complete(history, d) /\ FlightNext(history, d, toServer[d])
                              /\ ClientCounts(d)
        /\ toServer[c] \in Seq(BatchMsg)
        /\ siteSeq[c] \in Nat /\ lastSent[c] \in Nat /\ D \in Nat
    BY DoneType DEF OnceInv, AgreeInv, TypeInv, NetType, ServerType, ClientType, EngineType
  <1>4. D <= lastSent[c] /\ lastSent[c] <= siteSeq[c]
    BY <1>1, <1>3 DEF ClientCounts
  <1>5. m.ops = rest
    OBVIOUS
  <1> HIDE DEF rest, send, m
  <1>6. ASSUME NEW d \in Clients PROVE ClientCounts(d)'
    <2>1. CASE d # c
      BY <1>1, <1>3, <2>1 DEF ClientCounts
    <2>2. CASE d = c
      <3>1. Done(history, c, s) <= lastSent'[c] /\ lastSent'[c] <= siteSeq'[c]
        <4>1. CASE send
          BY <1>1, <1>2, <1>3, <1>4, <4>1
        <4>2. CASE ~send
          BY <1>1, <1>3, <1>4, <4>2
        <4> QED BY <4>1, <4>2
      <3>2. siteSeq'[c] = Len(local'[c]) + Count(history', c, session'[c], CurrentSeq(c)')
        BY <1>1, <1>2
      <3> QED BY <1>1, <2>2, <3>1, <3>2 DEF ClientCounts
    <2> QED BY <2>1, <2>2
  <1>7. ASSUME NEW d \in Clients PROVE FlightNext(history, d, toServer'[d])
    <2>1. CASE d = c /\ up[c] /\ send
      <3>1. BatchSession(m) = s /\ m \in BatchMsg
        BY <1>1, <1>2, <1>5, <2>1 DEF BatchSession
      <3>2. NextBatch(history, c, m)
        BY <1>2, <1>5, <2>1, <3>1 DEF NextBatch
      <3>3. ASSUME NEW i \in 1..Len(toServer[c]), toServer[c][i].type = "OpFromClient"
            PROVE  BatchSession(toServer[c][i]) # s
        BY <1>1, <1>2, <1>3, <2>1, <3>3, NoneInFlight
      <3>4. FlightNext(history, c, toServer[c] \o <<m>>)
        BY <1>3, <3>1, <3>2, <3>3, FlightNextSend
      <3> QED BY <1>1, <2>1, <3>4
    <2>2. CASE ~(d = c /\ up[c] /\ send)
      BY <1>1, <1>3, <2>2
    <2> QED BY <2>1, <2>2
  <1> QED BY <1>1, <1>3, <1>6, <1>7 DEF OnceInv

LEMMA OnceInvariant == Spec /\ []NoStaleOps => []OnceInv
  <1>1. Init => OnceInv
    <2> SUFFICES ASSUME Init PROVE OnceInv
      OBVIOUS
    <2>1. /\ history = << >> /\ Len(history) = 0
          /\ \A c \in Clients : isOpen[c] = FALSE /\ toServer[c] = << >>
      BY EmptySeq DEF Init
    <2>2. \A c, s : Done(history, c, s) = 0
      BY <2>1, CountNone DEF Done
    <2>3. \A c \in Clients : Complete(history, c)
      BY <2>2 DEF Complete
    <2>4. \A c \in Clients : FlightNext(history, c, toServer[c]) /\ ClientCounts(c)
      BY <2>1 DEF FlightNext, ClientCounts
    <2>5. InOrder(history)
      BY <2>1 DEF InOrder
    <2> QED BY <2>3, <2>4, <2>5 DEF OnceInv
  <1>2. AgreeInv /\ AgreeInv' /\ LogInv /\ OnceInv /\ NoStaleOps /\ [Next]_vars => OnceInv'
    <2> SUFFICES ASSUME AgreeInv, AgreeInv', LogInv, OnceInv, NoStaleOps, [Next]_vars
                 PROVE  OnceInv'
      OBVIOUS
    <2>1. CASE Next
      <3>1. TypeInv
        BY DEF AgreeInv
      <3> QED
        BY <2>1, <3>1, StepKinds, QuietCounts, SendCounts, AcceptCounts, ResetCounts
    <2>2. CASE UNCHANGED vars
      BY <2>2 DEF vars, serverVars, clientVars, netVars, OnceInv, ClientCounts, CurrentSeq
    <2> QED BY <2>1, <2>2
  <1> QED
    BY <1>1, <1>2, AgreeInvariant, LogInvariant, PTL DEF Spec

\* The ops of every RemoteDoc enter the owner's history with site seqs 1, 2,
\* 3, ... (process_ops, prev_op_acked and last_site_seq), in any order of
\* delivery and with any loss, as long as no op of an earlier opening comes
\* in while the document is open again.
THEOREM OpsSequencedOnce == Spec /\ []NoStaleOps => []SequencedOnce
  <1>1. OnceInv => SequencedOnce
    BY DEF OnceInv, InOrder, SequencedOnce, Count, Places
  <1> QED BY <1>1, OnceInvariant, PTL

\* Under the same condition process_remote_op never fails with OpMissing or
\* OpMismatch: the acknowledgements in the buffer are those of the first
\* pending ops.
THEOREM AcknowledgementsFit == Spec /\ []NoStaleOps => []AcksFit
  <1>1. AgreeInv /\ LogInv /\ OnceInv /\ NoStaleOps => AcksFit
    <2> SUFFICES ASSUME AgreeInv, LogInv, OnceInv, NoStaleOps, NEW c \in Clients, isOpen[c],
                        NEW k \in 1..Len(buffer[c]), buffer[c][k].site = c
                 PROVE  LET n == Cardinality(Acks(c, k))
                        IN  n <= Len(local[c]) /\ local[c][n].seq = buffer[c][k].seq
      BY DEF AcksFit, AcksMatch
    <2> DEFINE n == Cardinality(Acks(c, k))
               f == CurrentSeq(c)
               s == session[c]
    <2>1. /\ isOpen[c] = TRUE /\ siteSeq[c] \in Nat /\ Len(local[c]) \in Nat
      BY LenProperties DEF AgreeInv, TypeInv, ClientType, EngineType
    <2>2. /\ history \in Seq(Op) /\ Len(history) \in Nat /\ f \in Nat /\ base[c] \in Nat
          /\ base[c] <= f /\ Len(buffer[c]) \in Nat /\ StretchOf(history, buffer[c], f)
          /\ f + Len(buffer[c]) <= Len(history)
      BY TakenInHistory
    <2>3. k \in 0..Len(buffer[c])
      BY <2>2
    <2>4. /\ n \in 0..Len(local[c])
          /\ Count(history, c, s, f + k) = siteSeq[c] - Len(local[c]) + n
      BY <2>1, <2>3, AcksCounted
    <2>5. /\ f + k \in (base[c] + 1)..Len(history) /\ f + k \in 1..Len(history)
          /\ history[f + k] = buffer[c][k]
      BY <2>2 DEF StretchOf
    <2>6. history[f + k].site = c /\ history[f + k].session = s /\ c # External
      BY <2>5, SiteAssumption DEF NoStaleOps
    <2>7. history[f + k].seq = Count(history, c, s, f + k)
      BY <2>5, <2>6 DEF OnceInv, InOrder
    <2>8. n # 0
      <3>1. k \in Acks(c, k)
        BY <2>2 DEF Acks
      <3>2. IsFiniteSet(Acks(c, k))
        <4>1. IsFiniteSet(1..k)
          <5>1. k \in Int
            BY <2>2
          <5> QED BY <5>1, FS_Interval
        <4>2. Acks(c, k) \in SUBSET (1..k)
          BY DEF Acks
        <4> QED BY <4>1, <4>2, FS_Subset
      <3> QED BY <3>1, <3>2, FS_EmptySet
    <2> HIDE DEF n, f, s
    <2>9. n \in 1..Len(local[c]) /\ n <= Len(local[c])
      BY <2>1, <2>4, <2>8
    <2>10. local[c][n].seq = siteSeq[c] - Len(local[c]) + n
      <3>1. local[c][n] = [site |-> c, seq |-> siteSeq[c] - Len(local[c]) + n,
                           session |-> session[c]]
        BY <2>9 DEF LogInv, LocalRun, RunOf
      <3> QED BY <3>1
    <2> QED BY <2>4, <2>5, <2>7, <2>9, <2>10 DEF n
  <1> QED BY <1>1, OnceInvariant, AgreeInvariant, LogInvariant, PTL

\* Under the same condition no edit is forgotten: an op leaves the local
\* history of an open document only when the owner has sequenced it.
THEOREM OpsAreKept == Spec /\ []NoStaleOps => []NoOpForgotten
  <1>1. AgreeInv /\ LogInv /\ OnceInv => NoOpForgotten
    <2> SUFFICES ASSUME AgreeInv, LogInv, OnceInv, NEW c \in Clients, isOpen[c],
                        NEW k \in 1..siteSeq[c]
                 PROVE  LET op == [site |-> c, seq |-> k, session |-> session[c]]
                        IN  \/ \E i \in 1..Len(local[c]) : local[c][i] = op
                            \/ \E i \in 1..Len(history) : history[i] = op
      BY DEF NoOpForgotten
    <2> DEFINE f == CurrentSeq(c)
               s == session[c]
    <2>1. /\ isOpen[c] = TRUE /\ siteSeq[c] \in Nat /\ Len(local[c]) \in Nat /\ s \in Nat
      BY LenProperties DEF AgreeInv, TypeInv, ClientType, EngineType
    <2>2. siteSeq[c] = Len(local[c]) + Count(history, c, s, f)
      BY <2>1 DEF OnceInv, ClientCounts
    <2>3. /\ Count(history, c, s, f) \in Nat /\ Done(history, c, s) \in Nat
          /\ Count(history, c, s, f) <= Done(history, c, s)
      <3>1. /\ history \in Seq(Op) /\ Len(history) \in Nat /\ f \in Nat /\ f <= Len(history)
        BY TakenInHistory
      <3> QED BY <3>1, CountType, CountMonotone DEF Done
    <2> HIDE DEF f, s
    <2>4. CASE k <= Count(history, c, s, f)
      <3>1. k \in 1..Done(history, c, s)
        BY <2>1, <2>3, <2>4
      <3>2. Complete(history, c)
        BY DEF OnceInv
      <3> QED BY <2>1, <3>1, <3>2 DEF Complete, s
    <2>5. CASE ~(k <= Count(history, c, s, f))
      <3>1. PICK i : i = k - Count(history, c, s, f)
        OBVIOUS
      <3>2. i \in 1..Len(local[c]) /\ siteSeq[c] - Len(local[c]) + i = k
        <4> DEFINE L == Len(local[c])
                   T == Count(history, c, s, f)
                   q == siteSeq[c]
        <4>1. /\ k \in 1..q /\ q \in Nat /\ L \in Nat /\ T \in Nat /\ q = L + T
              /\ ~(k <= T) /\ i = k - T
          BY <2>1, <2>2, <2>3, <2>5, <3>1
        <4> HIDE DEF L, T, q
        <4>2. i \in 1..L /\ q - L + i = k
          BY <4>1
        <4> QED BY <4>2 DEF L, q
      <3>3. local[c][i] = [site |-> c, seq |-> siteSeq[c] - Len(local[c]) + i,
                           session |-> session[c]]
        BY <3>2 DEF LogInv, LocalRun, RunOf
      <3>4. local[c][i] = [site |-> c, seq |-> k, session |-> session[c]]
        BY <3>2, <3>3
      <3> QED BY <3>2, <3>4
    <2> QED BY <2>4, <2>5
  <1> QED BY <1>1, OnceInvariant, AgreeInvariant, LogInvariant, PTL

-----------------------------------------------------------------------------
(* No op is concurrent with an op of its own site *)

OneBatch(q) ==
    \A i, j \in 1..Len(q) :
        q[i].type = "OpFromClient" /\ q[j].type = "OpFromClient" => i = j

\* The batches of q were made with all ops of c in h in their context.
KnowsOwn(h, c, q) ==
    \A i \in 1..Len(q) : q[i].type = "OpFromClient" =>
        \A g \in (q[i].context + 1)..Len(h) : h[g].site # c

SelfInv == \A c \in Clients : OneBatch(toServer[c]) /\ KnowsOwn(history, c, toServer[c])

\* It stays so for the same or fewer batches,
LEMMA KnowsOwnKeeps ==
    ASSUME NEW h, NEW c, NEW q, NEW r, Keeps(r, q), OneBatch(q), KnowsOwn(h, c, q)
    PROVE  OneBatch(r) /\ KnowsOwn(h, c, r)
  <1>1. PICK at \in [1..Len(r) -> Int] :
        /\ \A j \in 1..Len(r) : r[j].type = "OpFromClient" =>
             at[j] \in 1..Len(q) /\ r[j] = q[at[j]]
        /\ \A j, k \in 1..Len(r) :
             j # k /\ r[j].type = "OpFromClient" /\ r[k].type = "OpFromClient" => at[j] # at[k]
    BY DEF Keeps
  <1>2. ASSUME NEW j \in 1..Len(r), NEW k \in 1..Len(r), r[j].type = "OpFromClient",
               r[k].type = "OpFromClient"
        PROVE  j = k
    <2>1. /\ at[j] \in 1..Len(q) /\ r[j] = q[at[j]] /\ at[k] \in 1..Len(q) /\ r[k] = q[at[k]]
      BY <1>1, <1>2
    <2>2. at[j] = at[k]
      BY <1>2, <2>1 DEF OneBatch
    <2> QED BY <1>1, <1>2, <2>2
  <1>3. ASSUME NEW j \in 1..Len(r), r[j].type = "OpFromClient"
        PROVE  \A g \in (r[j].context + 1)..Len(h) : h[g].site # c
    <2>1. at[j] \in 1..Len(q) /\ r[j] = q[at[j]]
      BY <1>1, <1>3
    <2> QED BY <1>3, <2>1 DEF KnowsOwn
  <1> QED BY <1>2, <1>3 DEF OneBatch, KnowsOwn

\* and when ops of other sites are appended.
LEMMA KnowsOwnAppend ==
    ASSUME NEW h \in Seq(Op), NEW t \in Seq(Op), NEW c, NEW q \in Seq(BatchMsg),
           KnowsOwn(h, c, q), \A k \in 1..Len(t) : t[k].site # c
    PROVE  KnowsOwn(h \o t, c, q)
  <1>1. /\ Len(h) \in Nat /\ Len(t) \in Nat /\ Len(h \o t) = Len(h) + Len(t)
        /\ \A j \in 1..(Len(h) + Len(t)) :
             (h \o t)[j] = IF j <= Len(h) THEN h[j] ELSE t[j - Len(h)]
    BY ConcatProperties, LenProperties
  <1>2. ASSUME NEW i \in 1..Len(q), q[i].type = "OpFromClient",
               NEW g \in (q[i].context + 1)..Len(h \o t)
        PROVE  (h \o t)[g].site # c
    <2>1. q[i] \in BatchMsg
      BY ElementOfSeq
    <2>2. q[i].context \in Nat
      BY <1>2, <2>1, MessageFields
    <2>3. CASE g <= Len(h)
      <3>1. g \in (q[i].context + 1)..Len(h) /\ (h \o t)[g] = h[g]
        BY <1>1, <2>2, <2>3
      <3> QED BY <1>2, <3>1 DEF KnowsOwn
    <2>4. CASE ~(g <= Len(h))
      <3>1. g - Len(h) \in 1..Len(t) /\ (h \o t)[g] = t[g - Len(h)]
        BY <1>1, <2>2, <2>4
      <3> QED BY <3>1
    <2> QED BY <2>3, <2>4
  <1> QED BY <1>2 DEF KnowsOwn

\* A batch is sent when none is under way, with all ops of the site taken.
LEMMA SendSelf ==
    ASSUME AgreeInv, LogInv, OnceInv, SelfInv, NoStaleOps, NoStaleBatch,
           NEW c \in Clients, NEW n \in 0..MaxBatch, SendOps(c, n)
    PROVE  SelfInv'
  <1> DEFINE pending == NewLocal(c, n)
             rest    == SubSeq(pending, AckCount(c) + 1, Len(pending))
             m       == [type |-> "OpFromClient", context |-> Context(c), ops |-> rest]
             send    == PrevOpAcked(c, rest)
             s       == session[c]
             q       == toServer[c]
  <1>1. /\ n \in Nat /\ isOpen[c] = TRUE /\ history' = history
        /\ \A d \in Clients :
             toServer'[d] = IF d = c /\ up[c] /\ send THEN toServer[c] \o <<m>>
                                                      ELSE toServer[d]
        /\ rest \in Seq(Op) => (send => m \in BatchMsg)
    BY SendParts DEF AgreeInv
  <1>2. /\ rest \in Seq(Op)
        /\ send => /\ Done(history, c, s) = lastSent[c]
                   /\ Count(history, c, s, Context(c)) = lastSent[c]
    BY <1>1, SendSeqs
  <1>3. TypeInv /\ q \in Seq(BatchMsg)
    BY DEF AgreeInv, TypeInv, NetType
  <1>4. m.context = Context(c)
    OBVIOUS
  <1> HIDE DEF rest, send, m
  <1>5. ASSUME NEW d \in Clients, ~(d = c /\ up[c] /\ send)
        PROVE  OneBatch(toServer'[d]) /\ KnowsOwn(history, d, toServer'[d])
    BY <1>1, <1>5 DEF SelfInv
  <1>6. ASSUME up[c], send
        PROVE  OneBatch(toServer'[c]) /\ KnowsOwn(history, c, toServer'[c])
    <2>1. toServer'[c] = q \o <<m>> /\ m \in BatchMsg
      BY <1>1, <1>2, <1>6
    <2>2. \A i \in 1..Len(q) : q[i].type # "OpFromClient"
      <3>1. \A i \in 1..Len(q) : q[i].type = "OpFromClient" => BatchSession(q[i]) # s
        BY <1>1, <1>2, <1>3, <1>6, NoneInFlight
      <3>2. \A i \in 1..Len(q) : q[i].type = "OpFromClient" => BatchSession(q[i]) = s
        BY <1>1 DEF NoStaleBatch, BatchSession
      <3> QED BY <3>1, <3>2
    <2>3. \A k \in 1..Len(q \o <<m>>) :
            (q \o <<m>>)[k].type = "OpFromClient" => k = Len(q) + 1 /\ (q \o <<m>>)[k] = m
      BY <1>3, <2>1, <2>2, QueuePlusOne
    <2>4. ASSUME NEW g \in (Context(c) + 1)..Len(history) PROVE history[g].site # c
      <3>1. /\ Context(c) \in Nat /\ Context(c) <= Len(history) /\ Len(history) \in Nat
            /\ base[c] <= Context(c) /\ base[c] \in Nat
        BY TakenInHistory DEF Context
      <3>2. ~(history[g].site = c /\ history[g].session = s)
        <4>1. Count(history, c, s, Context(c)) = Count(history, c, s, Len(history))
          BY <1>2, <1>6 DEF Done
        <4> QED BY <3>1, <4>1, CountMonotone
      <3>3. g \in (base[c] + 1)..Len(history)
        BY <3>1
      <3>4. history[g].site = c => history[g].session = s
        BY <1>1, <3>3 DEF NoStaleOps
      <3> QED BY <3>2, <3>4
    <2>5. OneBatch(q \o <<m>>)
      BY <2>3 DEF OneBatch
    <2>6. KnowsOwn(history, c, q \o <<m>>)
      BY <1>4, <2>3, <2>4 DEF KnowsOwn
    <2> QED BY <2>1, <2>5, <2>6
  <1> QED BY <1>1, <1>5, <1>6 DEF SelfInv

\* A batch is accepted: its client has no other.
LEMMA AcceptSelf ==
    ASSUME AgreeInv, LogInv, OnceInv, SelfInv, NEW c \in Clients, NEW i \in 1..Len(toServer[c]),
           Accepts(c, i)
    PROVE  SelfInv'
  <1>1. /\ TypeInv /\ history \in Seq(Op) /\ toServer \in [Clients -> Seq(BatchMsg)]
        /\ \A d \in Clients : OneBatch(toServer[d]) /\ KnowsOwn(history, d, toServer[d])
    BY DEF AgreeInv, TypeInv, ServerType, NetType, SelfInv
  <1>2. PICK t : t = toServer[c][i].ops
    OBVIOUS
  <1>3. /\ toServer[c][i].type = "OpFromClient" /\ history' = history \o t
        /\ toServer' = [toServer EXCEPT ![c] = Without(@, i)]
    BY <1>2 DEF Accepts
  <1>4. t \in Seq(Op) /\ \A k \in 1..Len(t) : t[k].site = c
    <2>1. /\ t \in Seq(Op)
          /\ RunOf(t, c, Done(history, c, BatchSession(toServer[c][i])) + Len(t),
                   BatchSession(toServer[c][i]))
      BY <1>1, <1>2, <1>3, BatchFields
    <2>2. PICK last, s : RunOf(t, c, last, s)
      BY <2>1
    <2>3. ASSUME NEW k \in 1..Len(t) PROVE t[k].site = c
      <3>1. t[k] = [site |-> c, seq |-> last - Len(t) + k, session |-> s]
        BY <2>2 DEF RunOf
      <3> QED BY <3>1
    <2> QED BY <2>1, <2>3
  <1>5. ASSUME NEW d \in Clients
        PROVE  OneBatch(toServer'[d]) /\ KnowsOwn(history \o t, d, toServer'[d])
    <2>1. CASE d # c
      <3>1. toServer'[d] = toServer[d] /\ toServer[d] \in Seq(BatchMsg)
        BY <1>1, <1>3, <2>1
      <3>2. \A k \in 1..Len(t) : t[k].site # d
        BY <1>4, <2>1
      <3> QED BY <1>1, <1>4, <3>1, <3>2, KnowsOwnAppend
    <2>2. CASE d = c
      <3> DEFINE w == Without(toServer[c], i)
      <3>1. toServer'[d] = w
        BY <1>1, <1>3, <2>2
      <3>2. ASSUME NEW j \in 1..Len(w) PROVE w[j].type # "OpFromClient"
        <4>1. PICK k \in 1..Len(toServer[c]) : k # i /\ w[j] = toServer[c][k]
          <5>1. toServer[c] \in Seq(BatchMsg) /\ i \in 1..Len(toServer[c])
            BY <1>1
          <5>2. \A l \in 1..Len(Without(toServer[c], i)) : \E k \in 1..Len(toServer[c]) :
                  k # i /\ Without(toServer[c], i)[l] = toServer[c][k]
            <6> HIDE DEF w
            <6> QED BY <5>1, WithoutElements
          <5> QED BY <5>2
        <4>2. OneBatch(toServer[c])
          BY <1>1
        <4>3. toServer[c][k].type # "OpFromClient"
          BY <1>3, <4>1, <4>2 DEF OneBatch
        <4> QED BY <4>1, <4>3
      <3> HIDE DEF w
      <3> QED BY <3>1, <3>2 DEF OneBatch, KnowsOwn
    <2> QED BY <2>1, <2>2
  <1> QED BY <1>3, <1>5 DEF SelfInv

\* Other steps.
LEMMA OtherSelf ==
    ASSUME AgreeInv, SelfInv, Quiet \/ ResetDocFromDisk
    PROVE  SelfInv'
  <1>1. /\ TypeInv /\ history \in Seq(Op) /\ toServer \in [Clients -> Seq(BatchMsg)]
        /\ external \in Nat
        /\ \A d \in Clients : OneBatch(toServer[d]) /\ KnowsOwn(history, d, toServer[d])
    BY DEF AgreeInv, TypeInv, ServerType, NetType, BoundType, SelfInv
  <1>2. CASE Quiet
    <2>1. ASSUME NEW d \in Clients
          PROVE  OneBatch(toServer'[d]) /\ KnowsOwn(history, d, toServer'[d])
      <3>1. QuietQueue(d) /\ toServer[d] \in Seq(BatchMsg)
        BY <1>1, <1>2 DEF Quiet
      <3>2. Keeps(toServer'[d], toServer[d])
        BY <3>1, QuietKeeps DEF QuietQueue
      <3> QED BY <1>1, <3>2, KnowsOwnKeeps
    <2> QED BY <1>2, <2>1 DEF Quiet, SelfInv
  <1>3. CASE ResetDocFromDisk
    <2>1. /\ toServer' = toServer
          /\ history' = Append(history, [site |-> External, seq |-> external + 1, session |-> 0])
      BY <1>3 DEF ResetDocFromDisk
    <2>2. PICK op \in Op : op = [site |-> External, seq |-> external + 1, session |-> 0]
      <3>1. [site |-> External, seq |-> external + 1, session |-> 0] \in Op
        BY <1>1 DEF Op
      <3> QED BY <3>1
    <2>3. PICK t : t = <<op>>
      OBVIOUS
    <2>4. /\ t \in Seq(Op) /\ history' = history \o t
          /\ \A k \in 1..Len(t) : t[k].site = External
      BY <1>1, <2>1, <2>2, <2>3, AppendIsConcat
    <2>5. ASSUME NEW d \in Clients PROVE KnowsOwn(history \o t, d, toServer[d])
      <3>1. d # External /\ toServer[d] \in Seq(BatchMsg)
        BY <1>1, SiteAssumption
      <3> QED BY <1>1, <2>4, <3>1, KnowsOwnAppend
    <2> QED BY <1>1, <2>1, <2>4, <2>5 DEF SelfInv
  <1> QED BY <1>2, <1>3

LEMMA SelfInvariant == Spec /\ []NoStaleOps /\ []NoStaleBatch => []SelfInv
  <1>1. Init => SelfInv
    <2>1. Init => \A c \in Clients : toServer[c] = << >>
      BY DEF Init
    <2> QED BY <2>1, EmptySeq DEF SelfInv, OneBatch, KnowsOwn
  <1>2. AgreeInv /\ LogInv /\ OnceInv /\ SelfInv /\ NoStaleOps /\ NoStaleBatch /\ [Next]_vars
          => SelfInv'
    <2> SUFFICES ASSUME AgreeInv, LogInv, OnceInv, SelfInv, NoStaleOps, NoStaleBatch, [Next]_vars
                 PROVE  SelfInv'
      OBVIOUS
    <2>1. CASE Next
      <3>1. TypeInv
        BY DEF AgreeInv
      <3> QED BY <2>1, <3>1, StepKinds, SendSelf, AcceptSelf, OtherSelf
    <2>2. CASE UNCHANGED vars
      BY <2>2 DEF vars, serverVars, netVars, SelfInv
    <2> QED BY <2>1, <2>2
  <1> QED BY <1>1, <1>2, AgreeInvariant, LogInvariant, OnceInvariant, PTL DEF Spec

\* A batch the owner accepts has all earlier ops of its site in its context
\* (process_ops transforms it against ops of other sites only), when neither
\* ops nor batches of an earlier opening come in while the document is open.
THEOREM OwnOpsAreKnown ==
    Spec /\ []NoStaleOps /\ []NoStaleBatch => []NoSelfConcurrency
  <1>1. SelfInv => NoSelfConcurrency
    BY SiteAssumption DEF SelfInv, KnowsOwn, NoSelfConcurrency
  <1> QED BY <1>1, SelfInvariant, PTL

-----------------------------------------------------------------------------
(***************************************************************************)
(* 4. When no op of an earlier opening comes in                            *)
(*                                                                         *)
(* The condition of part 3 holds when a host opens the document once,      *)
(* whatever its transport; and when its messages keep their order and its  *)
(* editor waits for the answer to OpenFile, as often as it closes and      *)
(* opens, and through any number of breaks and restarts.                   *)
(***************************************************************************)

OpenedOnce(c)   == MaxOpens[c] <= 1
OpenedInTurn(c) == c \in Ordered \ Local /\ RetryOpen = FALSE
OpensApart      == \A c \in Clients : OpenedOnce(c) \/ OpenedInTurn(c)

Has(q, type)       == \E i \in 1..Len(q) : q[i].type = type
AtMostOne(q, type) == \A i, j \in 1..Len(q) : q[i].type = type /\ q[j].type = type => i = j

\* A host that opens a document has one request or one answer under way, and
\* none once it is open.
AsksOnce(c) ==
    /\ AtMostOne(toServer[c], "RequestFile") /\ AtMostOne(toClient[c], "Snapshot")
    /\ ~(Has(toServer[c], "RequestFile") /\ Has(toClient[c], "Snapshot"))
    /\ isOpen[c] => ~Opening(c)

\* All batches of the queue were made in session s.
BatchesOf(q, s) == \A i \in 1..Len(q) : \A op \in BatchOps(q[i]) : op.session = s
\* All ops of c in h from place f + 1 on were.
OpsOfSession(h, c, f, s) == \A i \in (f + 1)..Len(h) : h[i].site = c => h[i].session = s

\* A host that opens once has one session.
OneSession(c) ==
    /\ AsksOnce(c)
    /\ opens[c] <= MaxOpens[c] /\ session[c] <= 1
    /\ opens[c] = 0 => session[c] = 0 /\ ~Opening(c)
    /\ session[c] = 1 => ~Opening(c)
    /\ isOpen[c] => session[c] = 1
    /\ OpsOfSession(history, c, 0, 1) /\ BatchesOf(toServer[c], 1)

\* With ordered messages the RequestFile pushes the batches of the earlier
\* sessions out: when the Snapshot is under way there is none, and none of their
\* ops is sequenced after it.
InTurn(c) ==
    /\ AsksOnce(c)
    /\ isOpen[c] => /\ OpsOfSession(history, c, base[c], session[c])
                    /\ BatchesOf(toServer[c], session[c])
    /\ \A i, j \in 1..Len(toServer[c]) :
         toServer[c][j].type = "RequestFile" /\ toServer[c][i].type = "OpFromClient" => i < j
    /\ \A j \in 1..Len(toClient[c]) : toClient[c][j].type = "Snapshot" =>
         /\ ~Has(toServer[c], "OpFromClient")
         /\ \A i \in (toClient[c][j].seq + 1)..Len(history) : history[i].site # c

ApartInv(c) == /\ OpenedOnce(c) => OneSession(c)
               /\ OpenedInTurn(c) => InTurn(c)

-----------------------------------------------------------------------------
(* Queues *)

\* The messages of r are some of those of q, in their order, and others of the
\* given types.
Later(r, q, types) ==
    \E at \in [1..Len(r) -> Int] :
        /\ \A j \in 1..Len(r) : \/ at[j] \in 1..Len(q) /\ r[j] = q[at[j]]
                                \/ r[j].type \in types
        /\ \A j, k \in 1..Len(r) : j < k => at[j] < at[k]

LEMMA LaterSame ==
    ASSUME NEW S, NEW q \in Seq(S), NEW types
    PROVE  Later(q, q, types) /\ Later(<< >>, q, types)
  <1>1. Later(q, q, types)
    <2> DEFINE at == [j \in 1..Len(q) |-> j]
    <2>1. /\ at \in [1..Len(q) -> Int]
          /\ \A j \in 1..Len(q) : at[j] = j
      OBVIOUS
    <2> HIDE DEF at
    <2> QED BY <2>1 DEF Later
  <1>2. Later(<< >>, q, types)
    <2>1. PICK r \in Seq(S) : r = << >>
      BY EmptySeq
    <2>2. Len(r) = 0
      BY <2>1, EmptySeq
    <2> DEFINE at == [j \in 1..Len(r) |-> j]
    <2>3. at \in [1..Len(r) -> Int]
      OBVIOUS
    <2> HIDE DEF at
    <2>4. \A j \in 1..Len(r) : FALSE
      BY <2>2
    <2>5. Later(r, q, types)
      BY <2>3, <2>4 DEF Later
    <2> QED BY <2>1, <2>5
  <1> QED BY <1>1, <1>2

LEMMA LaterWithout ==
    ASSUME NEW S, NEW q \in Seq(S), NEW i \in 1..Len(q), NEW types
    PROVE  Later(Without(q, i), q, types)
  <1> DEFINE r  == Without(q, i)
             at == [j \in 1..Len(r) |-> IF j < i THEN j ELSE j + 1]
  <1>1. Len(r) \in Nat /\ Len(q) \in Nat
    BY WithoutElements, LenProperties
  <1>2. at \in [1..Len(r) -> Int]
    BY <1>1
  <1>3. \A j \in 1..Len(r) : at[j] \in 1..Len(q) /\ r[j] = q[at[j]]
    BY WithoutElements
  <1>4. \A j, k \in 1..Len(r) : j < k => at[j] < at[k]
    BY <1>1
  <1> HIDE DEF r, at
  <1> QED BY <1>2, <1>3, <1>4 DEF Later, r

LEMMA LaterAppend ==
    ASSUME NEW S, NEW q \in Seq(S), NEW msgs \in Seq(S), NEW types,
           \A k \in 1..Len(msgs) : msgs[k].type \in types
    PROVE  Later(q \o msgs, q, types)
  <1> DEFINE r  == q \o msgs
             at == [j \in 1..Len(r) |-> j]
  <1>1. /\ Len(q) \in Nat /\ Len(msgs) \in Nat /\ Len(r) = Len(q) + Len(msgs)
        /\ \A j \in 1..(Len(q) + Len(msgs)) : r[j] = IF j <= Len(q) THEN q[j] ELSE msgs[j - Len(q)]
    BY ConcatProperties, LenProperties
  <1>2. /\ at \in [1..Len(r) -> Int]
        /\ \A j \in 1..Len(r) : at[j] = j
    OBVIOUS
  <1> HIDE DEF r, at
  <1>3. ASSUME NEW j \in 1..Len(r)
        PROVE  \/ at[j] \in 1..Len(q) /\ r[j] = q[at[j]]
               \/ r[j].type \in types
    <2>1. CASE j <= Len(q)
      BY <1>1, <1>2, <2>1
    <2>2. CASE ~(j <= Len(q))
      <3>1. r[j] = msgs[j - Len(q)] /\ j - Len(q) \in 1..Len(msgs)
        BY <1>1, <2>2
      <3> QED BY <3>1
    <2> QED BY <2>1, <2>2
  <1>4. \A j, k \in 1..Len(r) : j < k => at[j] < at[k]
    BY <1>2
  <1> QED BY <1>2, <1>3, <1>4 DEF Later, r

\* A message of another type was there before.
LEMMA LaterHas ==
    ASSUME NEW r, NEW q, NEW types, Later(r, q, types), NEW type, type \notin types
    PROVE  /\ Has(r, type) => Has(q, type)
           /\ AtMostOne(q, type) => AtMostOne(r, type)
           /\ \A j \in 1..Len(r) : r[j].type = type => \E k \in 1..Len(q) : r[j] = q[k]
  <1>1. PICK at \in [1..Len(r) -> Int] :
          /\ \A j \in 1..Len(r) : \/ at[j] \in 1..Len(q) /\ r[j] = q[at[j]]
                                  \/ r[j].type \in types
          /\ \A j, k \in 1..Len(r) : j < k => at[j] < at[k]
    BY DEF Later
  <1>2. ASSUME NEW j \in 1..Len(r), NEW k \in 1..Len(r), r[j].type = type, r[k].type = type,
               AtMostOne(q, type)
        PROVE  j = k
    <2>1. /\ at[j] \in 1..Len(q) /\ r[j] = q[at[j]]
          /\ at[k] \in 1..Len(q) /\ r[k] = q[at[k]]
      BY <1>1, <1>2
    <2>2. at[j] = at[k]
      BY <1>2, <2>1 DEF AtMostOne
    <2>3. ~(j < k) /\ ~(k < j)
      BY <1>1, <2>1, <2>2
    <2> QED BY <2>3
  <1>3. \A j \in 1..Len(r) : r[j].type = type => at[j] \in 1..Len(q) /\ r[j] = q[at[j]]
    BY <1>1
  <1>4. Has(r, type) => Has(q, type)
    BY <1>3 DEF Has
  <1>5. AtMostOne(q, type) => AtMostOne(r, type)
    BY <1>2 DEF AtMostOne
  <1> QED BY <1>3, <1>4, <1>5

LEMMA LaterBatches ==
    ASSUME NEW r, NEW q, NEW types, Later(r, q, types), "OpFromClient" \notin types, NEW s,
           BatchesOf(q, s)
    PROVE  BatchesOf(r, s)
  <1> SUFFICES ASSUME NEW j \in 1..Len(r), NEW op \in BatchOps(r[j])
               PROVE  op.session = s
    BY DEF BatchesOf
  <1>1. r[j].type = "OpFromClient"
    BY DEF BatchOps
  <1>2. PICK k \in 1..Len(q) : r[j] = q[k]
    BY <1>1, LaterHas
  <1> QED BY <1>2 DEF BatchesOf

-----------------------------------------------------------------------------
(* The steps, as one host sees them *)

\* Nothing is opened or sequenced, and no request, answer or batch is sent.
Plain(c) ==
    /\ session'[c] = session[c]
    /\ isOpen'[c] => isOpen[c] /\ base'[c] = base[c]
    /\ opens[c] <= opens'[c] /\ (opens'[c] = opens[c] \/ opens'[c] <= MaxOpens[c])
    /\ Later(toServer'[c], toServer[c], {"RequestOps", "StopSendingOps"})
    /\ Later(toClient'[c], toClient[c], {"OpFromServer", "DocFatal"})
    /\ \E t \in Seq(Op) : history' = history \o t /\ \A k \in 1..Len(t) : t[k].site # c

\* Appending to the history.
LEMMA SessionAppend ==
    ASSUME NEW h \in Seq(Op), NEW t \in Seq(Op), NEW c, NEW f \in Nat, NEW s,
           OpsOfSession(h, c, f, s), \A k \in 1..Len(t) : t[k].site = c => t[k].session = s
    PROVE  OpsOfSession(h \o t, c, f, s)
  <1>1. /\ Len(h) \in Nat /\ Len(t) \in Nat /\ Len(h \o t) = Len(h) + Len(t)
        /\ \A j \in 1..(Len(h) + Len(t)) :
             (h \o t)[j] = IF j <= Len(h) THEN h[j] ELSE t[j - Len(h)]
    BY ConcatProperties, LenProperties
  <1>2. ASSUME NEW i \in (f + 1)..Len(h \o t), (h \o t)[i].site = c
        PROVE  (h \o t)[i].session = s
    <2>1. CASE i <= Len(h)
      BY <1>1, <1>2, <2>1 DEF OpsOfSession
    <2>2. CASE ~(i <= Len(h))
      <3>1. (h \o t)[i] = t[i - Len(h)] /\ i - Len(h) \in 1..Len(t)
        BY <1>1, <2>2
      <3> QED BY <1>2, <3>1
    <2> QED BY <2>1, <2>2
  <1> QED BY <1>2 DEF OpsOfSession

LEMMA NoneAppended ==
    ASSUME NEW h \in Seq(Op), NEW t \in Seq(Op), NEW c, NEW f \in Nat,
           \A i \in (f + 1)..Len(h) : h[i].site # c, \A k \in 1..Len(t) : t[k].site # c
    PROVE  \A i \in (f + 1)..Len(h \o t) : (h \o t)[i].site # c
  <1>1. /\ Len(h) \in Nat /\ Len(t) \in Nat /\ Len(h \o t) = Len(h) + Len(t)
        /\ \A j \in 1..(Len(h) + Len(t)) :
             (h \o t)[j] = IF j <= Len(h) THEN h[j] ELSE t[j - Len(h)]
    BY ConcatProperties, LenProperties
  <1> SUFFICES ASSUME NEW i \in (f + 1)..Len(h \o t)
               PROVE  (h \o t)[i].site # c
    OBVIOUS
  <1>2. CASE i <= Len(h)
    BY <1>1, <1>2
  <1>3. CASE ~(i <= Len(h))
    <2>1. (h \o t)[i] = t[i - Len(h)] /\ i - Len(h) \in 1..Len(t)
      BY <1>1, <1>3
    <2> QED BY <2>1
  <1> QED BY <1>2, <1>3

\* Requests and answers when none is added.
LEMMA AsksFewer ==
    ASSUME NEW c \in Clients, AsksOnce(c), isOpen'[c] => isOpen[c],
           NEW S, "RequestFile" \notin S, Later(toServer'[c], toServer[c], S),
           NEW T, "Snapshot" \notin T, Later(toClient'[c], toClient[c], T)
    PROVE  AsksOnce(c)' /\ (Opening(c)' => Opening(c))
  <1>1. /\ Has(toServer'[c], "RequestFile") => Has(toServer[c], "RequestFile")
        /\ AtMostOne(toServer'[c], "RequestFile")
    BY LaterHas DEF AsksOnce
  <1>2. /\ Has(toClient'[c], "Snapshot") => Has(toClient[c], "Snapshot")
        /\ AtMostOne(toClient'[c], "Snapshot")
    BY LaterHas DEF AsksOnce
  <1>3. Opening(c)' => Opening(c)
    BY <1>1, <1>2 DEF Opening, Has
  <1> QED BY <1>1, <1>2, <1>3 DEF AsksOnce

LEMMA PlainApart ==
    ASSUME TypeInv, TypeInv', NEW c \in Clients, ApartInv(c), Plain(c)
    PROVE  ApartInv(c)'
  <1> DEFINE S == {"RequestOps", "StopSendingOps"}
             T == {"OpFromServer", "DocFatal"}
  <1>1. /\ session'[c] = session[c]
        /\ isOpen'[c] => isOpen[c] /\ base'[c] = base[c]
        /\ opens[c] <= opens'[c] /\ (opens'[c] = opens[c] \/ opens'[c] <= MaxOpens[c])
        /\ Later(toServer'[c], toServer[c], S) /\ Later(toClient'[c], toClient[c], T)
    BY DEF Plain
  <1>2. PICK t \in Seq(Op) : history' = history \o t /\ \A k \in 1..Len(t) : t[k].site # c
    BY DEF Plain
  <1>3. history \in Seq(Op) /\ base[c] \in Nat /\ opens[c] \in Nat /\ opens'[c] \in Nat
    BY DEF TypeInv, ServerType, ClientType, EngineType, BoundType
  <1>4. ASSUME AsksOnce(c) PROVE AsksOnce(c)' /\ (Opening(c)' => Opening(c))
    BY <1>1, <1>4, AsksFewer
  <1>5. \A s : BatchesOf(toServer[c], s) => BatchesOf(toServer'[c], s)
    BY <1>1, LaterBatches
  <1>6. \A f \in Nat : \A s : OpsOfSession(history, c, f, s) => OpsOfSession(history', c, f, s)
    BY <1>2, <1>3, SessionAppend
  <1>7. ASSUME OneSession(c) PROVE OneSession(c)'
    BY <1>1, <1>3, <1>4, <1>5, <1>6, <1>7 DEF OneSession
  <1>8. ASSUME InTurn(c) PROVE InTurn(c)'
    <2>1. isOpen'[c] => /\ OpsOfSession(history', c, base'[c], session'[c])
                        /\ BatchesOf(toServer'[c], session'[c])
      BY <1>1, <1>3, <1>5, <1>6, <1>8 DEF InTurn
    <2>2. ASSUME NEW i \in 1..Len(toServer'[c]), NEW j \in 1..Len(toServer'[c]),
                 toServer'[c][j].type = "RequestFile", toServer'[c][i].type = "OpFromClient"
          PROVE  i < j
      <3>1. PICK at \in [1..Len(toServer'[c]) -> Int] :
              /\ \A k \in 1..Len(toServer'[c]) :
                   \/ at[k] \in 1..Len(toServer[c]) /\ toServer'[c][k] = toServer[c][at[k]]
                   \/ toServer'[c][k].type \in S
              /\ \A k, l \in 1..Len(toServer'[c]) : k < l => at[k] < at[l]
        BY <1>1 DEF Later
      <3>2. at[i] < at[j]
        BY <1>8, <2>2, <3>1 DEF InTurn
      <3>3. ~(j < i) /\ j # i
        BY <2>2, <3>1, <3>2
      <3> QED BY <3>3
    <2>3. ASSUME NEW j \in 1..Len(toClient'[c]), toClient'[c][j].type = "Snapshot"
          PROVE  /\ ~Has(toServer'[c], "OpFromClient")
                 /\ \A i \in (toClient'[c][j].seq + 1)..Len(history') : history'[i].site # c
      <3>1. PICK k \in 1..Len(toClient[c]) : toClient'[c][j] = toClient[c][k]
        <4>1. "Snapshot" \notin T
          OBVIOUS
        <4> HIDE DEF T
        <4> QED BY <1>1, <2>3, <4>1, LaterHas
      <3>2. /\ ~Has(toServer[c], "OpFromClient")
            /\ \A i \in (toClient[c][k].seq + 1)..Len(history) : history[i].site # c
        BY <1>8, <2>3, <3>1 DEF InTurn
      <3>3. ~Has(toServer'[c], "OpFromClient")
        BY <1>1, <3>2, LaterHas
      <3>4. toClient[c][k].seq \in Nat
        <4>1. toClient[c][k] \in ClientMsg
          BY ElementOfSeq DEF TypeInv, NetType
        <4> QED BY <2>3, <3>1, <4>1, MessageFields
      <3>5. \A i \in (toClient[c][k].seq + 1)..Len(history \o t) : (history \o t)[i].site # c
        BY <1>2, <1>3, <3>2, <3>4, NoneAppended
      <3>6. \A i \in (toClient'[c][j].seq + 1)..Len(history') : history'[i].site # c
        BY <1>2, <3>1, <3>5
      <3> QED BY <3>3, <3>6
    <2>4. AsksOnce(c)'
      BY <1>4, <1>8 DEF InTurn
    <2> QED BY <2>1, <2>2, <2>3, <2>4 DEF InTurn
  <1> QED BY <1>7, <1>8 DEF ApartInv

\* One more message, or one less.
LEMMA PlusOne ==
    ASSUME NEW S, NEW q \in Seq(S), NEW m \in S
    PROVE  /\ Len(q \o <<m>>) = Len(q) + 1 /\ Len(q) \in Nat
           /\ \A k \in 1..Len(q \o <<m>>) : \/ k \in 1..Len(q) /\ (q \o <<m>>)[k] = q[k]
                                            \/ k = Len(q) + 1 /\ (q \o <<m>>)[k] = m
  <1>1. /\ Len(q) \in Nat /\ Len(q \o <<m>>) = Len(q) + 1
        /\ \A k \in 1..(Len(q) + 1) : (q \o <<m>>)[k] = IF k <= Len(q) THEN q[k] ELSE m
    BY ConcatProperties, LenProperties
  <1> QED BY <1>1

LEMMA HasPlusOne ==
    ASSUME NEW S, NEW q \in Seq(S), NEW m \in S, NEW type
    PROVE  /\ Has(q \o <<m>>, type) => Has(q, type) \/ m.type = type
           /\ AtMostOne(q, type) /\ (m.type = type => ~Has(q, type)) => AtMostOne(q \o <<m>>, type)
  <1> DEFINE r == q \o <<m>>
  <1>1. /\ Len(r) = Len(q) + 1 /\ Len(q) \in Nat
        /\ \A k \in 1..Len(r) : \/ k \in 1..Len(q) /\ r[k] = q[k]
                                \/ k = Len(q) + 1 /\ r[k] = m
    BY PlusOne
  <1> HIDE DEF r
  <1>2. Has(r, type) => Has(q, type) \/ m.type = type
    BY <1>1 DEF Has
  <1>3. ASSUME AtMostOne(q, type), m.type = type => ~Has(q, type)
        PROVE  AtMostOne(r, type)
    <2> SUFFICES ASSUME NEW j \in 1..Len(r), NEW k \in 1..Len(r), r[j].type = type,
                        r[k].type = type
                 PROVE  j = k
      BY DEF AtMostOne
    <2> QED BY <1>1, <1>3 DEF AtMostOne, Has
  <1> QED BY <1>2, <1>3 DEF r

LEMMA BatchesPlusOne ==
    ASSUME NEW q \in Seq(BatchMsg), NEW m \in BatchMsg, NEW s, BatchesOf(q, s),
           \A op \in BatchOps(m) : op.session = s
    PROVE  BatchesOf(q \o <<m>>, s)
  BY PlusOne DEF BatchesOf

LEMMA OneLess ==
    ASSUME NEW S, NEW q \in Seq(S), NEW i \in 1..Len(q), AtMostOne(q, q[i].type)
    PROVE  ~Has(Without(q, i), q[i].type)
  <1> DEFINE r == Without(q, i)
             at(j) == IF j < i THEN j ELSE j + 1
  <1>1. \A j \in 1..Len(r) : at(j) \in 1..Len(q) /\ at(j) # i /\ r[j] = q[at(j)]
    BY WithoutElements
  <1> HIDE DEF r, at
  <1> QED BY <1>1 DEF AtMostOne, Has, r

\* What is sent to the owner, one message or none.
LEMMA SentOne ==
    ASSUME TypeInv, NEW c \in Clients, NEW m \in BatchMsg, ToServer(c, <<m>>)
    PROVE  /\ toServer[c] \in Seq(BatchMsg)
           /\ toServer'[c] \in {toServer[c], toServer[c] \o <<m>>}
  <1>1. <<m>> \in Seq(BatchMsg)
    OBVIOUS
  <1> QED BY <1>1, ToServerQueues DEF TypeInv, NetType

LEMMA OpenFileApart ==
    ASSUME TypeInv, NEW c \in Clients, ApartInv(c), OpenFile(c)
    PROVE  ApartInv(c)'
  <1> DEFINE q == toServer[c]
             r == toServer'[c]
  <1>1. PICK m \in BatchMsg : m = [type |-> "RequestFile"]
    BY MessageTypes
  <1>2. /\ isOpen[c] = FALSE /\ isOpen' = isOpen /\ session' = session /\ base' = base
        /\ history' = history /\ toClient' = toClient
        /\ Opening(c) => RetryOpen
        /\ opens[c] < MaxOpens[c] /\ opens'[c] = opens[c] + 1
        /\ opens[c] \in Nat /\ MaxOpens[c] \in Nat /\ session[c] \in Nat
    BY BoundAssumption DEF OpenFile, serverVars, clientVars, engineVars, TypeInv, ClientType,
                           BoundType
  <1>3. q \in Seq(BatchMsg) /\ r \in {q, q \o <<m>>}
    BY <1>1, SentOne DEF OpenFile
  <1>4. m.type = "RequestFile" /\ BatchOps(m) = {}
    BY <1>1 DEF BatchOps
  <1>5. ~Opening(c) <=> ~Has(q, "RequestFile") /\ ~Has(toClient[c], "Snapshot")
    BY DEF Opening, Has
  <1> HIDE DEF r
  <1>6. ASSUME AsksOnce(c), ~Opening(c) PROVE AsksOnce(c)'
    <2>1. AtMostOne(r, "RequestFile")
      BY <1>3, <1>5, <1>6, HasPlusOne DEF AsksOnce
    <2> QED BY <1>2, <1>5, <1>6, <2>1 DEF AsksOnce, r
  <1>7. ASSUME OpenedOnce(c), OneSession(c) PROVE OneSession(c)'
    <2>1. opens[c] = 0 /\ session[c] = 0 /\ ~Opening(c)
      BY <1>2, <1>7 DEF OneSession, OpenedOnce
    <2>2. BatchesOf(r, 1)
      BY <1>3, <1>4, <1>7, BatchesPlusOne DEF OneSession
    <2> QED BY <1>2, <1>6, <1>7, <2>1, <2>2 DEF OneSession, r
  <1>8. ASSUME OpenedInTurn(c), InTurn(c) PROVE InTurn(c)'
    <2>1. ~Opening(c)
      BY <1>2, <1>8 DEF OpenedInTurn
    <2>2. ASSUME NEW i \in 1..Len(r), NEW j \in 1..Len(r), r[j].type = "RequestFile",
                 r[i].type = "OpFromClient"
          PROVE  i < j
      <3>1. ~Has(q, "RequestFile")
        BY <1>5, <2>1
      <3>2. r = q \o <<m>>
        BY <1>3, <2>2, <3>1 DEF Has
      <3>3. /\ Len(r) = Len(q) + 1 /\ Len(q) \in Nat
            /\ \A k \in 1..Len(r) : \/ k \in 1..Len(q) /\ r[k] = q[k]
                                    \/ k = Len(q) + 1 /\ r[k] = m
        BY <1>3, <3>2, PlusOne
      <3>4. j = Len(q) + 1
        BY <2>2, <3>1, <3>3 DEF Has
      <3>5. i # j
        BY <2>2
      <3> QED BY <3>3, <3>4, <3>5
    <2>3. \A j \in 1..Len(toClient'[c]) : toClient'[c][j].type # "Snapshot"
      BY <1>2, <1>5, <2>1 DEF Has
    <2> QED BY <1>2, <1>6, <1>8, <2>1, <2>2, <2>3 DEF InTurn, r
  <1> QED BY <1>7, <1>8 DEF ApartInv

LEMMA SnapshotApart ==
    ASSUME TypeInv, NEW c \in Clients, ApartInv(c), NEW i \in 1..Len(toClient[c]),
           HandleSnapshot(c, i), isOpen[c] = FALSE
    PROVE  ApartInv(c)'
  <1> DEFINE q == toServer[c]
             r == toClient[c]
  <1>1. /\ q \in Seq(BatchMsg) /\ r \in Seq(ClientMsg) /\ r[i].type = "Snapshot"
        /\ r[i].seq \in Nat /\ session[c] \in Nat
    <2>1. r \in Seq(ClientMsg)
      BY DEF TypeInv, NetType
    <2>2. r[i] \in ClientMsg
      BY <2>1, ElementOfSeq
    <2> QED BY <2>1, <2>2, MessageFields DEF HandleSnapshot, TypeInv, NetType, ClientType
  <1>2. PICK m \in BatchMsg : m = [type |-> "RequestOps", after |-> r[i].seq]
    BY <1>1, MessageTypes
  <1>3. /\ session'[c] = session[c] + 1 /\ base'[c] = r[i].seq /\ isOpen'[c] = TRUE
        /\ history' = history /\ opens' = opens
        /\ toClient'[c] = Without(r, i)
        /\ ToServer(c, <<m>>)
    BY <1>2 DEF HandleSnapshot, NewRemoteDoc, ClientTakes, serverVars, boundVars, TypeInv,
                ClientType, EngineType, NetType
  <1>4. toServer'[c] \in {q, q \o <<m>>} /\ m.type = "RequestOps" /\ BatchOps(m) = {}
    BY <1>2, <1>3, SentOne DEF BatchOps
  <1>5. Opening(c) /\ Has(r, "Snapshot")
    BY <1>1 DEF Opening, Has
  <1>6. ASSUME AsksOnce(c)
        PROVE  AsksOnce(c)' /\ ~Opening(c)' /\ ~Has(toClient'[c], "Snapshot")
               /\ ~Has(toServer'[c], "RequestFile")
    <2>1. ~Has(q, "RequestFile")
      BY <1>5, <1>6 DEF AsksOnce
    <2>2. ~Has(toServer'[c], "RequestFile")
      BY <1>1, <1>4, <2>1, HasPlusOne
    <2>3. ~Has(toClient'[c], "Snapshot")
      BY <1>1, <1>3, <1>6, OneLess DEF AsksOnce
    <2>4. ~Opening(c)'
      BY <2>2, <2>3 DEF Opening, Has
    <2> QED BY <2>2, <2>3, <2>4 DEF AsksOnce, AtMostOne, Has
  <1>7. ASSUME OneSession(c) PROVE OneSession(c)'
    <2>1. session[c] = 0 /\ opens[c] # 0
      BY <1>1, <1>5, <1>7 DEF OneSession
    <2>2. BatchesOf(toServer'[c], 1)
      BY <1>1, <1>4, <1>7, BatchesPlusOne DEF OneSession
    <2> QED BY <1>3, <1>6, <1>7, <2>1, <2>2 DEF OneSession
  <1>8. ASSUME InTurn(c) PROVE InTurn(c)'
    <2>1. /\ ~Has(q, "OpFromClient")
          /\ \A j \in (r[i].seq + 1)..Len(history) : history[j].site # c
      BY <1>1, <1>8 DEF InTurn
    <2>2. ~Has(toServer'[c], "OpFromClient")
      BY <1>1, <1>4, <2>1, HasPlusOne
    <2>3. \A s : BatchesOf(toServer'[c], s)
      BY <2>2 DEF BatchesOf, BatchOps, Has
    <2>4. OpsOfSession(history', c, base'[c], session'[c])
      BY <1>3, <2>1 DEF OpsOfSession
    <2>5. \A j \in 1..Len(toServer'[c]) : toServer'[c][j].type # "RequestFile"
      BY <1>6, <1>8 DEF InTurn, Has
    <2>6. \A j \in 1..Len(toClient'[c]) : toClient'[c][j].type # "Snapshot"
      BY <1>6, <1>8 DEF InTurn, Has
    <2> QED BY <1>6, <1>8, <2>3, <2>4, <2>5, <2>6 DEF InTurn
  <1> QED BY <1>7, <1>8 DEF ApartInv

LEMMA OpenLocalApart ==
    ASSUME TypeInv, NEW c \in Clients, ApartInv(c), OpenLocalFile(c), isOpen[c] = FALSE
    PROVE  ApartInv(c)'
  <1>1. /\ c \in Local /\ opens[c] < MaxOpens[c] /\ opens'[c] = opens[c] + 1
        /\ session'[c] = session[c] + 1
        /\ history' = history /\ toServer' = toServer /\ toClient' = toClient
        /\ opens[c] \in Nat /\ MaxOpens[c] \in Nat /\ session[c] \in Nat
    <2>1. /\ opens \in [Clients -> Nat] /\ MaxOpens \in [Clients -> Nat]
          /\ session \in [Clients -> Nat]
      BY BoundAssumption DEF TypeInv, ClientType, BoundType
    <2>2. session' = [session EXCEPT ![c] = @ + 1]
      BY DEF OpenLocalFile, NewRemoteDoc
    <2>3. opens' = [opens EXCEPT ![c] = @ + 1]
      BY DEF OpenLocalFile
    <2>4. /\ c \in Local /\ opens[c] < MaxOpens[c]
          /\ history' = history /\ toServer' = toServer /\ toClient' = toClient
      BY DEF OpenLocalFile, netVars
    <2> QED BY <2>1, <2>2, <2>3, <2>4
  <1>2. ASSUME OpenedOnce(c), OneSession(c) PROVE OneSession(c)'
    <2>1. opens[c] = 0 /\ session[c] = 0 /\ ~Opening(c)
      BY <1>1, <1>2 DEF OneSession, OpenedOnce
    <2>2. ~Opening(c)'
      BY <1>1, <2>1 DEF Opening
    <2>3. AsksOnce(c)'
      BY <1>1, <1>2, <2>2 DEF OneSession, AsksOnce
    <2> QED BY <1>1, <1>2, <2>1, <2>2, <2>3 DEF OneSession
  <1> QED BY <1>1, <1>2 DEF ApartInv, OpenedInTurn

LEMMA RunSession ==
    ASSUME NEW s, NEW c, NEW last, NEW sess, RunOf(s, c, last, sess)
    PROVE  \A k \in 1..Len(s) : s[k].session = sess /\ s[k].site = c
  <1> SUFFICES ASSUME NEW k \in 1..Len(s) PROVE s[k].session = sess /\ s[k].site = c
    OBVIOUS
  <1>1. s[k] = [site |-> c, seq |-> last - Len(s) + k, session |-> sess]
    BY DEF RunOf
  <1> QED BY <1>1

\* A batch has ops of the present session.
LEMMA SendApart ==
    ASSUME TypeInv, LogInv, NEW c \in Clients, ApartInv(c), NEW n \in 0..MaxBatch, SendOps(c, n)
    PROVE  ApartInv(c)'
  <1> DEFINE pending == NewLocal(c, n)
             rest    == SubSeq(pending, AckCount(c) + 1, Len(pending))
             q       == toServer[c]
  <1>1. PICK m : m = [type |-> "OpFromClient", context |-> Context(c), ops |-> rest]
    OBVIOUS
  <1>2. /\ isOpen[c] = TRUE /\ isOpen' = isOpen /\ session' = session /\ base' = base
        /\ history' = history /\ toClient' = toClient /\ opens' = opens
        /\ toServer'[c] = q \/ (m \in BatchMsg /\ toServer'[c] = q \o <<m>>)
        /\ q \in Seq(BatchMsg)
    <2>1. /\ isOpen[c] = TRUE /\ isOpen' = isOpen /\ session' = session /\ history' = history
          /\ n \in Nat /\ AckCount(c) \in Nat
      BY SendParts, AckCountType
    <2>2. base' = base /\ toClient' = toClient /\ opens' = opens
      BY DEF SendOps
    <2>3. rest \in Seq(Op)
      <3> HIDE DEF q
      <3> QED BY <2>1, PendingRun
    <2>4. toServer'[c] = q \/ (m \in BatchMsg /\ toServer'[c] = q \o <<m>>)
      BY <1>1, <2>3, SendParts
    <2> QED BY <2>1, <2>2, <2>4 DEF TypeInv, NetType
  <1>3. \A op \in BatchOps(m) : op.session = session[c]
    <2>1. n \in Nat /\ AckCount(c) \in Nat
      BY SendParts, AckCountType
    <2>2. RunOf(rest, c, siteSeq[c] + n, session[c])
      BY <2>1, PendingRun
    <2> HIDE DEF rest
    <2>3. \A k \in 1..Len(rest) : rest[k].session = session[c]
      BY <2>2, RunSession
    <2>4. m.type = "OpFromClient" /\ m.ops = rest
      BY <1>1
    <2> QED BY <2>3, <2>4 DEF BatchOps, OpsIn
  <1>4. BatchesOf(q, session[c]) => BatchesOf(toServer'[c], session[c])
    BY <1>2, <1>3, BatchesPlusOne
  <1>5. ~Opening(c) <=> ~Has(q, "RequestFile") /\ ~Has(toClient[c], "Snapshot")
    BY DEF Opening, Has
  <1>6. ~Opening(c)' <=> ~Has(toServer'[c], "RequestFile") /\ ~Has(toClient'[c], "Snapshot")
    BY DEF Opening, Has
  <1>7. ASSUME AsksOnce(c) PROVE AsksOnce(c)' /\ ~Opening(c)'
    <2>1. ~Has(q, "RequestFile") /\ ~Has(toClient[c], "Snapshot")
      BY <1>2, <1>5, <1>7 DEF AsksOnce
    <2>2. m.type # "RequestFile"
      BY <1>1
    <2>3. ~Has(toServer'[c], "RequestFile")
      <3>1. m \in BatchMsg => ~Has(q \o <<m>>, "RequestFile")
        BY <1>2, <2>1, <2>2, HasPlusOne
      <3> QED BY <1>2, <2>1, <3>1
    <2> QED BY <1>2, <1>6, <2>1, <2>3 DEF AsksOnce, AtMostOne, Has
  <1>8. ASSUME OneSession(c) PROVE OneSession(c)'
    BY <1>2, <1>4, <1>7, <1>8 DEF OneSession
  <1>9. ASSUME InTurn(c) PROVE InTurn(c)'
    <2>1. \A j \in 1..Len(toServer'[c]) : toServer'[c][j].type # "RequestFile"
      BY <1>6, <1>7, <1>9 DEF InTurn, Has
    <2>2. \A j \in 1..Len(toClient'[c]) : toClient'[c][j].type # "Snapshot"
      BY <1>6, <1>7, <1>9 DEF InTurn, Has
    <2>3. /\ isOpen[c] => /\ OpsOfSession(history, c, base[c], session[c])
                         /\ BatchesOf(q, session[c])
          /\ AsksOnce(c)'
      BY <1>7, <1>9 DEF InTurn
    <2>4. isOpen'[c] => /\ OpsOfSession(history', c, base'[c], session'[c])
                        /\ BatchesOf(toServer'[c], session'[c])
      BY <1>2, <1>4, <2>3
    <2> QED BY <2>1, <2>2, <2>3, <2>4 DEF InTurn
  <1> QED BY <1>8, <1>9 DEF ApartInv

\* The answer to RequestFile has the present length of the history; with ordered
\* messages no batch is left before it.
LEMMA RequestApart ==
    ASSUME TypeInv, NEW c \in Clients, ApartInv(c), NEW i \in Deliverable(c, toServer[c]),
           HandleRequestFile(c, i)
    PROVE  ApartInv(c)'
  <1> DEFINE q == toServer[c]
             r == toClient[c]
  <1>1. /\ q \in Seq(BatchMsg) /\ r \in Seq(ClientMsg) /\ history \in Seq(Op)
        /\ Len(history) \in Nat /\ i \in 1..Len(q) /\ q[i].type = "RequestFile"
        /\ isOpen[c] \in BOOLEAN
        /\ c \in Ordered => i = 1
    BY LenProperties DEF HandleRequestFile, Deliverable, TypeInv, NetType, ServerType, ClientType
  <1>2. PICK m \in ClientMsg : m = [type |-> "Snapshot", seq |-> Len(history)]
    BY <1>1, MessageTypes
  <1>3. /\ UNCHANGED <<history, isOpen, session, base, opens>>
        /\ toServer'[c] = Without(q, i)
        /\ toClient'[c] \in {r, r \o <<m>>}
    BY <1>2 DEF HandleRequestFile, ServerTakes, ReplyTo, NoReply, Sent, serverVars, clientVars,
                engineVars, boundVars, TypeInv, NetType
  <1>4. Opening(c) /\ Has(q, "RequestFile")
    BY <1>1 DEF Opening, Has
  <1>5. Later(toServer'[c], q, {"RequestOps", "StopSendingOps"})
    BY <1>1, <1>3, LaterWithout
  <1>6. ASSUME AsksOnce(c)
        PROVE  AsksOnce(c)' /\ isOpen[c] = FALSE /\ ~Has(r, "Snapshot")
               /\ ~Has(toServer'[c], "RequestFile")
    <2>1. ~Has(toServer'[c], "RequestFile")
      BY <1>1, <1>3, <1>6, OneLess DEF AsksOnce
    <2>2. ~Has(r, "Snapshot") /\ isOpen[c] = FALSE
      BY <1>1, <1>4, <1>6 DEF AsksOnce
    <2>3. AtMostOne(toClient'[c], "Snapshot")
      <3>1. AtMostOne(r, "Snapshot")
        BY <1>6 DEF AsksOnce
      <3>2. AtMostOne(r \o <<m>>, "Snapshot")
        BY <1>1, <2>2, <3>1, HasPlusOne
      <3> QED BY <1>3, <3>1, <3>2
    <2>4. AtMostOne(toServer'[c], "RequestFile")
      BY <2>1 DEF AtMostOne, Has
    <2> QED BY <1>3, <2>1, <2>2, <2>3, <2>4 DEF AsksOnce
  <1>7. ASSUME OneSession(c) PROVE OneSession(c)'
    <2>1. opens[c] # 0 /\ session[c] # 1
      BY <1>4, <1>7 DEF OneSession
    <2>2. BatchesOf(toServer'[c], 1)
      BY <1>5, <1>7, LaterBatches DEF OneSession
    <2> QED BY <1>3, <1>6, <1>7, <2>1, <2>2 DEF OneSession
  <1>8. ASSUME OpenedInTurn(c), InTurn(c) PROVE InTurn(c)'
    <2>1. ~Has(q, "OpFromClient")
      <3>1. i = 1
        BY <1>1, <1>8 DEF OpenedInTurn
      <3>2. \A k \in 1..Len(q) : q[k].type = "OpFromClient" => k < 1
        BY <1>1, <1>8, <3>1 DEF InTurn
      <3> QED BY <3>2 DEF Has
    <2>2. ~Has(toServer'[c], "OpFromClient")
      BY <1>5, <2>1, LaterHas
    <2>3. ASSUME NEW j \in 1..Len(toClient'[c]), toClient'[c][j].type = "Snapshot"
          PROVE  toClient'[c][j].seq = Len(history)
      <3>1. toClient'[c] = r \o <<m>>
        BY <1>3, <1>6, <1>8, <2>3 DEF InTurn, Has
      <3>2. toClient'[c][j] = m
        <4>1. \/ j \in 1..Len(r) /\ toClient'[c][j] = r[j]
              \/ toClient'[c][j] = m
          BY <1>1, <3>1, PlusOne
        <4> QED BY <1>6, <1>8, <2>3, <4>1 DEF InTurn, Has
      <3> QED BY <1>2, <3>2
    <2>4. \A j \in (Len(history) + 1)..Len(history) : FALSE
      BY <1>1
    <2>5. \A j \in 1..Len(toServer'[c]) : toServer'[c][j].type # "RequestFile"
      BY <1>6, <1>8 DEF InTurn, Has
    <2> QED BY <1>3, <1>6, <1>8, <2>2, <2>3, <2>4, <2>5 DEF InTurn
  <1> QED BY <1>7, <1>8 DEF ApartInv

\* A batch is accepted.
LEMMA AcceptApart ==
    ASSUME TypeInv, LogInv, NEW c \in Clients, ApartInv(c), NEW i \in 1..Len(toServer[c]),
           Accepts(c, i), opens' = opens,
           Later(toClient'[c], toClient[c], {"OpFromServer", "DocFatal"})
    PROVE  ApartInv(c)'
  <1> DEFINE q   == toServer[c]
             ops == q[i].ops
  <1>1. /\ q \in Seq(BatchMsg) /\ history \in Seq(Op) /\ base[c] \in Nat
        /\ q[i].type = "OpFromClient" /\ history' = history \o ops
        /\ toServer'[c] = Without(q, i)
        /\ UNCHANGED <<isOpen, session, base>>
    BY DEF Accepts, engineVars, TypeInv, NetType, ServerType, ClientType, EngineType
  <1>2. ops \in Seq(Op) /\ Has(q, "OpFromClient")
    <2>1. q[i] \in BatchMsg
      BY <1>1, ElementOfSeq
    <2> QED BY <1>1, <2>1, MessageFields DEF Has
  <1>3. Later(toServer'[c], q, {"RequestOps", "StopSendingOps"})
    BY <1>1, LaterWithout
  <1>4. ASSUME AsksOnce(c) PROVE AsksOnce(c)' /\ (Opening(c)' => Opening(c))
    BY <1>1, <1>3, <1>4, AsksFewer
  <1>5. ASSUME NEW s, BatchesOf(q, s)
        PROVE  BatchesOf(toServer'[c], s) /\ \A k \in 1..Len(ops) : ops[k].session = s
    <2>1. BatchesOf(toServer'[c], s)
      BY <1>3, <1>5, LaterBatches
    <2>2. \A op \in OpsIn(ops) : op.session = s
      BY <1>1, <1>5 DEF BatchesOf, BatchOps
    <2> QED BY <2>1, <2>2 DEF OpsIn
  <1> HIDE DEF ops
  <1>6. ASSUME OneSession(c) PROVE OneSession(c)'
    <2>1. OpsOfSession(history', c, 0, 1)
      BY <1>1, <1>2, <1>5, <1>6, SessionAppend DEF OneSession
    <2> QED BY <1>1, <1>4, <1>5, <1>6, <2>1 DEF OneSession
  <1>7. ASSUME InTurn(c) PROVE InTurn(c)'
    <2>1. isOpen[c] => OpsOfSession(history', c, base[c], session[c])
      BY <1>1, <1>2, <1>5, <1>7, SessionAppend DEF InTurn
    <2>2. ~Has(toClient'[c], "Snapshot")
      <3>1. ~Has(toClient[c], "Snapshot")
        BY <1>2, <1>7 DEF InTurn, Has
      <3> QED BY <3>1, LaterHas
    <2>3. ASSUME NEW k \in 1..Len(toServer'[c]), NEW j \in 1..Len(toServer'[c]),
                 toServer'[c][j].type = "RequestFile", toServer'[c][k].type = "OpFromClient"
          PROVE  k < j
      <3> DEFINE at(x) == IF x < i THEN x ELSE x + 1
      <3>1. \A x \in 1..Len(toServer'[c]) : at(x) \in 1..Len(q) /\ toServer'[c][x] = q[at(x)]
        <4>1. q \in Seq(BatchMsg)
          BY <1>1
        <4>2. \A x \in 1..Len(Without(q, i)) : at(x) \in 1..Len(q) /\ Without(q, i)[x] = q[at(x)]
          BY <4>1, WithoutElements
        <4> QED BY <1>1, <4>2
      <3>2. at(k) < at(j)
        BY <1>7, <2>3, <3>1 DEF InTurn
      <3> QED BY <3>2
    <2>4. \A j \in 1..Len(toClient'[c]) : toClient'[c][j].type # "Snapshot"
      BY <2>2 DEF Has
    <2> QED BY <1>1, <1>4, <1>5, <1>7, <2>1, <2>3, <2>4 DEF InTurn
  <1> QED BY <1>6, <1>7 DEF ApartInv

-----------------------------------------------------------------------------
(* Every step is plain for the host or one of those above *)

ToOwner == {"RequestOps", "StopSendingOps"}
ToHost  == {"OpFromServer", "DocFatal"}

\* The queues after a message was sent to the owner or by it, or taken.
LEMMA SentLater ==
    ASSUME TypeInv, NEW d \in Clients, NEW msgs \in Seq(BatchMsg), ToServer(d, msgs),
           \A k \in 1..Len(msgs) : msgs[k].type \in ToOwner, NEW c \in Clients
    PROVE  Later(toServer'[c], toServer[c], ToOwner)
  <1>1. toServer[c] \in Seq(BatchMsg)
    BY DEF TypeInv, NetType
  <1>2. toServer'[c] \in {toServer[c], toServer[c] \o msgs}
    BY ToServerQueues
  <1> QED BY <1>1, <1>2, LaterSame, LaterAppend

LEMMA TakenLater ==
    ASSUME TypeInv, NEW d \in Clients, NEW i \in 1..Len(toClient[d]), NEW msgs \in Seq(BatchMsg),
           ClientTakes(d, i, msgs), \A k \in 1..Len(msgs) : msgs[k].type \in ToOwner,
           NEW c \in Clients
    PROVE  /\ Later(toServer'[c], toServer[c], ToOwner)
           /\ Later(toClient'[c], toClient[c], ToHost)
  <1>1. toClient \in [Clients -> Seq(ClientMsg)]
    BY DEF TypeInv, NetType
  <1>2. toClient'[c] = IF c = d THEN Without(toClient[c], i) ELSE toClient[c]
    BY <1>1 DEF ClientTakes
  <1>3. ToServer(d, msgs)
    BY DEF ClientTakes
  <1>4. Later(toClient'[c], toClient[c], ToHost)
    BY <1>1, <1>2, LaterSame, LaterWithout
  <1> QED BY <1>3, <1>4, SentLater

LEMMA RepliedLater ==
    ASSUME TypeInv, NEW reply \in [Clients -> Seq(ClientMsg)],
           toClient' = [x \in Clients |-> Sent(toClient, x, reply[x])], NEW c \in Clients,
           \A k \in 1..Len(reply[c]) : reply[c][k].type \in ToHost
    PROVE  Later(toClient'[c], toClient[c], ToHost)
  <1>1. toClient[c] \in Seq(ClientMsg) /\ reply[c] \in Seq(ClientMsg)
    BY DEF TypeInv, NetType
  <1>2. toClient'[c] \in {toClient[c], toClient[c] \o reply[c]}
    BY DEF Sent
  <1> QED BY <1>1, <1>2, LaterSame, LaterAppend

LEMMA ServedLater ==
    ASSUME TypeInv, NEW d \in Clients, NEW i \in 1..Len(toServer[d]),
           NEW reply \in [Clients -> Seq(ClientMsg)], ServerTakes(d, i, reply), NEW c \in Clients,
           \A k \in 1..Len(reply[c]) : reply[c][k].type \in ToHost
    PROVE  /\ Later(toServer'[c], toServer[c], ToOwner)
           /\ Later(toClient'[c], toClient[c], ToHost)
  <1>1. toServer \in [Clients -> Seq(BatchMsg)]
    BY DEF TypeInv, NetType
  <1>2. toServer'[c] = IF c = d THEN Without(toServer[c], i) ELSE toServer[c]
    BY <1>1 DEF ServerTakes
  <1>3. toClient' = [x \in Clients |-> Sent(toClient, x, reply[x])]
    BY DEF ServerTakes
  <1>4. Later(toServer'[c], toServer[c], ToOwner)
    BY <1>1, <1>2, LaterSame, LaterWithout
  <1> QED BY <1>3, <1>4, RepliedLater

\* A host that is not opening, with queues as these and no op of its own.
LEMMA PlainIf ==
    ASSUME TypeInv, NEW c \in Clients, session'[c] = session[c],
           isOpen'[c] => isOpen[c] /\ base'[c] = base[c],
           opens'[c] = opens[c] \/ (opens'[c] = opens[c] + 1 /\ opens[c] < MaxOpens[c]),
           Later(toServer'[c], toServer[c], ToOwner), Later(toClient'[c], toClient[c], ToHost),
           \/ history' = history
           \/ \E t \in Seq(Op) : history' = history \o t /\ \A k \in 1..Len(t) : t[k].site # c
    PROVE  Plain(c)
  <1>1. \E t \in Seq(Op) : history' = history \o t /\ \A k \in 1..Len(t) : t[k].site # c
    <2>1. CASE history' = history
      <3>1. PICK t \in Seq(Op) : t = << >>
        BY EmptySeq
      <3>2. history' = history \o t
        BY <2>1, <3>1, ConcatEmptySeq DEF TypeInv, ServerType
      <3>3. \A k \in 1..Len(t) : t[k].site # c
        BY <3>1, EmptySeq
      <3> QED BY <3>2, <3>3
    <2> QED BY <2>1
  <1>2. opens[c] \in Nat /\ MaxOpens[c] \in Nat
    BY BoundAssumption DEF TypeInv, BoundType
  <1>3. opens[c] <= opens'[c] /\ (opens'[c] = opens[c] \/ opens'[c] <= MaxOpens[c])
    BY <1>2
  <1> QED BY <1>1, <1>3 DEF Plain, ToOwner, ToHost

LEMMA EditorApart ==
    ASSUME TypeInv, TypeInv', LogInv, NEW c \in Clients, ApartInv(c), NEW d \in Clients, Editor(d)
    PROVE  ApartInv(c)'
  <1>1. /\ toServer[c] \in Seq(BatchMsg) /\ toClient[c] \in Seq(ClientMsg)
        /\ isOpen \in [Clients -> BOOLEAN] /\ session \in [Clients -> Nat]
        /\ base \in [Clients -> Nat] /\ opens \in [Clients -> Nat]
    BY DEF TypeInv, NetType, ClientType, EngineType, BoundType
  <1>2. /\ Later(toServer[c], toServer[c], ToOwner) /\ Later(toClient[c], toClient[c], ToHost)
    BY <1>1, LaterSame
  <1>3. CASE OpenFile(d)
    <2>1. CASE d = c
      BY <1>3, <2>1, OpenFileApart
    <2>2. CASE d # c
      <3>1. /\ session' = session /\ isOpen' = isOpen /\ base' = base /\ history' = history
            /\ toClient' = toClient /\ opens'[c] = opens[c] /\ toServer'[c] = toServer[c]
        BY <1>1, <1>3, <2>2 DEF OpenFile, serverVars, clientVars, ToServer, TypeInv, NetType
      <3> QED BY <1>2, <3>1, PlainIf, PlainApart
    <2> QED BY <2>1, <2>2
  <1>4. CASE OpenLocalFile(d)
    <2>1. CASE d = c /\ isOpen[d] = FALSE
      BY <1>4, <2>1, OpenLocalApart
    <2>2. CASE d # c \/ isOpen[d] # FALSE
      <3>1. /\ history' = history /\ toClient' = toClient /\ toServer' = toServer
            /\ opens[d] < MaxOpens[d] /\ opens' = [opens EXCEPT ![d] = @ + 1]
        BY <1>4 DEF OpenLocalFile, netVars
      <3>2. session'[c] = session[c] /\ isOpen'[c] = isOpen[c] /\ base'[c] = base[c]
        <4>1. CASE isOpen[d]
          BY <1>4, <4>1 DEF OpenLocalFile, clientVars
        <4>2. CASE ~isOpen[d]
          BY <1>1, <1>4, <2>2, <4>2 DEF OpenLocalFile, NewRemoteDoc
        <4> QED BY <4>1, <4>2
      <3>3. opens'[c] = opens[c] \/ (opens'[c] = opens[c] + 1 /\ opens[c] < MaxOpens[c])
        BY <1>1, <3>1
      <3> QED BY <1>2, <3>1, <3>2, <3>3, PlainIf, PlainApart
    <2> QED BY <2>1, <2>2
  <1>5. ASSUME NEW n \in 0..MaxBatch, SendOps(d, n) PROVE ApartInv(c)'
    <2>1. CASE d = c
      BY <1>5, <2>1, SendApart
    <2>2. CASE d # c
      <3>1. /\ session' = session /\ isOpen' = isOpen /\ base' = base /\ history' = history
            /\ toClient' = toClient /\ opens' = opens
        BY <1>5 DEF SendOps, serverVars
      <3>2. toServer'[c] = toServer[c]
        BY <1>5, <2>2 DEF SendOps, ToServer, TypeInv, NetType
      <3> QED BY <1>2, <3>1, <3>2, PlainIf, PlainApart
    <2> QED BY <2>1, <2>2
  <1>6. ASSUME DropRemoteDoc(d)
        PROVE  session'[c] = session[c] /\ (isOpen'[c] => isOpen[c] /\ base'[c] = base[c])
    BY <1>1, <1>6 DEF DropRemoteDoc
  <1>7. ASSUME NEW n \in 0..MaxBatch, SendOpsFails(d, n) PROVE ApartInv(c)'
    <2>1. /\ DropRemoteDoc(d) /\ history' = history /\ toClient' = toClient
          /\ toServer' = toServer /\ opens' = opens
      BY <1>7 DEF SendOpsFails, serverVars, netVars
    <2> QED BY <1>2, <1>6, <2>1, PlainIf, PlainApart
  <1>8. CASE DisconnectFile(d)
    <2>1. PICK m \in BatchMsg : m = [type |-> "StopSendingOps"]
      BY MessageTypes
    <2>2. /\ DropRemoteDoc(d) /\ history' = history /\ toClient' = toClient /\ opens' = opens
          /\ ToServer(d, <<m>>)
      BY <1>8, <2>1 DEF DisconnectFile, serverVars, boundVars
    <2>3. <<m>> \in Seq(BatchMsg) /\ \A k \in 1..Len(<<m>>) : <<m>>[k].type \in ToOwner
      <3>1. <<m>> \in Seq(BatchMsg) /\ Len(<<m>>) = 1 /\ <<m>>[1] = m
        OBVIOUS
      <3> QED BY <2>1, <3>1 DEF ToOwner
    <2>4. Later(toServer'[c], toServer[c], ToOwner)
      BY <2>2, <2>3, SentLater
    <2> QED BY <1>2, <1>6, <2>2, <2>4, PlainIf, PlainApart
  <1> QED BY <1>3, <1>4, <1>5, <1>7, <1>8 DEF Editor

LEMMA ClientApart ==
    ASSUME TypeInv, TypeInv', NEW c \in Clients, ApartInv(c), NEW d \in Clients, ClientHandles(d)
    PROVE  ApartInv(c)'
  <1>1. PICK i \in 1..Len(toClient[d]) :
          HandleSnapshot(d, i) \/ HandleOpFromServer(d, i) \/ HandleDocFatal(d, i)
    BY DEF ClientHandles, Deliverable
  <1>2. /\ isOpen \in [Clients -> BOOLEAN] /\ session \in [Clients -> Nat]
        /\ base \in [Clients -> Nat] /\ opens \in [Clients -> Nat]
        /\ toClient[d][i] \in ClientMsg /\ ExpectedSeq(d) - 1 \in Nat
    <2>1. toClient[d] \in Seq(ClientMsg)
      BY DEF TypeInv, NetType
    <2>2. base[d] \in Nat /\ Len(global[d]) \in Nat /\ Len(buffer[d]) \in Nat
      BY LenProperties DEF TypeInv, ClientType, EngineType
    <2>3. ExpectedSeq(d) - 1 \in Nat
      BY <2>2 DEF ExpectedSeq, CurrentSeq
    <2> QED BY <2>1, <2>3, ElementOfSeq DEF TypeInv, ClientType, EngineType, BoundType
  <1>3. << >> \in Seq(BatchMsg) /\ \A k \in 1..Len(<< >>) : << >>[k].type \in ToOwner
    BY EmptySeq
  <1>4. ASSUME NEW m \in BatchMsg, m.type \in ToOwner
        PROVE  <<m>> \in Seq(BatchMsg) /\ \A k \in 1..Len(<<m>>) : <<m>>[k].type \in ToOwner
    <2>1. <<m>> \in Seq(BatchMsg) /\ Len(<<m>>) = 1 /\ <<m>>[1] = m
      OBVIOUS
    <2> QED BY <1>4, <2>1
  <1>5. CASE HandleSnapshot(d, i)
    <2>1. history' = history /\ opens' = opens
      BY <1>5 DEF HandleSnapshot, serverVars, boundVars
    <2>2. CASE isOpen[d]
      <3>1. ClientTakes(d, i, << >>) /\ session' = session /\ isOpen' = isOpen /\ base' = base
        BY <1>5, <2>2 DEF HandleSnapshot, clientVars
      <3>2. Later(toServer'[c], toServer[c], ToOwner) /\ Later(toClient'[c], toClient[c], ToHost)
        BY <1>3, <3>1, TakenLater
      <3> QED BY <2>1, <3>1, <3>2, PlainIf, PlainApart
    <2>3. CASE isOpen[d] = FALSE /\ d = c
      BY <1>5, <2>3, SnapshotApart
    <2>4. CASE isOpen[d] = FALSE /\ d # c
      <3>1. toClient[d][i].type = "Snapshot" /\ toClient[d][i].seq \in Nat
        BY <1>2, <1>5, MessageFields DEF HandleSnapshot
      <3>2. PICK m \in BatchMsg : m = [type |-> "RequestOps", after |-> toClient[d][i].seq]
        BY <3>1, MessageTypes
      <3>3. ClientTakes(d, i, <<m>>) /\ NewRemoteDoc(d, toClient[d][i].seq)
        BY <1>5, <2>4, <3>2 DEF HandleSnapshot
      <3>4. m.type \in ToOwner
        BY <3>2 DEF ToOwner
      <3>5. Later(toServer'[c], toServer[c], ToOwner) /\ Later(toClient'[c], toClient[c], ToHost)
        BY <1>4, <3>3, <3>4, TakenLater
      <3>6. session'[c] = session[c] /\ isOpen'[c] = isOpen[c] /\ base'[c] = base[c]
        BY <1>2, <2>4, <3>3 DEF NewRemoteDoc
      <3> QED BY <2>1, <3>5, <3>6, PlainIf, PlainApart
    <2> QED BY <1>2, <2>2, <2>3, <2>4
  <1>6. CASE HandleOpFromServer(d, i)
    <2>1. /\ history' = history /\ opens' = opens
          /\ session' = session /\ isOpen' = isOpen /\ base' = base
      BY <1>6 DEF HandleOpFromServer, serverVars, boundVars, clientVars, engineVars
    <2>2. \E msgs \in Seq(BatchMsg) : /\ ClientTakes(d, i, msgs)
                                      /\ \A k \in 1..Len(msgs) : msgs[k].type \in ToOwner
      <3>1. CASE ~isOpen[d]
        <4>1. PICK m \in BatchMsg : m = [type |-> "StopSendingOps"]
          BY MessageTypes
        <4>2. ClientTakes(d, i, <<m>>) /\ m.type \in ToOwner
          BY <1>6, <3>1, <4>1 DEF HandleOpFromServer, ToOwner
        <4> QED BY <1>4, <4>2
      <3>2. CASE isOpen[d] /\ toClient[d][i].first > ExpectedSeq(d)
        <4>1. PICK m \in BatchMsg : m = [type |-> "RequestOps", after |-> ExpectedSeq(d) - 1]
          BY <1>2, MessageTypes
        <4>2. Len(toClient[d][i].ops) \in Nat
          BY <1>2, <1>6, MessageFields, LenProperties DEF HandleOpFromServer
        <4>3. PICK msgs : msgs = [k \in 1..Len(toClient[d][i].ops) |-> m]
          OBVIOUS
        <4>4. ClientTakes(d, i, msgs)
          BY <1>6, <3>2, <4>1, <4>3 DEF HandleOpFromServer
        <4>5. msgs \in Seq(BatchMsg) /\ Len(msgs) = Len(toClient[d][i].ops)
          BY <4>2, <4>3, FunctionIsSeq
        <4>6. \A k \in 1..Len(msgs) : msgs[k].type \in ToOwner
          BY <4>1, <4>3, <4>5 DEF ToOwner
        <4> QED BY <4>4, <4>5, <4>6
      <3>3. CASE isOpen[d] /\ ~(toClient[d][i].first > ExpectedSeq(d))
        <4>1. ClientTakes(d, i, << >>)
          BY <1>6, <3>3 DEF HandleOpFromServer
        <4> QED BY <1>3, <4>1
      <3> QED BY <3>1, <3>2, <3>3
    <2>3. Later(toServer'[c], toServer[c], ToOwner) /\ Later(toClient'[c], toClient[c], ToHost)
      BY <2>2, TakenLater
    <2> QED BY <2>1, <2>3, PlainIf, PlainApart
  <1>7. CASE HandleDocFatal(d, i)
    <2>1. /\ history' = history /\ opens' = opens /\ ClientTakes(d, i, << >>) /\ DropRemoteDoc(d)
      BY <1>7 DEF HandleDocFatal, serverVars, boundVars
    <2>2. session'[c] = session[c] /\ (isOpen'[c] => isOpen[c] /\ base'[c] = base[c])
      BY <1>2, <2>1 DEF DropRemoteDoc
    <2>3. Later(toServer'[c], toServer[c], ToOwner) /\ Later(toClient'[c], toClient[c], ToHost)
      BY <1>3, <2>1, TakenLater
    <2> QED BY <2>1, <2>2, <2>3, PlainIf, PlainApart
  <1> QED BY <1>1, <1>5, <1>6, <1>7

\* What the owner sends with ops.
LEMMA OpsToHost ==
    ASSUME history \in Seq(Op)
    PROVE  /\ \A seq \in Nat : \A k \in 1..Len(OpsAfter(seq)) : OpsAfter(seq)[k].type \in ToHost
           /\ \A subs : \A ops : \A c \in Clients :
                \A k \in 1..Len(Broadcast(subs, ops)[c]) :
                  Broadcast(subs, ops)[c][k].type \in ToHost
  <1>1. \A m : Len(<<m>>) = 1 /\ <<m>>[1] = m
    OBVIOUS
  <1>2. ASSUME NEW seq \in Nat, NEW k \in 1..Len(OpsAfter(seq))
        PROVE  OpsAfter(seq)[k].type \in ToHost
    <2>1. PICK m : m = [type |-> "OpFromServer", first |-> seq + 1,
                        ops |-> SubSeq(history, seq + 1, Len(history))]
      OBVIOUS
    <2>2. OpsAfter(seq) \in {<<m>>, << >>}
      BY <2>1 DEF OpsAfter
    <2>3. OpsAfter(seq) = <<m>>
      BY <2>2, EmptySeq
    <2>4. OpsAfter(seq)[k] = m
      BY <1>1, <2>3
    <2> QED BY <2>1, <2>4 DEF ToHost
  <1>3. ASSUME NEW subs, NEW ops, NEW c \in Clients, NEW k \in 1..Len(Broadcast(subs, ops)[c])
        PROVE  Broadcast(subs, ops)[c][k].type \in ToHost
    <2>1. PICK m : m = [type |-> "OpFromServer", first |-> Len(history) + 1, ops |-> ops]
      OBVIOUS
    <2>2. Broadcast(subs, ops)[c] \in {<<m>>, << >>}
      BY <2>1 DEF Broadcast
    <2>3. Broadcast(subs, ops)[c] = <<m>>
      BY <2>2, EmptySeq
    <2>4. Broadcast(subs, ops)[c][k] = m
      BY <1>1, <2>3
    <2> QED BY <2>1, <2>4 DEF ToHost
  <1> QED BY <1>2, <1>3

LEMMA ServerApart ==
    ASSUME TypeInv, TypeInv', LogInv, NEW c \in Clients, ApartInv(c), NEW d \in Clients,
           ServerHandles(d)
    PROVE  ApartInv(c)'
  <1>1. PICK i \in Deliverable(d, toServer[d]) :
          \/ HandleRequestFile(d, i) \/ HandleRequestOps(d, i)
          \/ HandleOpFromClient(d, i) \/ HandleStopSendingOps(d, i)
    BY DEF ServerHandles
  <1>2. /\ i \in 1..Len(toServer[d]) /\ toServer[d] \in Seq(BatchMsg)
        /\ history \in Seq(Op) /\ Len(history) \in Nat
    BY LenProperties DEF Deliverable, TypeInv, NetType, ServerType
  <1>3. PICK m \in BatchMsg : m = toServer[d][i]
    BY <1>2, ElementOfSeq
  <1>4. UNCHANGED <<session, isOpen, base, opens>>
    BY <1>1 DEF HandleRequestFile, HandleRequestOps, HandleOpFromClient, HandleStopSendingOps,
                clientVars, boundVars
  <1>5. /\ NoReply \in [Clients -> Seq(ClientMsg)]
        /\ \A k \in 1..Len(NoReply[c]) : NoReply[c][k].type \in ToHost
    <2>1. NoReply[c] = << >>
      BY DEF NoReply
    <2> QED BY <2>1, Replies, EmptySeq
  <1>6. ASSUME NEW reply \in [Clients -> Seq(ClientMsg)], ServerTakes(d, i, reply),
               \A k \in 1..Len(reply[c]) : reply[c][k].type \in ToHost,
               \/ history' = history
               \/ \E t \in Seq(Op) : history' = history \o t /\ \A k \in 1..Len(t) : t[k].site # c
        PROVE  ApartInv(c)'
    BY <1>2, <1>4, <1>6, ServedLater, PlainIf, PlainApart
  <1>7. ASSUME NEW msgs \in Seq(ClientMsg), ServerTakes(d, i, ReplyTo(d, msgs)),
               d = c => \A k \in 1..Len(msgs) : msgs[k].type \in ToHost, history' = history
        PROVE  ApartInv(c)'
    <2>1. PICK reply \in [Clients -> Seq(ClientMsg)] : reply = ReplyTo(d, msgs)
      BY Replies
    <2>2. reply[c] = IF c = d THEN msgs ELSE NoReply[c]
      BY <1>5, <2>1 DEF ReplyTo
    <2>3. \A k \in 1..Len(reply[c]) : reply[c][k].type \in ToHost
      BY <1>5, <1>7, <2>2
    <2> QED BY <1>6, <1>7, <2>1, <2>3
  <1>8. CASE HandleRequestFile(d, i)
    <2>1. CASE d = c
      BY <1>8, <2>1, RequestApart
    <2>2. CASE d # c
      <3>1. PICK x \in ClientMsg : x = [type |-> "Snapshot", seq |-> Len(history)]
        BY <1>2, MessageTypes
      <3>2. ServerTakes(d, i, ReplyTo(d, <<x>>)) /\ history' = history
        BY <1>8, <3>1 DEF HandleRequestFile, serverVars
      <3>3. <<x>> \in Seq(ClientMsg)
        OBVIOUS
      <3> QED BY <1>7, <2>2, <3>2, <3>3
    <2> QED BY <2>1, <2>2
  <1>9. CASE HandleRequestOps(d, i)
    <2>1. m.type = "RequestOps" /\ m.after \in Nat
      BY <1>3, <1>9, MessageFields DEF HandleRequestOps
    <2>2. ServerTakes(d, i, ReplyTo(d, OpsAfter(m.after))) /\ history' = history
      BY <1>3, <1>9 DEF HandleRequestOps
    <2>3. /\ OpsAfter(m.after) \in Seq(ClientMsg)
          /\ \A k \in 1..Len(OpsAfter(m.after)) : OpsAfter(m.after)[k].type \in ToHost
      BY <1>2, <2>1, OpsAfterType, OpsToHost
    <2> QED BY <1>7, <2>2, <2>3
  <1>10. CASE HandleOpFromClient(d, i)
    <2>1. m.type = "OpFromClient" /\ m.ops \in Seq(Op)
      BY <1>3, <1>10, MessageFields DEF HandleOpFromClient
    <2>2. CASE ServerTakes(d, i, NoReply) /\ UNCHANGED serverVars
      BY <1>5, <1>6, <2>2 DEF serverVars
    <2>3. CASE ServerTakes(d, i, ReplyTo(d, <<[type |-> "DocFatal"]>>)) /\ UNCHANGED serverVars
      <3>1. PICK x \in ClientMsg : x = [type |-> "DocFatal"]
        BY MessageTypes
      <3>2. <<x>> \in Seq(ClientMsg) /\ Len(<<x>>) = 1 /\ <<x>>[1] = x
        OBVIOUS
      <3>3. \A k \in 1..Len(<<x>>) : <<x>>[k].type \in ToHost
        BY <3>1, <3>2 DEF ToHost
      <3> QED BY <1>7, <2>3, <3>1, <3>2, <3>3 DEF serverVars
    <2>4. ASSUME NEW subs, d \in Writers, subscribers[d] # NotSubscribed, Expected(d, m),
                 history' = history \o m.ops, ServerTakes(d, i, Broadcast(subs, m.ops))
          PROVE  ApartInv(c)'
      <3>1. /\ Broadcast(subs, m.ops) \in [Clients -> Seq(ClientMsg)]
            /\ \A k \in 1..Len(Broadcast(subs, m.ops)[c]) :
                 Broadcast(subs, m.ops)[c][k].type \in ToHost
        BY <1>2, <2>1, BroadcastType, OpsToHost
      <3>2. CASE d = c
        <4>1. Accepts(c, i)
          BY <1>3, <1>10, <2>1, <2>4, <3>2 DEF Accepts, HandleOpFromClient, ServerTakes, clientVars,
                                               engineVars, boundVars
        <4>2. Later(toClient'[c], toClient[c], ToHost)
          BY <1>2, <2>4, <3>1, ServedLater
        <4> QED BY <1>2, <1>4, <3>2, <4>1, <4>2, AcceptApart DEF ToHost
      <3>3. CASE d # c
        <4>1. \A k \in 1..Len(m.ops) : m.ops[k].site = d
          <5>1. BatchOps(m) \subseteq InFlight(d)
            BY <1>2, <1>3 DEF LogInv, FlightOk
          <5> QED BY <2>1, <5>1 DEF BatchOps, OpsIn, InFlight, MadeBy
        <4> QED BY <1>6, <2>1, <2>4, <3>1, <3>3, <4>1
      <3> QED BY <3>2, <3>3
    <2> QED BY <1>3, <1>10, <2>2, <2>3, <2>4 DEF HandleOpFromClient
  <1>11. CASE HandleStopSendingOps(d, i)
    <2>1. ServerTakes(d, i, NoReply) /\ history' = history
      BY <1>11 DEF HandleStopSendingOps
    <2> QED BY <1>5, <1>6, <2>1
  <1> QED BY <1>1, <1>8, <1>9, <1>10, <1>11

LEMMA OtherApart ==
    ASSUME TypeInv, TypeInv', NEW c \in Clients, ApartInv(c),
           \/ ResetDocFromDisk
           \/ \E d \in Clients : Break(d) \/ Restart(d) \/ Reconnect(d)
    PROVE  ApartInv(c)'
  <1>1. /\ isOpen \in [Clients -> BOOLEAN] /\ session \in [Clients -> Nat]
        /\ base \in [Clients -> Nat]
        /\ history \in Seq(Op) /\ external \in Nat
        /\ toServer[c] \in Seq(BatchMsg) /\ toClient[c] \in Seq(ClientMsg)
    BY DEF TypeInv, ServerType, NetType, ClientType, EngineType, BoundType
  <1>2. CASE ResetDocFromDisk
    <2>1. PICK op : op = [site |-> External, seq |-> external + 1, session |-> 0]
      OBVIOUS
    <2>2. op \in Op /\ op.site # c
      BY <1>1, <2>1, SiteAssumption DEF Op
    <2>3. <<op>> \in Seq(Op) /\ Len(<<op>>) = 1 /\ <<op>>[1] = op
      BY <2>2
    <2>4. /\ UNCHANGED <<session, isOpen, base, opens, toServer>>
          /\ history' = Append(history, op)
          /\ toClient' = [x \in Clients |-> Sent(toClient, x, Broadcast(subscribers, <<op>>)[x])]
      BY <1>2, <2>1 DEF ResetDocFromDisk, clientVars
    <2>5. history' = history \o <<op>>
      BY <1>1, <2>2, <2>4, AppendIsConcat
    <2>6. Later(toServer'[c], toServer[c], ToOwner)
      BY <1>1, <2>4, LaterSame
    <2>7. Later(toClient'[c], toClient[c], ToHost)
      <3>1. Broadcast(subscribers, <<op>>) \in [Clients -> Seq(ClientMsg)]
        BY <1>1, <2>3, BroadcastType
      <3> QED BY <1>1, <2>4, <3>1, OpsToHost, RepliedLater
    <2>8. \A k \in 1..Len(<<op>>) : <<op>>[k].site # c
      BY <2>2, <2>3
    <2> QED BY <2>3, <2>4, <2>5, <2>6, <2>7, <2>8, PlainIf, PlainApart
  <1>3. ASSUME NEW d \in Clients, Break(d) \/ Restart(d) \/ Reconnect(d)
        PROVE  ApartInv(c)'
    <2>1. history' = history /\ opens' = opens
      BY <1>3 DEF Break, Restart, Reconnect, serverVars, boundVars
    <2>2. session'[c] = session[c] /\ (isOpen'[c] => isOpen[c] /\ base'[c] = base[c])
      BY <1>1, <1>3 DEF Break, Restart, Reconnect, clientVars, DropRemoteDoc
    <2>3. toServer'[c] \in {toServer[c], << >>} /\ toClient'[c] \in {toClient[c], << >>}
      <3>1. /\ toServer \in [Clients -> Seq(BatchMsg)] /\ toClient \in [Clients -> Seq(ClientMsg)]
            /\ \/ /\ toServer' = [toServer EXCEPT ![d] = << >>]
                  /\ toClient' = [toClient EXCEPT ![d] = << >>]
               \/ toServer' = toServer /\ toClient' = toClient
        BY <1>3 DEF Break, Restart, Reconnect, TypeInv, NetType
      <3> QED BY <3>1
    <2>4. Later(toServer'[c], toServer[c], ToOwner) /\ Later(toClient'[c], toClient[c], ToHost)
      BY <1>1, <2>3, LaterSame
    <2> QED BY <2>1, <2>2, <2>4, PlainIf, PlainApart
  <1> QED BY <1>2, <1>3

-----------------------------------------------------------------------------
(* The theorems *)

LEMMA ApartInvariant == Spec => [](\A c \in Clients : ApartInv(c))
  <1> DEFINE Inv == \A c \in Clients : ApartInv(c)
  <1>1. Init => Inv
    <2> SUFFICES ASSUME Init, NEW c \in Clients
                 PROVE  ApartInv(c)
      OBVIOUS
    <2>1. PICK q : q = << >>
      OBVIOUS
    <2>2. /\ toServer[c] = q /\ toClient[c] = q /\ history = q /\ Len(q) = 0
          /\ isOpen[c] = FALSE /\ session[c] = 0 /\ opens[c] = 0
      BY <2>1, EmptySeq DEF Init
    <2>3. \A n \in Int : n \notin 1..Len(q) /\ n \notin (0 + 1)..Len(q)
      BY <2>2
    <2>4. ~Opening(c) /\ AsksOnce(c)
      BY <2>2, <2>3 DEF Opening, AsksOnce, AtMostOne, Has
    <2>5. MaxOpens[c] \in Nat
      BY BoundAssumption
    <2>6. OneSession(c)
      BY <2>2, <2>3, <2>4, <2>5 DEF OneSession, OpsOfSession, BatchesOf
    <2>7. InTurn(c)
      BY <2>2, <2>3, <2>4 DEF InTurn
    <2> QED BY <2>6, <2>7 DEF ApartInv
  <1>2. TypeInv /\ TypeInv' /\ LogInv /\ Inv /\ [Next]_vars => Inv'
    <2> SUFFICES ASSUME TypeInv, TypeInv', LogInv, Inv, [Next]_vars, NEW c \in Clients
                 PROVE  ApartInv(c)'
      OBVIOUS
    <2>1. ApartInv(c)
      OBVIOUS
    <2>2. CASE Next
      <3>1. \/ \E d \in Clients : Editor(d) \/ ClientHandles(d) \/ ServerHandles(d)
            \/ ResetDocFromDisk
            \/ \E d \in Clients : Break(d) \/ Restart(d) \/ Reconnect(d)
        BY <2>2 DEF Next
      <3> QED BY <2>1, <3>1, EditorApart, ClientApart, ServerApart, OtherApart
    <2>3. CASE UNCHANGED vars
      BY <2>1, <2>3 DEF vars, serverVars, clientVars, engineVars, netVars, boundVars, ApartInv,
                        OneSession, InTurn, AsksOnce, Opening, OpsOfSession
    <2> QED BY <2>2, <2>3
  <1> HIDE DEF Inv
  <1>3. Spec => []Inv
    BY <1>1, <1>2, TypeInvariant, LogInvariant, PTL DEF Spec
  <1> QED BY <1>3 DEF Inv

LEMMA ApartIsEnough ==
    ASSUME OpensApart, TypeInv, \A c \in Clients : ApartInv(c)
    PROVE  NoStaleOps /\ NoStaleBatch
  <1> SUFFICES ASSUME NEW c \in Clients, isOpen[c]
               PROVE  /\ \A i \in (base[c] + 1)..Len(history) :
                           history[i].site = c => history[i].session = session[c]
                      /\ \A i \in 1..Len(toServer[c]) :
                           toServer[c][i].type = "OpFromClient"
                             => toServer[c][i].ops[1].session = session[c]
    BY DEF NoStaleOps, NoStaleBatch
  <1>1. /\ OpsOfSession(history, c, base[c], session[c])
        /\ BatchesOf(toServer[c], session[c])
    <2>1. base[c] \in Nat
      BY DEF TypeInv, ClientType, EngineType
    <2>2. CASE OpenedOnce(c)
      BY <2>1, <2>2 DEF ApartInv, OneSession, OpsOfSession
    <2>3. CASE OpenedInTurn(c)
      BY <2>3 DEF ApartInv, InTurn
    <2> QED BY <2>2, <2>3 DEF OpensApart
  <1>2. ASSUME NEW i \in 1..Len(toServer[c]), toServer[c][i].type = "OpFromClient"
        PROVE  toServer[c][i].ops[1].session = session[c]
    <2>1. PICK m \in BatchMsg : m = toServer[c][i]
      <3>1. toServer[c] \in Seq(BatchMsg)
        BY DEF TypeInv, NetType
      <3> QED BY <3>1, ElementOfSeq
    <2>2. Len(m.ops) \in Nat \ {0}
      BY <1>2, <2>1, MessageFields
    <2>3. m.ops[1] \in BatchOps(m)
      BY <1>2, <2>1, <2>2 DEF BatchOps, OpsIn
    <2> QED BY <1>1, <2>1, <2>3 DEF BatchesOf
  <1> QED BY <1>1, <1>2 DEF OpsOfSession

LEMMA NoneStale == OpensApart /\ Spec => [](NoStaleOps /\ NoStaleBatch)
  <1> SUFFICES ASSUME OpensApart
               PROVE  Spec => [](NoStaleOps /\ NoStaleBatch)
    OBVIOUS
  <1> DEFINE Inv == \A c \in Clients : ApartInv(c)
  <1>1. TypeInv /\ Inv => NoStaleOps /\ NoStaleBatch
    BY ApartIsEnough
  <1>2. Spec => []Inv
    BY ApartInvariant
  <1> HIDE DEF Inv
  <1> QED BY <1>1, <1>2, TypeInvariant, PTL

\* The ops of every RemoteDoc enter the owner's history with site seqs 1, 2,
\* 3, ... (process_ops, prev_op_acked and last_site_seq), whatever is lost
\* or reset from disk, when every host opens the document once or has ordered
\* messages and one request at a time.
THEOREM OpsSequencedApart == OpensApart /\ Spec => []SequencedOnce
  BY NoneStale, OpsSequencedOnce, PTL

\* Then process_remote_op always finds the op that a received op of the
\* client's own acknowledges, neither OpMissing nor OpMismatch.
THEOREM AcknowledgementsFitApart == OpensApart /\ Spec => []AcksFit
  BY NoneStale, AcknowledgementsFit, PTL

\* And no edit is forgotten: every op of the open RemoteDoc is pending in its
\* engine or in the owner's history, so process_remote_op drops an op from the
\* local history only when it has been sequenced.
THEOREM OpsAreKeptApart == OpensApart /\ Spec => []NoOpForgotten
  BY NoneStale, OpsAreKept, PTL

\* And the owner never transforms a batch (process_ops) against ops of its
\* own site: it knows all of them.
THEOREM OwnOpsAreKnownApart == OpensApart /\ Spec => []NoSelfConcurrency
  BY NoneStale, OwnOpsAreKnown, PTL

-----------------------------------------------------------------------------
(***************************************************************************)
(* 5. Connections that stay up and keep the order                          *)
(*                                                                         *)
(* What hosts can count on while their connections stay up and keep the    *)
(* order of messages: a batch is never answered with DocFatal, an open     *)
(* document stays subscribed and gets the ops of the others without a gap  *)
(* and with an announcement, however often the users close and open it.    *)
(* Without order or with a break each of the four is false.                *)
(***************************************************************************)

\* No connection breaks, no message overtakes another, the editor waits for
\* the answer to OpenFile, and opens a document of its own host once.
Steady == /\ MaxBreaks = 0 /\ RetryOpen = FALSE
          /\ \A c \in Clients : c \in Ordered /\ (c \in Local => OpenedOnce(c))

\* The messages of r bring the ops with global seqs from + 1 to last, in order
\* and without a gap.
Brings(r, from, last) ==
    \E at \in [1..(Len(r) + 1) -> Nat] :
        /\ at[1] = from /\ at[Len(r) + 1] = last
        /\ \A i \in 1..Len(r) : /\ r[i].type = "OpFromServer"
                                /\ r[i].first = at[i] + 1 /\ at[i + 1] = at[i] + Len(r[i].ops)

\* Its own ops and those of others come to a client in different messages.
Sorted(c, ops) == ops[1].site = c => \A k \in 1..Len(ops) : ops[k].site = c

Only(q, i, j, type) == \A k \in i..j : q[k].type = type

\* A RequestOps is on the way, behind answers to messages that came in before
\* the document was open.
AsksFor(q, seq) ==
    \E k \in 1..Len(q) : /\ q[k] = [type |-> "RequestOps", after |-> seq]
                         /\ Only(q, 1, k - 1, "StopSendingOps")
                         /\ Only(q, k + 1, Len(q), "OpFromClient")

\* While the document is open: a subscriber is sent everything after what it
\* has received, another one asks for everything after its snapshot.
OpenInv(c) ==
    LET q == toServer[c]
        r == toClient[c]
    IN  isOpen[c] =>
          /\ \/ /\ subscribers[c] # NotSubscribed /\ Only(q, 1, Len(q), "OpFromClient")
                /\ Brings(r, Received(c), Len(history))
             \/ /\ subscribers[c] = NotSubscribed /\ r = << >> /\ Received(c) = base[c]
                /\ \A i \in (base[c] + 1)..Len(history) : history[i].site # c
                /\ AsksFor(q, base[c])
          /\ \A j \in 1..Len(r) : Sorted(c, r[j].ops)

\* When the owner comes to place k of the queue every subscription has ended.
Ends(sub, q, k) ==
    /\ sub # NotSubscribed => \E j \in 1..(k - 1) : q[j].type = "StopSendingOps"
    /\ \A i \in 1..(k - 1) : q[i].type = "RequestOps" =>
         \E j \in (i + 1)..(k - 1) : q[j].type = "StopSendingOps"

\* While it is closed: no subscription is left when the messages under way are
\* handled, nor when the owner answers a RequestFile; nothing comes after its
\* answer.
Ended(sub, q, r) ==
    /\ Ends(sub, q, Len(q) + 1)
    /\ \A k \in 1..Len(q) : q[k].type = "RequestFile" =>
         Ends(sub, q, k) /\ Only(q, k + 1, Len(q), "StopSendingOps")
    /\ \A j \in 1..Len(r) : r[j].type = "Snapshot" =>
         j = Len(r) /\ sub = NotSubscribed /\ Only(q, 1, Len(q), "StopSendingOps")

ClosedInv(c) == isOpen[c] = FALSE => Ended(subscribers[c], toServer[c], toClient[c])

\* A document of its own host needs no messages to be opened.
LocalInv(c) ==
    c \in Local =>
        /\ ~Opening(c)
        /\ opens[c] = 0 => /\ isOpen[c] = FALSE /\ toServer[c] = << >> /\ toClient[c] = << >>
                           /\ subscribers[c] = NotSubscribed

\* The site seq the owner expects when it comes to the batch at place i.
NextSeqs(sub, q) ==
    \A i \in 1..Len(q) : q[i].type = "OpFromClient" =>
        IF \E k \in 1..(i - 1) : q[k].type = "RequestOps" THEN q[i].ops[1].seq = 1
        ELSE sub = NotSubscribed \/ q[i].ops[1].seq = sub + 1

\* The last one it will have got from an open document.
LastSeqs(sub, q, sent) ==
    IF Has(q, "OpFromClient")
    THEN \A i \in 1..Len(q) : q[i].type = "OpFromClient" => LastSeq(q[i].ops) = sent
    ELSE sent = IF Has(q, "RequestOps") THEN 0 ELSE sub

SeqInv(c) ==
    c \in Writers =>
        /\ NextSeqs(subscribers[c], toServer[c])
        /\ isOpen[c] => LastSeqs(subscribers[c], toServer[c], lastSent[c])

Announced(c) == (\E k \in 1..Len(buffer[c]) : buffer[c][k].site # c) => notified[c]
NoFatal(c)   == ~Has(toClient[c], "DocFatal")

SteadyInv(c) ==
    up[c] /\ NoFatal(c) /\ OpenInv(c) /\ ClosedInv(c) /\ LocalInv(c) /\ SeqInv(c) /\ Announced(c)

-----------------------------------------------------------------------------
(* Queues: one more message at the end, one less at the head *)

Longer(r, q, m) ==
    /\ Len(q) \in Nat /\ Len(r) = Len(q) + 1 /\ r[Len(q) + 1] = m
    /\ \A k \in 1..Len(q) : r[k] = q[k]

Shorter(r, q) ==
    /\ Len(q) \in Nat \ {0} /\ Len(r) = Len(q) - 1
    /\ \A k \in 1..Len(r) : r[k] = q[k + 1]

LEMMA JoinedIsLonger ==
    ASSUME NEW S, NEW q \in Seq(S), NEW m \in S
    PROVE  Longer(q \o <<m>>, q, m)
  <1>1. /\ Len(q) \in Nat /\ Len(q \o <<m>>) = Len(q) + 1
        /\ \A k \in 1..(Len(q) + 1) : (q \o <<m>>)[k] = IF k <= Len(q) THEN q[k] ELSE m
    BY ConcatProperties, LenProperties
  <1> QED BY <1>1 DEF Longer

LEMMA WithoutIsShorter ==
    ASSUME NEW S, NEW q \in Seq(S), NEW i \in 1..Len(q), i = 1
    PROVE  Shorter(Without(q, i), q)
  <1>1. Len(q) \in Nat \ {0} /\ Len(Without(q, i)) = Len(q) - 1
    BY LenProperties, WithoutElements
  <1>2. ASSUME NEW j \in 1..Len(Without(q, i)) PROVE Without(q, i)[j] = q[j + 1]
    <2>1. LET k == IF j < i THEN j ELSE j + 1 IN Without(q, i)[j] = q[k]
      BY WithoutElements
    <2> QED BY <1>1, <2>1
  <1> QED BY <1>1, <1>2 DEF Shorter

LEMMA BringsNothing ==
    ASSUME NEW n \in Nat
    PROVE  Brings(<< >>, n, n)
  <1>1. PICK r : r = << >> /\ Len(r) = 0
    BY EmptySeq
  <1> DEFINE at == [j \in 1..(Len(r) + 1) |-> n]
  <1>2. at \in [1..(Len(r) + 1) -> Nat] /\ at[1] = n /\ at[Len(r) + 1] = n
    BY <1>1
  <1>3. \A i \in 1..Len(r) : FALSE
    BY <1>1
  <1> HIDE DEF at
  <1>4. Brings(r, n, n)
    BY <1>2, <1>3 DEF Brings
  <1> QED BY <1>1, <1>4

LEMMA BringsMore ==
    ASSUME NEW r, NEW q, NEW m, Longer(r, q, m), NEW from \in Nat, NEW last \in Nat,
           Brings(q, from, last), m.type = "OpFromServer", m.first = last + 1, Len(m.ops) \in Nat
    PROVE  Brings(r, from, last + Len(m.ops))
  <1>1. PICK at \in [1..(Len(q) + 1) -> Nat] :
        /\ at[1] = from /\ at[Len(q) + 1] = last
        /\ \A i \in 1..Len(q) : /\ q[i].type = "OpFromServer"
                                /\ q[i].first = at[i] + 1 /\ at[i + 1] = at[i] + Len(q[i].ops)
    BY DEF Brings
  <1>2. /\ Len(q) \in Nat /\ Len(r) = Len(q) + 1 /\ r[Len(q) + 1] = m
        /\ \A k \in 1..Len(q) : r[k] = q[k]
    BY DEF Longer
  <1> DEFINE new == [j \in 1..(Len(r) + 1) |->
                       IF j <= Len(q) + 1 THEN at[j] ELSE last + Len(m.ops)]
  <1>3. /\ new \in [1..(Len(r) + 1) -> Nat] /\ new[1] = from
        /\ new[Len(r) + 1] = last + Len(m.ops) /\ new[Len(q) + 1] = last
        /\ \A j \in 1..(Len(q) + 1) : new[j] = at[j]
    BY <1>1, <1>2
  <1> HIDE DEF new
  <1>4. ASSUME NEW i \in 1..Len(r)
        PROVE  /\ r[i].type = "OpFromServer"
               /\ r[i].first = new[i] + 1 /\ new[i + 1] = new[i] + Len(r[i].ops)
    <2>1. CASE i = Len(q) + 1
      BY <1>2, <1>3, <2>1
    <2>2. CASE i \in 1..Len(q)
      <3>1. new[i] = at[i] /\ new[i + 1] = at[i + 1]
        BY <1>2, <1>3, <2>2
      <3> QED BY <1>1, <1>2, <2>2, <3>1
    <2> QED BY <1>2, <2>1, <2>2
  <1> QED BY <1>3, <1>4 DEF Brings

LEMMA BringsFirst ==
    ASSUME NEW r, NEW q, Shorter(r, q), NEW from, NEW last, Brings(q, from, last)
    PROVE  /\ q[1].type = "OpFromServer" /\ q[1].first = from + 1
           /\ Brings(r, from + Len(q[1].ops), last)
  <1>1. PICK at \in [1..(Len(q) + 1) -> Nat] :
        /\ at[1] = from /\ at[Len(q) + 1] = last
        /\ \A i \in 1..Len(q) : /\ q[i].type = "OpFromServer"
                                /\ q[i].first = at[i] + 1 /\ at[i + 1] = at[i] + Len(q[i].ops)
    BY DEF Brings
  <1>2. /\ Len(q) \in Nat \ {0} /\ Len(r) = Len(q) - 1
        /\ \A k \in 1..Len(r) : r[k] = q[k + 1]
    BY DEF Shorter
  <1>3. 1 \in 1..Len(q)
    BY <1>2
  <1> DEFINE new == [j \in 1..(Len(r) + 1) |-> at[j + 1]]
  <1>4. /\ new \in [1..(Len(r) + 1) -> Nat] /\ new[1] = at[2] /\ new[Len(r) + 1] = last
        /\ \A j \in 1..(Len(r) + 1) : new[j] = at[j + 1]
    BY <1>1, <1>2
  <1> HIDE DEF new
  <1>5. at[2] = from + Len(q[1].ops) /\ q[1].type = "OpFromServer" /\ q[1].first = from + 1
    BY <1>1, <1>3
  <1>6. ASSUME NEW i \in 1..Len(r)
        PROVE  /\ r[i].type = "OpFromServer"
               /\ r[i].first = new[i] + 1 /\ new[i + 1] = new[i] + Len(r[i].ops)
    <2>1. i + 1 \in 1..Len(q) /\ i + 1 \in 1..(Len(r) + 1) /\ i \in 1..(Len(r) + 1)
      BY <1>2
    <2>2. r[i] = q[i + 1]
      BY <1>2
    <2>3. new[i] = at[i + 1] /\ new[i + 1] = at[(i + 1) + 1]
      BY <1>4, <2>1
    <2>4. /\ q[i + 1].type = "OpFromServer" /\ q[i + 1].first = at[i + 1] + 1
          /\ at[(i + 1) + 1] = at[i + 1] + Len(q[i + 1].ops)
      BY <1>1, <2>1
    <2> QED BY <2>2, <2>3, <2>4
  <1> QED BY <1>4, <1>5, <1>6 DEF Brings

\* What is said of the places of a queue, when it grows or shrinks.
LEMMA LongerParts ==
    ASSUME NEW r, NEW q, NEW m, Longer(r, q, m)
    PROVE  /\ \A type : Has(r, type) <=> Has(q, type) \/ m.type = type
           /\ \A type : Only(q, 1, Len(q), type) /\ m.type = type => Only(r, 1, Len(r), type)
           /\ \A sub : \A k \in 1..(Len(q) + 1) : Ends(sub, q, k) => Ends(sub, r, k)
  <1>1. /\ Len(q) \in Nat /\ Len(r) = Len(q) + 1 /\ r[Len(q) + 1] = m
        /\ \A k \in 1..Len(q) : r[k] = q[k]
    BY DEF Longer
  <1>2. ASSUME NEW type PROVE Has(r, type) <=> Has(q, type) \/ m.type = type
    BY <1>1 DEF Has
  <1>3. ASSUME NEW type, Only(q, 1, Len(q), type), m.type = type PROVE Only(r, 1, Len(r), type)
    BY <1>1, <1>3 DEF Only
  <1>4. ASSUME NEW sub, NEW k \in 1..(Len(q) + 1), Ends(sub, q, k) PROVE Ends(sub, r, k)
    BY <1>1, <1>4 DEF Ends
  <1> QED BY <1>2, <1>3, <1>4

LEMMA ShorterParts ==
    ASSUME NEW r, NEW q, Shorter(r, q)
    PROVE  /\ \A type : Has(r, type) => Has(q, type)
           /\ \A type : Has(q, type) => Has(r, type) \/ q[1].type = type
           /\ \A type : \A k \in 2..(Len(q) + 1) : Only(q, k, Len(q), type)
                                                    => Only(r, k - 1, Len(r), type)
  <1>1. /\ Len(q) \in Nat \ {0} /\ Len(r) = Len(q) - 1
        /\ \A k \in 1..Len(r) : r[k] = q[k + 1]
    BY DEF Shorter
  <1>2. \A k \in 2..Len(q) : k - 1 \in 1..Len(r) /\ r[k - 1] = q[k]
    BY <1>1
  <1>3. ASSUME NEW type, Has(r, type) PROVE Has(q, type)
    <2>1. PICK k \in 1..Len(r) : r[k].type = type
      BY <1>3 DEF Has
    <2>2. k + 1 \in 1..Len(q) /\ q[k + 1].type = type
      BY <1>1, <2>1
    <2> QED BY <2>2 DEF Has
  <1>4. ASSUME NEW type, Has(q, type), q[1].type # type PROVE Has(r, type)
    <2>1. PICK k \in 1..Len(q) : q[k].type = type
      BY <1>4 DEF Has
    <2>2. k - 1 \in 1..Len(r) /\ r[k - 1].type = type
      BY <1>1, <1>2, <1>4, <2>1
    <2> QED BY <2>2 DEF Has
  <1>5. ASSUME NEW type, NEW k \in 2..(Len(q) + 1), Only(q, k, Len(q), type)
        PROVE  Only(r, k - 1, Len(r), type)
    <2> SUFFICES ASSUME NEW j \in (k - 1)..Len(r) PROVE r[j].type = type
      BY DEF Only
    <2>1. j \in 1..Len(r) /\ j + 1 \in k..Len(q)
      BY <1>1
    <2> QED BY <1>1, <1>5, <2>1 DEF Only
  <1> QED BY <1>3, <1>4, <1>5

\* The first message is handled, and "new" is the subscription then.
LEMMA ShorterEnds ==
    ASSUME NEW r, NEW q, Shorter(r, q), NEW sub, NEW new, NEW k \in 2..(Len(q) + 1),
           Ends(sub, q, k),
           \/ q[1].type = "StopSendingOps" /\ new = NotSubscribed
           \/ q[1].type = "RequestOps"
           \/ q[1].type \notin {"StopSendingOps", "RequestOps"}
                /\ (new # NotSubscribed => sub # NotSubscribed)
    PROVE  Ends(new, r, k - 1)
  <1>1. /\ Len(q) \in Nat \ {0} /\ Len(r) = Len(q) - 1
        /\ \A j \in 1..Len(r) : r[j] = q[j + 1]
    BY DEF Shorter
  <1>2. \A j \in 2..Len(q) : j - 1 \in 1..Len(r) /\ r[j - 1] = q[j]
    BY <1>1
  <1>3. ASSUME new # NotSubscribed
        PROVE  \E j \in 1..((k - 1) - 1) : r[j].type = "StopSendingOps"
    <2>1. q[1].type # "StopSendingOps"
      BY <1>3
    <2>2. PICK j \in 2..(k - 1) : q[j].type = "StopSendingOps"
      <3>1. 1 \in 1..(k - 1)
        OBVIOUS
      <3>2. CASE q[1].type = "RequestOps"
        <4>1. \E j \in (1 + 1)..(k - 1) : q[j].type = "StopSendingOps"
          BY <3>1, <3>2 DEF Ends
        <4> QED BY <4>1
      <3>3. CASE q[1].type # "RequestOps"
        <4>1. \E j \in 1..(k - 1) : q[j].type = "StopSendingOps"
          BY <1>3, <2>1, <3>3 DEF Ends
        <4> QED BY <2>1, <4>1
      <3> QED BY <3>2, <3>3
    <2>3. j - 1 \in 1..((k - 1) - 1) /\ r[j - 1].type = "StopSendingOps"
      BY <1>1, <1>2, <2>2
    <2> QED BY <2>3
  <1>4. ASSUME NEW i \in 1..((k - 1) - 1), r[i].type = "RequestOps"
        PROVE  \E j \in (i + 1)..((k - 1) - 1) : r[j].type = "StopSendingOps"
    <2>1. i + 1 \in 1..(k - 1) /\ q[i + 1].type = "RequestOps"
      BY <1>1, <1>4
    <2>2. PICK j \in ((i + 1) + 1)..(k - 1) : q[j].type = "StopSendingOps"
      BY <2>1 DEF Ends
    <2>3. j - 1 \in (i + 1)..((k - 1) - 1) /\ r[j - 1].type = "StopSendingOps"
      BY <1>1, <1>2, <2>2
    <2> QED BY <2>3
  <1> QED BY <1>3, <1>4 DEF Ends

\* A closed client answers a late message with StopSendingOps,
LEMMA EndedMore ==
    ASSUME NEW p, NEW q, NEW m, Longer(p, q, m), NEW sub, NEW r, m.type = "StopSendingOps",
           Ended(sub, q, r) \/ (~Has(q, "RequestFile") /\ ~Has(r, "Snapshot"))
    PROVE  Ended(sub, p, r)
  <1>1. /\ Len(q) \in Nat /\ Len(p) = Len(q) + 1 /\ p[Len(q) + 1] = m
        /\ \A k \in 1..Len(q) : p[k] = q[k]
    BY DEF Longer
  <1>2. Ends(sub, p, Len(p) + 1)
    <2>1. Len(q) + 1 \in 1..((Len(p) + 1) - 1) /\ p[Len(q) + 1].type = "StopSendingOps"
      BY <1>1
    <2>2. ASSUME NEW i \in 1..((Len(p) + 1) - 1), p[i].type = "RequestOps"
          PROVE  Len(q) + 1 \in (i + 1)..((Len(p) + 1) - 1)
      <3>1. i # Len(q) + 1
        BY <1>1, <2>2
      <3> QED BY <1>1, <3>1
    <2> QED BY <2>1, <2>2 DEF Ends
  <1>3. ASSUME NEW k \in 1..Len(p), p[k].type = "RequestFile"
        PROVE  Ends(sub, p, k) /\ Only(p, k + 1, Len(p), "StopSendingOps")
    <2>1. k \in 1..Len(q) /\ q[k].type = "RequestFile"
      BY <1>1, <1>3
    <2>2. Ends(sub, q, k) /\ Only(q, k + 1, Len(q), "StopSendingOps")
      BY <2>1 DEF Ended, Has
    <2>3. Ends(sub, p, k)
      BY <1>1, <2>1, <2>2, LongerParts
    <2>4. Only(p, k + 1, Len(p), "StopSendingOps")
      BY <1>1, <2>1, <2>2 DEF Only
    <2> QED BY <2>3, <2>4
  <1>4. ASSUME NEW j \in 1..Len(r), r[j].type = "Snapshot"
        PROVE  j = Len(r) /\ sub = NotSubscribed /\ Only(p, 1, Len(p), "StopSendingOps")
    <2>1. j = Len(r) /\ sub = NotSubscribed /\ Only(q, 1, Len(q), "StopSendingOps")
      BY <1>4 DEF Ended, Has
    <2> QED BY <2>1, LongerParts
  <1> QED BY <1>2, <1>3, <1>4 DEF Ended

\* asks for the document,
LEMMA EndedRequest ==
    ASSUME NEW p, NEW q, NEW m, Longer(p, q, m), NEW sub, NEW r, m.type = "RequestFile",
           Ended(sub, q, r), ~Has(q, "RequestFile"), ~Has(r, "Snapshot")
    PROVE  Ended(sub, p, r)
  <1>1. /\ Len(q) \in Nat /\ Len(p) = Len(q) + 1 /\ p[Len(q) + 1] = m
        /\ \A k \in 1..Len(q) : p[k] = q[k]
    BY DEF Longer
  <1>2. Ends(sub, p, Len(q) + 1)
    <2>1. Ends(sub, q, Len(q) + 1) /\ Len(q) + 1 \in 1..(Len(q) + 1)
      BY <1>1 DEF Ended
    <2> QED BY <2>1, LongerParts
  <1>3. Ends(sub, p, Len(p) + 1)
    <2>1. \A i \in 1..((Len(p) + 1) - 1) : p[i].type = "RequestOps" => i \in 1..((Len(q) + 1) - 1)
      BY <1>1
    <2>2. \A i \in Nat : (i + 1)..((Len(q) + 1) - 1) \subseteq (i + 1)..((Len(p) + 1) - 1)
      BY <1>1
    <2>3. 1..((Len(q) + 1) - 1) \subseteq 1..((Len(p) + 1) - 1)
      BY <1>1
    <2> QED BY <1>2, <2>1, <2>2, <2>3 DEF Ends
  <1>4. ASSUME NEW k \in 1..Len(p), p[k].type = "RequestFile"
        PROVE  Ends(sub, p, k) /\ Only(p, k + 1, Len(p), "StopSendingOps")
    <2>1. k = Len(q) + 1
      BY <1>1, <1>4 DEF Has
    <2>2. \A j \in (k + 1)..Len(p) : FALSE
      BY <1>1, <2>1
    <2> QED BY <1>2, <2>1, <2>2 DEF Only
  <1> QED BY <1>3, <1>4 DEF Ended, Has

\* and takes a message; or the owner sends it one that is no Snapshot.
LEMMA EndedOther ==
    ASSUME NEW sub, NEW q, NEW r, Ended(sub, q, r), NEW s, Shorter(s, r) \/ ~Has(s, "Snapshot")
    PROVE  Ended(sub, q, s)
  <1>1. CASE ~Has(s, "Snapshot")
    BY <1>1 DEF Ended, Has
  <1>2. CASE Shorter(s, r)
    <2>1. /\ Len(r) \in Nat \ {0} /\ Len(s) = Len(r) - 1
          /\ \A k \in 1..Len(s) : s[k] = r[k + 1]
      BY <1>2 DEF Shorter
    <2>2. ASSUME NEW j \in 1..Len(s), s[j].type = "Snapshot"
          PROVE  j = Len(s) /\ sub = NotSubscribed /\ Only(q, 1, Len(q), "StopSendingOps")
      <3>1. j + 1 \in 1..Len(r) /\ r[j + 1].type = "Snapshot"
        BY <2>1, <2>2
      <3>2. j + 1 = Len(r) /\ sub = NotSubscribed /\ Only(q, 1, Len(q), "StopSendingOps")
        BY <3>1 DEF Ended
      <3> QED BY <2>1, <3>2
    <2> QED BY <2>2 DEF Ended
  <1> QED BY <1>1, <1>2

\* The owner takes the first message of the client,
LEMMA EndedTaken ==
    ASSUME NEW p, NEW q, Shorter(p, q), NEW sub, NEW new, NEW r, Ended(sub, q, r),
           \/ q[1].type = "StopSendingOps" /\ new = NotSubscribed
           \/ q[1].type = "RequestOps"
           \/ q[1].type \notin {"StopSendingOps", "RequestOps"}
                /\ (new # NotSubscribed => sub # NotSubscribed)
    PROVE  /\ Ended(new, p, r)
           /\ q[1].type # "StopSendingOps" => ~Has(r, "Snapshot")
  <1>1. /\ Len(q) \in Nat \ {0} /\ Len(p) = Len(q) - 1
        /\ \A j \in 1..Len(p) : p[j] = q[j + 1]
    BY DEF Shorter
  <1>2. Ends(new, p, Len(p) + 1)
    <2>1. /\ Len(q) + 1 \in 2..(Len(q) + 1) /\ Ends(sub, q, Len(q) + 1)
          /\ Len(p) + 1 = (Len(q) + 1) - 1
      BY <1>1 DEF Ended
    <2>2. Ends(new, p, (Len(q) + 1) - 1)
      BY <2>1, ShorterEnds
    <2> QED BY <2>1, <2>2
  <1>3. ASSUME NEW k \in 1..Len(p), p[k].type = "RequestFile"
        PROVE  Ends(new, p, k) /\ Only(p, k + 1, Len(p), "StopSendingOps")
    <2>1. k + 1 \in 1..Len(q) /\ k + 1 \in 2..(Len(q) + 1) /\ q[k + 1].type = "RequestFile"
          /\ (k + 1) - 1 = k /\ (k + 1) + 1 \in 2..(Len(q) + 1) /\ ((k + 1) + 1) - 1 = k + 1
      BY <1>1, <1>3
    <2>2. Ends(sub, q, k + 1) /\ Only(q, (k + 1) + 1, Len(q), "StopSendingOps")
      BY <2>1 DEF Ended
    <2>3. Ends(new, p, (k + 1) - 1)
      BY <2>1, <2>2, ShorterEnds
    <2>4. Only(p, ((k + 1) + 1) - 1, Len(p), "StopSendingOps")
      BY <2>1, <2>2, ShorterParts
    <2> QED BY <2>1, <2>3, <2>4
  <1>4. ASSUME NEW j \in 1..Len(r), r[j].type = "Snapshot"
        PROVE  /\ q[1].type = "StopSendingOps" /\ j = Len(r) /\ new = NotSubscribed
               /\ Only(p, 1, Len(p), "StopSendingOps")
    <2>1. j = Len(r) /\ sub = NotSubscribed /\ Only(q, 1, Len(q), "StopSendingOps")
      BY <1>4 DEF Ended
    <2>2. q[1].type = "StopSendingOps"
      BY <1>1, <2>1 DEF Only
    <2>3. Only(p, 1, Len(p), "StopSendingOps")
      BY <1>1, <2>1 DEF Only
    <2> QED BY <2>1, <2>2, <2>3
  <1> QED BY <1>2, <1>3, <1>4 DEF Ended, Has

\* and answers its RequestFile.
LEMMA EndedAnswer ==
    ASSUME NEW p, NEW q, Shorter(p, q), NEW sub, NEW r, Ended(sub, q, r),
           q[1].type = "RequestFile", NEW s, NEW m, Longer(s, r, m), m.type = "Snapshot"
    PROVE  Ended(sub, p, s) /\ sub = NotSubscribed
  <1>1. Ended(sub, p, r) /\ ~Has(r, "Snapshot")
    BY EndedTaken
  <1>2. /\ Len(q) \in Nat \ {0} /\ Len(p) = Len(q) - 1
        /\ \A j \in 1..Len(p) : p[j] = q[j + 1]
    BY DEF Shorter
  <1>3. /\ Len(r) \in Nat /\ Len(s) = Len(r) + 1 /\ s[Len(r) + 1] = m
        /\ \A k \in 1..Len(r) : s[k] = r[k]
    BY DEF Longer
  <1>4. Ends(sub, q, 1) /\ Only(q, 1 + 1, Len(q), "StopSendingOps")
    BY <1>2 DEF Ended
  <1>5. sub = NotSubscribed
    BY <1>4 DEF Ends
  <1>6. Only(p, 1, Len(p), "StopSendingOps")
    BY <1>2, <1>4 DEF Only
  <1>7. ASSUME NEW j \in 1..Len(s), s[j].type = "Snapshot" PROVE j = Len(s)
    BY <1>1, <1>3, <1>7 DEF Has
  <1> QED BY <1>1, <1>5, <1>6, <1>7 DEF Ended

\* Site seqs: a message that is no batch, and a batch that is sent when no
\* other is under way.
LEMMA NextSeqsMore ==
    ASSUME NEW p, NEW q, NEW m, Longer(p, q, m), NEW sub, NextSeqs(sub, q),
           m.type = "OpFromClient" =>
             IF Has(q, "RequestOps") THEN m.ops[1].seq = 1
             ELSE sub = NotSubscribed \/ m.ops[1].seq = sub + 1
    PROVE  NextSeqs(sub, p)
  <1>1. /\ Len(q) \in Nat /\ Len(p) = Len(q) + 1 /\ p[Len(q) + 1] = m
        /\ \A k \in 1..Len(q) : p[k] = q[k]
    BY DEF Longer
  <1> SUFFICES ASSUME NEW i \in 1..Len(p), p[i].type = "OpFromClient"
               PROVE  IF \E k \in 1..(i - 1) : p[k].type = "RequestOps" THEN p[i].ops[1].seq = 1
                      ELSE sub = NotSubscribed \/ p[i].ops[1].seq = sub + 1
    BY DEF NextSeqs
  <1>2. (\E k \in 1..(i - 1) : p[k].type = "RequestOps")
          <=> (\E k \in 1..(i - 1) : q[k].type = "RequestOps")
    BY <1>1
  <1>3. CASE i \in 1..Len(q)
    BY <1>1, <1>2, <1>3 DEF NextSeqs
  <1>4. CASE i = Len(q) + 1
    <2>1. (\E k \in 1..(i - 1) : q[k].type = "RequestOps") <=> Has(q, "RequestOps")
      BY <1>1, <1>4 DEF Has
    <2> QED BY <1>1, <1>2, <1>4, <2>1
  <1> QED BY <1>1, <1>3, <1>4

LEMMA LastSeqsSent ==
    ASSUME NEW p, NEW q, NEW m, Longer(p, q, m), m.type = "OpFromClient",
           ~Has(q, "OpFromClient"), NEW sub
    PROVE  LastSeqs(sub, p, LastSeq(m.ops))
  <1>1. /\ Len(q) \in Nat /\ Len(p) = Len(q) + 1 /\ p[Len(q) + 1] = m
        /\ \A k \in 1..Len(q) : p[k] = q[k]
    BY DEF Longer
  <1>2. Has(p, "OpFromClient")
    BY LongerParts
  <1>3. \A i \in 1..Len(p) : p[i].type = "OpFromClient" => LastSeq(p[i].ops) = LastSeq(m.ops)
    BY <1>1 DEF Has
  <1> QED BY <1>2, <1>3 DEF LastSeqs

\* The owner takes a message; what it expects then is "new".
LEMMA NextSeqsTaken ==
    ASSUME NEW p, NEW q, Shorter(p, q), NEW sub, NEW new, NextSeqs(sub, q),
           \/ q[1].type = "StopSendingOps" /\ new = NotSubscribed
           \/ q[1].type = "RequestFile" /\ new = sub
           \/ q[1].type = "RequestOps" /\ new = 0
           \/ q[1].type = "OpFromClient" /\ OneBatch(q)
    PROVE  NextSeqs(new, p)
  <1>1. /\ Len(q) \in Nat \ {0} /\ Len(p) = Len(q) - 1
        /\ \A j \in 1..Len(p) : p[j] = q[j + 1]
    BY DEF Shorter
  <1>2. \A j \in 2..Len(q) : j - 1 \in 1..Len(p) /\ p[j - 1] = q[j]
    BY <1>1
  <1> SUFFICES ASSUME NEW i \in 1..Len(p), p[i].type = "OpFromClient"
               PROVE  IF \E k \in 1..(i - 1) : p[k].type = "RequestOps" THEN p[i].ops[1].seq = 1
                      ELSE new = NotSubscribed \/ p[i].ops[1].seq = new + 1
    BY DEF NextSeqs
  <1>3. i + 1 \in 1..Len(q) /\ i + 1 # 1 /\ q[i + 1] = p[i] /\ (i + 1) - 1 = i
    BY <1>1
  <1>4. IF \E k \in 1..i : q[k].type = "RequestOps" THEN p[i].ops[1].seq = 1
        ELSE sub = NotSubscribed \/ p[i].ops[1].seq = sub + 1
    BY <1>3 DEF NextSeqs
  <1>5. (\E k \in 1..(i - 1) : p[k].type = "RequestOps") => \E k \in 1..i : q[k].type = "RequestOps"
    <2> SUFFICES ASSUME NEW k \in 1..(i - 1), p[k].type = "RequestOps"
                 PROVE  \E l \in 1..i : q[l].type = "RequestOps"
      OBVIOUS
    <2>1. k + 1 \in 1..i /\ q[k + 1].type = "RequestOps"
      BY <1>1
    <2> QED BY <2>1
  <1>6. CASE q[1].type = "StopSendingOps" /\ new = NotSubscribed
    BY <1>4, <1>5, <1>6
  <1>7. CASE q[1].type = "RequestFile" /\ new = sub
    <2>1. (\E k \in 1..i : q[k].type = "RequestOps")
            => \E k \in 1..(i - 1) : p[k].type = "RequestOps"
      <3> SUFFICES ASSUME NEW k \in 1..i, q[k].type = "RequestOps"
                   PROVE  \E l \in 1..(i - 1) : p[l].type = "RequestOps"
        OBVIOUS
      <3>1. k # 1
        BY <1>7
      <3>2. k - 1 \in 1..(i - 1) /\ p[k - 1].type = "RequestOps"
        BY <1>1, <1>2, <3>1
      <3> QED BY <3>2
    <2> QED BY <1>4, <1>5, <1>7, <2>1
  <1>8. CASE q[1].type = "RequestOps" /\ new = 0
    <2>1. 1 \in 1..i
      BY <1>1
    <2>2. p[i].ops[1].seq = 1
      BY <1>4, <1>8, <2>1
    <2> QED BY <1>8, <2>2
  <1>9. CASE q[1].type = "OpFromClient" /\ OneBatch(q)
    <2>1. 1 \in 1..Len(q) /\ q[i + 1].type = "OpFromClient"
      BY <1>1, <1>3
    <2> QED BY <1>3, <1>9, <2>1 DEF OneBatch
  <1> QED BY <1>6, <1>7, <1>8, <1>9

\* The same for the last one it has got: when the document is open, a
\* StopSendingOps has a RequestOps behind it, a RequestOps and a batch have not.
LEMMA LastSeqsTaken ==
    ASSUME NEW p, NEW q, Shorter(p, q), NEW sub, NEW new, NEW sent, LastSeqs(sub, q, sent),
           \/ q[1].type = "StopSendingOps" /\ Has(p, "RequestOps")
           \/ q[1].type = "RequestOps" /\ new = 0 /\ ~Has(p, "RequestOps")
           \/ /\ q[1].type = "OpFromClient" /\ OneBatch(q) /\ ~Has(p, "RequestOps")
              /\ new = LastSeq(q[1].ops)
    PROVE  LastSeqs(new, p, sent)
  <1>1. /\ Len(q) \in Nat \ {0} /\ Len(p) = Len(q) - 1
        /\ \A j \in 1..Len(p) : p[j] = q[j + 1]
    BY DEF Shorter
  <1>2. ASSUME Has(p, "OpFromClient")
        PROVE  \A i \in 1..Len(p) : p[i].type = "OpFromClient" => LastSeq(p[i].ops) = sent
    <2>1. Has(q, "OpFromClient")
      BY <1>2, ShorterParts
    <2>2. \A i \in 1..Len(p) : i + 1 \in 1..Len(q) /\ p[i] = q[i + 1]
      BY <1>1
    <2> QED BY <2>1, <2>2 DEF LastSeqs
  <1>3. ASSUME ~Has(p, "OpFromClient"), q[1].type # "OpFromClient"
        PROVE  sent = IF Has(p, "RequestOps") THEN 0 ELSE new
    <2>1. ~Has(q, "OpFromClient")
      BY <1>3, ShorterParts
    <2>2. sent = IF Has(q, "RequestOps") THEN 0 ELSE sub
      BY <2>1 DEF LastSeqs
    <2>3. Has(q, "RequestOps")
      <3>1. 1 \in 1..Len(q)
        BY <1>1
      <3>2. q[1].type = "RequestOps" => Has(q, "RequestOps")
        BY <3>1 DEF Has
      <3> QED BY <1>3, <3>2, ShorterParts
    <2> QED BY <1>3, <2>2, <2>3
  <1>4. ASSUME ~Has(p, "OpFromClient"), q[1].type = "OpFromClient"
        PROVE  sent = IF Has(p, "RequestOps") THEN 0 ELSE new
    <2>1. 1 \in 1..Len(q)
      BY <1>1
    <2>2. Has(q, "OpFromClient")
      BY <1>4, <2>1 DEF Has
    <2>3. sent = LastSeq(q[1].ops)
      BY <1>4, <2>1, <2>2 DEF LastSeqs
    <2> QED BY <1>4, <2>3
  <1> QED BY <1>2, <1>3, <1>4 DEF LastSeqs

\* RequestOps: one is sent, one waits, one is handled.
LEMMA AsksNow ==
    ASSUME NEW p, NEW q, NEW m, Longer(p, q, m), NEW seq,
           m = [type |-> "RequestOps", after |-> seq], Only(q, 1, Len(q), "StopSendingOps")
    PROVE  AsksFor(p, seq)
  <1>1. /\ Len(q) \in Nat /\ Len(p) = Len(q) + 1 /\ p[Len(q) + 1] = m
        /\ \A k \in 1..Len(q) : p[k] = q[k]
    BY DEF Longer
  <1>2. Len(q) + 1 \in 1..Len(p) /\ (Len(q) + 1) - 1 = Len(q)
    BY <1>1
  <1>3. Only(p, 1, Len(q), "StopSendingOps") /\ Only(p, (Len(q) + 1) + 1, Len(p), "OpFromClient")
    BY <1>1 DEF Only
  <1> QED BY <1>1, <1>2, <1>3 DEF AsksFor

LEMMA AsksStill ==
    ASSUME NEW p, NEW q, NEW m, Longer(p, q, m), NEW seq, m.type = "OpFromClient", AsksFor(q, seq)
    PROVE  AsksFor(p, seq)
  <1>1. /\ Len(q) \in Nat /\ Len(p) = Len(q) + 1 /\ p[Len(q) + 1] = m
        /\ \A k \in 1..Len(q) : p[k] = q[k]
    BY DEF Longer
  <1>2. PICK k \in 1..Len(q) : /\ q[k] = [type |-> "RequestOps", after |-> seq]
                               /\ Only(q, 1, k - 1, "StopSendingOps")
                               /\ Only(q, k + 1, Len(q), "OpFromClient")
    BY DEF AsksFor
  <1>3. k \in 1..Len(p) /\ p[k] = q[k]
    BY <1>1
  <1>4. Only(p, 1, k - 1, "StopSendingOps")
    BY <1>1, <1>2 DEF Only
  <1>5. ASSUME NEW j \in (k + 1)..Len(p) PROVE p[j].type = "OpFromClient"
    <2>1. j \in (k + 1)..Len(q) \/ j = Len(q) + 1
      BY <1>1
    <2> QED BY <1>1, <1>2, <2>1 DEF Only
  <1> QED BY <1>2, <1>3, <1>4, <1>5 DEF AsksFor, Only

LEMMA AsksTaken ==
    ASSUME NEW p, NEW q, Shorter(p, q), NEW seq, AsksFor(q, seq)
    PROVE  \/ q[1].type = "StopSendingOps" /\ AsksFor(p, seq)
           \/ /\ q[1] = [type |-> "RequestOps", after |-> seq]
              /\ Only(p, 1, Len(p), "OpFromClient")
  <1>1. /\ Len(q) \in Nat \ {0} /\ Len(p) = Len(q) - 1
        /\ \A j \in 1..Len(p) : p[j] = q[j + 1]
    BY DEF Shorter
  <1>2. PICK k \in 1..Len(q) : /\ q[k] = [type |-> "RequestOps", after |-> seq]
                               /\ Only(q, 1, k - 1, "StopSendingOps")
                               /\ Only(q, k + 1, Len(q), "OpFromClient")
    BY DEF AsksFor
  <1>3. Only(p, (k + 1) - 1, Len(p), "OpFromClient")
    <2>1. k + 1 \in 2..(Len(q) + 1)
      BY <1>1
    <2> QED BY <1>2, <2>1, ShorterParts
  <1>4. CASE k = 1
    BY <1>2, <1>3, <1>4
  <1>5. CASE k # 1
    <2>1. k - 1 \in 1..Len(p) /\ p[k - 1] = q[k] /\ (k - 1) + 1 = k /\ (k + 1) - 1 = k
      BY <1>1, <1>5
    <2>2. q[1].type = "StopSendingOps"
      BY <1>2, <1>5 DEF Only
    <2>3. ASSUME NEW j \in 1..((k - 1) - 1) PROVE p[j].type = "StopSendingOps"
      <3>1. j + 1 \in 1..(k - 1) /\ j \in 1..Len(p)
        BY <1>1
      <3> QED BY <1>1, <1>2, <3>1 DEF Only
    <2>4. Only(p, (k - 1) + 1, Len(p), "OpFromClient")
      BY <1>3, <2>1
    <2>5. AsksFor(p, seq)
      BY <1>2, <2>1, <2>3, <2>4 DEF AsksFor, Only
    <2> QED BY <2>2, <2>5
  <1> QED BY <1>4, <1>5

LEMMA AsksParts ==
    ASSUME NEW q, NEW seq, AsksFor(q, seq), Len(q) \in Nat
    PROVE  Has(q, "RequestOps") /\ ~Has(q, "RequestFile")
  <1>1. PICK k \in 1..Len(q) : /\ q[k] = [type |-> "RequestOps", after |-> seq]
                               /\ Only(q, 1, k - 1, "StopSendingOps")
                               /\ Only(q, k + 1, Len(q), "OpFromClient")
    BY DEF AsksFor
  <1>2. Has(q, "RequestOps")
    BY <1>1 DEF Has
  <1>3. ASSUME NEW i \in 1..Len(q), q[i].type = "RequestFile" PROVE FALSE
    <2>1. i \in 1..(k - 1) \/ i = k \/ i \in (k + 1)..Len(q)
      OBVIOUS
    <2> QED BY <1>1, <1>3, <2>1 DEF Only
  <1> QED BY <1>2, <1>3 DEF Has

LEMMA OnlyParts ==
    ASSUME NEW q, NEW type, Only(q, 1, Len(q), type)
    PROVE  \A t : t # type => ~Has(q, t)
  BY DEF Only, Has

LEMMA OnlyShorter ==
    ASSUME NEW p, NEW q, Shorter(p, q), NEW type, Only(q, 1, Len(q), type)
    PROVE  Only(p, 1, Len(p), type)
  <1>1. \A k \in 1..Len(p) : k + 1 \in 1..Len(q) /\ p[k] = q[k + 1]
    BY DEF Shorter
  <1> QED BY <1>1 DEF Only

\* A subscriber is sent ops that enter the history.
LEMMA BringsOps ==
    ASSUME NEW r, NEW q, NEW m, Longer(r, q, m), NEW h \in Seq(Op), NEW t \in Seq(Op),
           NEW from \in Nat, Brings(q, from, Len(h)),
           m = [type |-> "OpFromServer", first |-> Len(h) + 1, ops |-> t]
    PROVE  Brings(r, from, Len(h \o t))
  <1>1. Len(h) \in Nat /\ Len(t) \in Nat /\ Len(h \o t) = Len(h) + Len(t)
    BY ConcatProperties, LenProperties
  <1>2. m.type = "OpFromServer" /\ m.first = Len(h) + 1 /\ m.ops = t
    OBVIOUS
  <1>3. Brings(r, from, Len(h) + Len(m.ops))
    BY <1>1, <1>2, BringsMore
  <1> QED BY <1>1, <1>2, <1>3

LEMMA SortedMore ==
    ASSUME NEW r, NEW q, NEW m, Longer(r, q, m), NEW c, Sorted(c, m.ops),
           \A j \in 1..Len(q) : Sorted(c, q[j].ops)
    PROVE  \A j \in 1..Len(r) : Sorted(c, r[j].ops)
  <1>1. /\ Len(q) \in Nat /\ Len(r) = Len(q) + 1 /\ r[Len(q) + 1] = m
        /\ \A k \in 1..Len(q) : r[k] = q[k]
    BY DEF Longer
  <1>2. ASSUME NEW j \in 1..Len(r) PROVE Sorted(c, r[j].ops)
    <2>1. j \in 1..Len(q) \/ j = Len(q) + 1
      BY <1>1
    <2> QED BY <1>1, <2>1
  <1> QED BY <1>2

\* The queue to a client when ops are sent to the hosts in subs.
LEMMA ToldOps ==
    ASSUME TypeInv, NEW c \in Clients, up[c], NEW subs, NEW t \in Seq(Op),
           toClient'[c] = Sent(toClient, c, Broadcast(subs, t)[c]),
           NEW m, m = [type |-> "OpFromServer", first |-> Len(history) + 1, ops |-> t]
    PROVE  /\ m \in ClientMsg
           /\ subs[c] # NotSubscribed => Longer(toClient'[c], toClient[c], m)
           /\ subs[c] = NotSubscribed => toClient'[c] = toClient[c]
  <1>1. toClient[c] \in Seq(ClientMsg) /\ m \in ClientMsg
    <2>1. Len(history) + 1 \in Nat
      BY LenProperties DEF TypeInv, ServerType
    <2> QED BY <2>1, MessageTypes DEF TypeInv, NetType
  <1>2. toClient'[c] = toClient[c] \o Broadcast(subs, t)[c]
    BY DEF Sent
  <1>3. Broadcast(subs, t)[c] = IF subs[c] # NotSubscribed THEN <<m>> ELSE << >>
    BY DEF Broadcast
  <1>4. toClient[c] \o << >> = toClient[c]
    BY <1>1, EmptySeq, ConcatProperties
  <1> QED BY <1>1, <1>2, <1>3, <1>4, JoinedIsLonger

-----------------------------------------------------------------------------
(* Steps that leave the client's own state as it is *)

Still(c) ==
    /\ isOpen'[c] = isOpen[c] /\ base'[c] = base[c] /\ global'[c] = global[c]
    /\ buffer'[c] = buffer[c] /\ notified'[c] = notified[c] /\ lastSent'[c] = lastSent[c]
    /\ opens'[c] = opens[c] /\ up'[c] = up[c]

LEMMA OpeningHas ==
    ASSUME NEW c \in Clients
    PROVE  /\ Opening(c) <=> Has(toServer[c], "RequestFile") \/ Has(toClient[c], "Snapshot")
           /\ Opening(c)' <=> Has(toServer'[c], "RequestFile") \/ Has(toClient'[c], "Snapshot")
  BY DEF Opening, Has

LEMMA SameSteady ==
    ASSUME NEW c \in Clients, SteadyInv(c), Still(c), history' = history,
           subscribers'[c] = subscribers[c], toServer'[c] = toServer[c], toClient'[c] = toClient[c]
    PROVE  SteadyInv(c)'
  <1>1. Received(c)' = Received(c) /\ (Opening(c)' <=> Opening(c))
    BY OpeningHas DEF Still, Received, CurrentSeq
  <1>2. up'[c] /\ NoFatal(c)' /\ Announced(c)' /\ LocalInv(c)' /\ ClosedInv(c)'
    BY <1>1 DEF Still, SteadyInv, NoFatal, Announced, LocalInv, ClosedInv
  <1>3. SeqInv(c)'
    BY DEF Still, SteadyInv, SeqInv
  <1>4. OpenInv(c)'
    BY <1>1 DEF Still, SteadyInv, OpenInv
  <1> QED BY <1>2, <1>3, <1>4 DEF SteadyInv

\* Ops of others enter the history and go to the subscribers.
LEMMA GrowsSteady ==
    ASSUME TypeInv, NEW c \in Clients, SteadyInv(c), Still(c), NEW t \in Seq(Op),
           history' = history \o t, \A k \in 1..Len(t) : t[k].site # c,
           subscribers'[c] = subscribers[c], toServer'[c] = toServer[c],
           NEW subs, subs[c] = subscribers[c],
           toClient'[c] = Sent(toClient, c, Broadcast(subs, t)[c])
    PROVE  SteadyInv(c)'
  <1> DEFINE r == toClient[c]
             s == toClient'[c]
  <1>1. Received(c)' = Received(c)
    BY DEF Still, Received, CurrentSeq
  <1>2. /\ history \in Seq(Op) /\ base[c] \in Nat /\ Received(c) \in Nat
    <2>1. base[c] \in Nat /\ Len(global[c]) \in Nat /\ Len(buffer[c]) \in Nat
      BY LenProperties DEF TypeInv, ClientType, EngineType
    <2> QED BY <2>1 DEF TypeInv, ServerType, Received, CurrentSeq
  <1>3. PICK m : m = [type |-> "OpFromServer", first |-> Len(history) + 1, ops |-> t]
    OBVIOUS
  <1>4. /\ subscribers[c] # NotSubscribed => Longer(s, r, m)
        /\ subscribers[c] = NotSubscribed => s = r
    BY <1>3, ToldOps DEF SteadyInv
  <1>5. Sorted(c, m.ops)
    <2>1. Len(t) \in Nat
      BY LenProperties
    <2>2. 1 \in 1..Len(t) \/ \A k \in 1..Len(t) : FALSE
      BY <2>1
    <2> QED BY <1>3, <2>2 DEF Sorted
  <1>6. m.type = "OpFromServer"
    BY <1>3
  <1> HIDE DEF s
  <1>7. \A type \in {"DocFatal", "Snapshot"} : Has(s, type) => Has(r, type)
    BY <1>4, <1>6, LongerParts
  <1>8. up'[c] /\ NoFatal(c)' /\ Announced(c)' /\ SeqInv(c)'
    BY <1>7 DEF Still, SteadyInv, NoFatal, Announced, SeqInv, s
  <1>9. OpenInv(c)'
    <2> SUFFICES ASSUME isOpen[c]
                 PROVE  /\ \/ /\ subscribers[c] # NotSubscribed
                              /\ Only(toServer[c], 1, Len(toServer[c]), "OpFromClient")
                              /\ Brings(s, Received(c), Len(history \o t))
                           \/ /\ subscribers[c] = NotSubscribed /\ s = << >>
                              /\ Received(c) = base[c]
                              /\ \A i \in (base[c] + 1)..Len(history \o t) :
                                   (history \o t)[i].site # c
                              /\ AsksFor(toServer[c], base[c])
                        /\ \A j \in 1..Len(s) : Sorted(c, s[j].ops)
      BY <1>1 DEF OpenInv, Still, s
    <2>1. /\ \/ /\ subscribers[c] # NotSubscribed
                /\ Only(toServer[c], 1, Len(toServer[c]), "OpFromClient")
                /\ Brings(r, Received(c), Len(history))
             \/ /\ subscribers[c] = NotSubscribed /\ r = << >> /\ Received(c) = base[c]
                /\ \A i \in (base[c] + 1)..Len(history) : history[i].site # c
                /\ AsksFor(toServer[c], base[c])
          /\ \A j \in 1..Len(r) : Sorted(c, r[j].ops)
      BY DEF SteadyInv, OpenInv
    <2> HIDE DEF r
    <2>2. CASE subscribers[c] # NotSubscribed
      <3>1. Brings(s, Received(c), Len(history \o t))
        BY <1>2, <1>3, <1>4, <2>1, <2>2, BringsOps
      <3>2. \A j \in 1..Len(s) : Sorted(c, s[j].ops)
        BY <1>4, <1>5, <2>1, <2>2, SortedMore
      <3> QED BY <2>1, <2>2, <3>1, <3>2
    <2>3. CASE subscribers[c] = NotSubscribed
      <3>1. \A i \in (base[c] + 1)..Len(history \o t) : (history \o t)[i].site # c
        BY <1>2, <2>1, <2>3, NoneAppended
      <3> QED BY <1>4, <2>1, <2>3, <3>1
    <2> QED BY <2>2, <2>3
  <1>10. ClosedInv(c)'
    <2> SUFFICES ASSUME isOpen[c] = FALSE
                 PROVE  Ended(subscribers[c], toServer[c], s)
      BY DEF ClosedInv, Still, s
    <2>1. Ended(subscribers[c], toServer[c], r)
      BY DEF SteadyInv, ClosedInv
    <2>2. subscribers[c] # NotSubscribed => ~Has(r, "Snapshot")
      BY <2>1 DEF Ended, Has
    <2> QED BY <1>4, <1>7, <2>1, <2>2, EndedOther
  <1>11. LocalInv(c)'
    <2> SUFFICES ASSUME c \in Local PROVE LocalInv(c)'
      BY DEF LocalInv
    <2>1. ~Opening(c)'
      BY <1>7, OpeningHas DEF SteadyInv, LocalInv, s
    <2> QED BY <1>4, <2>1 DEF SteadyInv, LocalInv, Still, s
  <1> QED BY <1>8, <1>9, <1>10, <1>11 DEF SteadyInv

-----------------------------------------------------------------------------
(* Steps of the editor *)

LEMMA SteadyApart ==
    ASSUME Steady, NEW c \in Clients, ApartInv(c)
    PROVE  /\ AsksOnce(c)
           /\ c \notin Local => InTurn(c)
           /\ c \in Local => OneSession(c)
  BY DEF Steady, ApartInv, OpenedInTurn, InTurn, OneSession

LEMMA SentIsLonger ==
    ASSUME TypeInv, NEW c \in Clients, up[c], NEW m \in BatchMsg, ToServer(c, <<m>>)
    PROVE  Longer(toServer'[c], toServer[c], m)
  <1>1. toServer[c] \in Seq(BatchMsg) /\ <<m>> \in Seq(BatchMsg)
    BY DEF TypeInv, NetType
  <1>2. toServer'[c] = toServer[c] \o <<m>>
    BY <1>1, ToServerQueues
  <1> QED BY <1>1, <1>2, JoinedIsLonger

LEMMA OpenFileSteady ==
    ASSUME TypeInv, Steady, NEW c \in Clients, ApartInv(c), SteadyInv(c), OpenFile(c)
    PROVE  SteadyInv(c)'
  <1> DEFINE q == toServer[c]
             p == toServer'[c]
  <1>1. PICK m \in BatchMsg : m = [type |-> "RequestFile"]
    BY MessageTypes
  <1>2. /\ c \notin Local /\ isOpen[c] = FALSE /\ isOpen' = isOpen /\ ~Opening(c)
        /\ subscribers' = subscribers /\ toClient' = toClient /\ up' = up
        /\ buffer' = buffer /\ notified' = notified
        /\ ToServer(c, <<m>>)
    BY <1>1 DEF OpenFile, Steady, serverVars, clientVars, TypeInv, ClientType
  <1>3. Longer(p, q, m)
    BY <1>2, SentIsLonger DEF SteadyInv
  <1>4. m.type = "RequestFile"
    BY <1>1
  <1>5. ~Has(q, "RequestFile") /\ ~Has(toClient[c], "Snapshot")
    BY <1>2, OpeningHas
  <1> HIDE DEF p
  <1>6. Ended(subscribers[c], p, toClient[c])
    <2>1. Ended(subscribers[c], q, toClient[c])
      BY <1>2 DEF SteadyInv, ClosedInv
    <2> QED BY <1>3, <1>4, <1>5, <2>1, EndedRequest
  <1>7. c \in Writers => NextSeqs(subscribers[c], p)
    <2>1. c \in Writers => NextSeqs(subscribers[c], q)
      BY DEF SteadyInv, SeqInv
    <2> QED BY <1>3, <1>4, <2>1, NextSeqsMore
  <1>8. up'[c] /\ NoFatal(c)' /\ Announced(c)' /\ LocalInv(c)' /\ OpenInv(c)'
    BY <1>2 DEF SteadyInv, NoFatal, Announced, LocalInv, OpenInv
  <1> QED BY <1>2, <1>6, <1>7, <1>8 DEF SteadyInv, ClosedInv, SeqInv, p

LEMMA OpenLocalSteady ==
    ASSUME TypeInv, Steady, NEW c \in Clients, ApartInv(c), SteadyInv(c), OpenLocalFile(c)
    PROVE  SteadyInv(c)'
  <1>1. c \in Local /\ opens[c] = 0 /\ opens'[c] # 0
    <2>1. c \in Local /\ opens[c] < MaxOpens[c] /\ opens' = [opens EXCEPT ![c] = @ + 1]
      BY DEF OpenLocalFile
    <2>2. opens \in [Clients -> Nat] /\ opens[c] \in Nat /\ MaxOpens[c] \in Nat
      BY BoundAssumption DEF TypeInv, BoundType
    <2>3. MaxOpens[c] <= 1
      BY <2>1 DEF Steady, OpenedOnce
    <2> QED BY <2>1, <2>2, <2>3
  <1>2. PICK r : r = << >> /\ Len(r) = 0
    BY EmptySeq
  <1>3. /\ isOpen[c] = FALSE /\ toServer[c] = r /\ toClient[c] = r
        /\ subscribers[c] = NotSubscribed /\ ~Opening(c)
    BY <1>1, <1>2 DEF SteadyInv, LocalInv
  <1>4. /\ subscribers'[c] = 0 /\ isOpen'[c] = TRUE /\ history' = history
        /\ toServer'[c] = r /\ toClient'[c] = r /\ up'[c] = up[c]
        /\ base'[c] = Len(history) /\ lastSent'[c] = 0 /\ global'[c] = r /\ buffer'[c] = r
    BY <1>2, <1>3 DEF OpenLocalFile, NewRemoteDoc, netVars, TypeInv, ServerType, ClientType,
                      EngineType
  <1>5. \A k \in 1..Len(r) : FALSE
    BY <1>2
  <1>6. Len(history) \in Nat
    BY LenProperties DEF TypeInv, ServerType
  <1>7. Received(c)' = Len(history)
    BY <1>2, <1>4, <1>6 DEF Received, CurrentSeq
  <1>8. Brings(r, Len(history), Len(history))
    BY <1>2, <1>6, BringsNothing
  <1>9. NotSubscribed # 0
    BY DEF NotSubscribed
  <1>10. OpenInv(c)'
    BY <1>4, <1>5, <1>7, <1>8, <1>9 DEF OpenInv, Only
  <1>11. SeqInv(c)'
    BY <1>4, <1>5 DEF SeqInv, NextSeqs, LastSeqs, Has
  <1>12. LocalInv(c)'
    BY <1>1, <1>4, <1>5, OpeningHas DEF LocalInv, Has
  <1>13. up'[c] /\ NoFatal(c)' /\ Announced(c)' /\ ClosedInv(c)'
    BY <1>4, <1>5 DEF SteadyInv, NoFatal, Has, Announced, ClosedInv
  <1> QED BY <1>10, <1>11, <1>12, <1>13 DEF SteadyInv

LEMMA DisconnectSteady ==
    ASSUME TypeInv, Steady, NEW c \in Clients, ApartInv(c), SteadyInv(c), DisconnectFile(c)
    PROVE  SteadyInv(c)'
  <1> DEFINE q == toServer[c]
             p == toServer'[c]
  <1>1. PICK m \in BatchMsg : m = [type |-> "StopSendingOps"]
    BY MessageTypes
  <1>2. /\ isOpen[c] = TRUE /\ isOpen'[c] = FALSE /\ buffer'[c] = << >> /\ opens' = opens
        /\ subscribers' = subscribers /\ toClient' = toClient /\ up' = up
        /\ ToServer(c, <<m>>)
    BY <1>1 DEF DisconnectFile, DropRemoteDoc, serverVars, boundVars, TypeInv, ClientType
  <1>3. Longer(p, q, m)
    BY <1>2, SentIsLonger DEF SteadyInv
  <1>4. m.type = "StopSendingOps"
    BY <1>1
  <1>5. ~Has(q, "RequestFile") /\ ~Has(toClient[c], "Snapshot")
    BY <1>2, SteadyApart, OpeningHas DEF AsksOnce
  <1> HIDE DEF p
  <1>6. Ended(subscribers[c], p, toClient[c])
    BY <1>3, <1>4, <1>5, EndedMore
  <1>7. c \in Writers => NextSeqs(subscribers[c], p)
    <2>1. c \in Writers => NextSeqs(subscribers[c], q)
      BY DEF SteadyInv, SeqInv
    <2> QED BY <1>3, <1>4, <2>1, NextSeqsMore
  <1>8. ~Has(p, "RequestFile")
    BY <1>3, <1>4, <1>5, LongerParts
  <1>9. LocalInv(c)'
    BY <1>2, <1>5, <1>8, OpeningHas DEF SteadyInv, LocalInv, p
  <1>10. up'[c] /\ NoFatal(c)' /\ Announced(c)' /\ OpenInv(c)'
    <2>1. \A k \in 1..Len(buffer'[c]) : FALSE
      BY <1>2, EmptySeq
    <2> QED BY <1>2, <2>1 DEF SteadyInv, NoFatal, Announced, OpenInv
  <1> QED BY <1>2, <1>6, <1>7, <1>9, <1>10 DEF SteadyInv, ClosedInv, SeqInv, p

LEMMA SendSteady ==
    ASSUME TypeInv, LogInv, Steady, NEW c \in Clients, ApartInv(c), SteadyInv(c),
           OneBatch(toServer'[c]), NEW n \in 0..MaxBatch, SendOps(c, n)
    PROVE  SteadyInv(c)'
  <1> DEFINE q == toServer[c]
             p == toServer'[c]
             waiting == NewLocal(c, n)
             rest    == SubSeq(waiting, AckCount(c) + 1, Len(waiting))
             send    == PrevOpAcked(c, rest)
  <1>1. PICK m : m = [type |-> "OpFromClient", context |-> Context(c), ops |-> rest]
    OBVIOUS
  <1>2. rest \in Seq(Op)
    <2>1. n \in Nat /\ AckCount(c) \in Nat
      BY SendParts, AckCountType
    <2> HIDE DEF q, p, send
    <2> QED BY <2>1, PendingRun
  <1>3. /\ isOpen[c] = TRUE /\ isOpen' = isOpen /\ history' = history
        /\ lastSent'[c] = IF send THEN LastSeq(rest) ELSE lastSent[c]
        /\ CurrentSeq(c)' = Context(c)
        /\ p = IF send THEN q \o <<m>> ELSE q
        /\ send => m \in BatchMsg
    BY <1>1, <1>2, SendParts DEF SteadyInv
  <1>4. /\ base' = base /\ toClient' = toClient /\ opens' = opens /\ up' = up
        /\ subscribers' = subscribers /\ buffer'[c] = << >>
    BY DEF SendOps, serverVars, TypeInv, ClientType
  <1>5. send => rest[1].seq = lastSent[c] + 1
    BY DEF PrevOpAcked
  <1>6. m.type = "OpFromClient" /\ m.ops = rest
    BY <1>1
  <1> HIDE DEF p, rest, send, waiting
  <1>7. q \in Seq(BatchMsg)
    BY DEF TypeInv, NetType
  <1>8. send => Longer(p, q, m)
    BY <1>3, <1>7, JoinedIsLonger
  <1>9. Received(c)' = Received(c)
    <2>1. Len(buffer'[c]) = 0 /\ Context(c) \in Nat
      <3>1. base[c] \in Nat /\ Len(global[c]) \in Nat /\ Len(buffer[c]) \in Nat
        BY LenProperties DEF TypeInv, ClientType, EngineType
      <3> QED BY <1>4, <3>1, EmptySeq DEF Context, CurrentSeq
    <2>2. Received(c)' = CurrentSeq(c)' + Len(buffer'[c])
      BY DEF Received
    <2> QED BY <1>3, <2>1, <2>2 DEF Received, Context
  <1>10. ASSUME send PROVE ~Has(q, "OpFromClient")
    <2> SUFFICES ASSUME NEW i \in 1..Len(q), q[i].type = "OpFromClient" PROVE FALSE
      BY DEF Has
    <2>1. /\ Len(q) \in Nat /\ Len(p) = Len(q) + 1 /\ p[Len(q) + 1] = m /\ p[i] = q[i]
      BY <1>8, <1>10 DEF Longer
    <2>2. i \in 1..Len(p) /\ Len(q) + 1 \in 1..Len(p) /\ i # Len(q) + 1
      BY <2>1
    <2> QED BY <1>6, <2>1, <2>2 DEF OneBatch, p
  <1>11. OpenInv(c)'
    <2>1. /\ \/ /\ subscribers[c] # NotSubscribed /\ Only(q, 1, Len(q), "OpFromClient")
                /\ Brings(toClient[c], Received(c), Len(history))
             \/ /\ subscribers[c] = NotSubscribed /\ toClient[c] = << >> /\ Received(c) = base[c]
                /\ \A i \in (base[c] + 1)..Len(history) : history[i].site # c
                /\ AsksFor(q, base[c])
          /\ \A j \in 1..Len(toClient[c]) : Sorted(c, toClient[c][j].ops)
      BY <1>3 DEF SteadyInv, OpenInv
    <2>2. Only(q, 1, Len(q), "OpFromClient") => Only(p, 1, Len(p), "OpFromClient")
      BY <1>3, <1>6, <1>8, LongerParts
    <2>3. AsksFor(q, base[c]) => AsksFor(p, base[c])
      BY <1>3, <1>6, <1>8, AsksStill
    <2> HIDE DEF q
    <2> QED BY <1>3, <1>4, <1>9, <2>1, <2>2, <2>3 DEF OpenInv, p
  <1>12. SeqInv(c)'
    <2> SUFFICES ASSUME c \in Writers
                 PROVE  NextSeqs(subscribers[c], p) /\ LastSeqs(subscribers[c], p, lastSent'[c])
      BY <1>4 DEF SeqInv, p
    <2>1. NextSeqs(subscribers[c], q) /\ LastSeqs(subscribers[c], q, lastSent[c])
      BY <1>3 DEF SteadyInv, SeqInv
    <2>2. CASE ~send
      BY <1>3, <2>1, <2>2
    <2>3. CASE send
      <3>1. lastSent[c] = IF Has(q, "RequestOps") THEN 0 ELSE subscribers[c]
        BY <1>10, <2>1, <2>3 DEF LastSeqs
      <3>2. m.ops[1].seq = lastSent[c] + 1
        BY <1>5, <1>6, <2>3
      <3>3. IF Has(q, "RequestOps") THEN m.ops[1].seq = 1
            ELSE subscribers[c] = NotSubscribed \/ m.ops[1].seq = subscribers[c] + 1
        BY <3>1, <3>2
      <3>4. NextSeqs(subscribers[c], p)
        BY <1>8, <2>1, <2>3, <3>3, NextSeqsMore
      <3>5. LastSeqs(subscribers[c], p, LastSeq(m.ops))
        BY <1>6, <1>8, <1>10, <2>3, LastSeqsSent
      <3> QED BY <1>3, <1>6, <2>3, <3>4, <3>5
    <2> QED BY <2>2, <2>3
  <1>13. LocalInv(c)'
    <2>1. Has(p, "RequestFile") => Has(q, "RequestFile")
      BY <1>3, <1>6, <1>8, LongerParts
    <2>2. c \in Local => ~Opening(c)'
      BY <1>4, <2>1, OpeningHas DEF SteadyInv, LocalInv, p
    <2>3. c \in Local => opens'[c] # 0
      BY <1>3, <1>4 DEF SteadyInv, LocalInv
    <2> QED BY <2>2, <2>3 DEF LocalInv
  <1>14. up'[c] /\ NoFatal(c)' /\ Announced(c)' /\ ClosedInv(c)'
    <2>1. \A k \in 1..Len(buffer'[c]) : FALSE
      BY <1>4, EmptySeq
    <2> QED BY <1>3, <1>4, <2>1 DEF SteadyInv, NoFatal, Announced, ClosedInv
  <1> QED BY <1>11, <1>12, <1>13, <1>14 DEF SteadyInv

\* The acknowledgements fit, so SendOps does not fail.
LEMMA SendNeverFails ==
    ASSUME TypeInv, AcksFit, NEW c \in Clients, NEW n \in 0..MaxBatch
    PROVE  ~SendOpsFails(c, n)
  <1> SUFFICES ASSUME SendOpsFails(c, n) PROVE FALSE
    OBVIOUS
  <1>1. isOpen[c] /\ ~AcksMatch(c, NewLocal(c, n))
    BY DEF SendOpsFails
  <1>2. PICK k \in 1..Len(buffer[c]) :
          /\ buffer[c][k].site = c
          /\ LET a == Cardinality(Acks(c, k))
             IN  ~(a <= Len(NewLocal(c, n)) /\ NewLocal(c, n)[a].seq = buffer[c][k].seq)
    BY <1>1 DEF AcksMatch
  <1> DEFINE a == Cardinality(Acks(c, k))
             new == [j \in 1..n |-> [site |-> c, seq |-> siteSeq[c] + j, session |-> session[c]]]
  <1>3. a <= Len(local[c]) /\ local[c][a].seq = buffer[c][k].seq
    BY <1>1, <1>2 DEF AcksFit, AcksMatch
  <1>4. a \in Nat \ {0}
    <2>1. Len(buffer[c]) \in Nat
      BY LenProperties DEF TypeInv, ClientType
    <2>2. IsFiniteSet(1..k) /\ Acks(c, k) \in SUBSET (1..k) /\ k \in Acks(c, k)
      BY <1>2, <2>1, FS_Interval DEF Acks
    <2>3. IsFiniteSet(Acks(c, k))
      BY <2>2, FS_Subset
    <2> QED BY <2>2, <2>3, FS_CardinalityType, FS_EmptySet
  <1>5. /\ local[c] \in Seq(Op) /\ new \in Seq(Op) /\ Len(local[c]) \in Nat /\ Len(new) \in Nat
    <2>1. n \in Nat /\ siteSeq[c] \in Nat /\ session[c] \in Nat /\ local[c] \in Seq(Op)
      BY BoundAssumption DEF TypeInv, ClientType, EngineType
    <2>2. new \in [1..n -> Op]
      BY <2>1 DEF Op
    <2>3. new \in Seq(Op) /\ Len(new) = n
      <3> HIDE DEF new
      <3> QED BY <2>1, <2>2, FunctionIsSeq
    <2> QED BY <2>1, <2>3, LenProperties
  <1>6. NewLocal(c, n) = local[c] \o new
    BY DEF NewLocal
  <1> HIDE DEF new
  <1>7. Len(NewLocal(c, n)) = Len(local[c]) + Len(new) /\ NewLocal(c, n)[a] = local[c][a]
    <2>1. /\ Len(local[c] \o new) = Len(local[c]) + Len(new)
          /\ \A j \in 1..(Len(local[c]) + Len(new)) :
               (local[c] \o new)[j] = IF j <= Len(local[c]) THEN local[c][j]
                                                           ELSE new[j - Len(local[c])]
      BY <1>5, ConcatProperties
    <2>2. a \in 1..(Len(local[c]) + Len(new))
      BY <1>3, <1>4, <1>5
    <2> QED BY <1>3, <1>6, <2>1, <2>2
  <1> HIDE DEF a
  <1>8. a <= Len(NewLocal(c, n))
    BY <1>3, <1>4, <1>5, <1>7
  <1> QED BY <1>2, <1>3, <1>7, <1>8 DEF a

-----------------------------------------------------------------------------
(* Messages that the client handles *)

LEMMA TakenIsShorter ==
    ASSUME TypeInv, Steady, NEW c \in Clients, NEW i \in Deliverable(c, toClient[c]), NEW msgs,
           ClientTakes(c, i, msgs)
    PROVE  /\ i = 1 /\ 1 \in 1..Len(toClient[c]) /\ Shorter(toClient'[c], toClient[c])
           /\ ToServer(c, msgs)
  <1>1. toClient[c] \in Seq(ClientMsg) /\ i \in 1..Len(toClient[c]) /\ i = 1
    BY DEF TypeInv, NetType, Deliverable, Steady
  <1>2. toClient'[c] = Without(toClient[c], i) /\ ToServer(c, msgs)
    BY DEF ClientTakes, TypeInv, NetType
  <1> QED BY <1>1, <1>2, WithoutIsShorter

LEMMA SnapshotSteady ==
    ASSUME TypeInv, TypeInv', Steady, NEW c \in Clients, ApartInv(c), SteadyInv(c),
           NEW i \in Deliverable(c, toClient[c]), HandleSnapshot(c, i)
    PROVE  SteadyInv(c)'
  <1> DEFINE q == toServer[c]
             p == toServer'[c]
             seq == toClient[c][i].seq
  <1>1. i \in 1..Len(toClient[c]) /\ toClient[c][i].type = "Snapshot"
    BY DEF HandleSnapshot, Deliverable
  <1>2. Opening(c) /\ isOpen[c] = FALSE
    <2>1. Opening(c)
      BY <1>1, OpeningHas DEF Has
    <2> QED BY <2>1, SteadyApart DEF AsksOnce, TypeInv, ClientType
  <1>3. c \notin Local /\ InTurn(c)
    BY <1>2, SteadyApart DEF SteadyInv, LocalInv
  <1>4. /\ toClient[c] \in Seq(ClientMsg) /\ toClient[c][i] \in ClientMsg /\ seq \in Nat
    <2>1. toClient[c] \in Seq(ClientMsg)
      BY DEF TypeInv, NetType
    <2>2. toClient[c][i] \in ClientMsg
      BY <1>1, <2>1, ElementOfSeq
    <2> QED BY <1>1, <2>1, <2>2, MessageFields
  <1>5. PICK m \in BatchMsg : m = [type |-> "RequestOps", after |-> seq]
    BY <1>4, MessageTypes
  <1>6. ClientTakes(c, i, <<m>>) /\ NewRemoteDoc(c, seq)
        /\ UNCHANGED <<history, subscribers, up, opens>>
    BY <1>2, <1>5 DEF HandleSnapshot, serverVars, boundVars
  <1>7. i = 1 /\ Shorter(toClient'[c], toClient[c]) /\ Longer(p, q, m)
    BY <1>6, TakenIsShorter, SentIsLonger DEF SteadyInv
  <1>8. /\ subscribers[c] = NotSubscribed /\ Only(q, 1, Len(q), "StopSendingOps")
        /\ 1 = Len(toClient[c])
    BY <1>1, <1>2, <1>7 DEF SteadyInv, ClosedInv, Ended
  <1>9. toClient'[c] = << >>
    <2>1. toClient'[c] \in Seq(ClientMsg)
      BY DEF TypeInv, NetType
    <2>2. Len(toClient'[c]) = Len(toClient[c]) - 1
      BY <1>7 DEF Shorter
    <2>3. Len(toClient'[c]) = 0
      <3> HIDE DEF p, q, seq
      <3> QED BY <1>8, <2>2
    <2> QED BY <2>1, <2>3, EmptySeq
  <1>10. PICK r : r = << >> /\ Len(r) = 0
    BY EmptySeq
  <1>11. \A k \in 1..Len(r) : FALSE
    BY <1>10
  <1>12. /\ isOpen'[c] = TRUE /\ base'[c] = seq /\ global'[c] = r /\ buffer'[c] = r
         /\ lastSent'[c] = 0 /\ toClient'[c] = r
    BY <1>6, <1>9, <1>10 DEF NewRemoteDoc, TypeInv, ClientType, EngineType
  <1>13. \A j \in (seq + 1)..Len(history) : history[j].site # c
    BY <1>1, <1>3 DEF InTurn
  <1> HIDE DEF p, seq
  <1>14. Received(c)' = seq
    BY <1>4, <1>10, <1>12 DEF Received, CurrentSeq
  <1>15. AsksFor(p, seq)
    BY <1>5, <1>7, <1>8, AsksNow
  <1>16. OpenInv(c)'
    BY <1>6, <1>8, <1>10, <1>11, <1>12, <1>13, <1>14, <1>15 DEF OpenInv, p
  <1>17. m.type = "RequestOps"
    BY <1>5
  <1>18. ~Has(q, "OpFromClient") /\ ~Has(q, "RequestFile")
    BY <1>8, OnlyParts
  <1>19. ~Has(p, "OpFromClient") /\ ~Has(p, "RequestFile") /\ Has(p, "RequestOps")
    BY <1>7, <1>17, <1>18, LongerParts
  <1>20. NextSeqs(subscribers[c], p) /\ LastSeqs(subscribers[c], p, 0)
    <2>1. \A k \in 1..Len(p) : p[k].type # "OpFromClient"
      BY <1>19 DEF Has
    <2> QED BY <1>19, <2>1 DEF NextSeqs, LastSeqs
  <1>21. SeqInv(c)'
    BY <1>6, <1>12, <1>20 DEF SeqInv, p
  <1>22. up'[c] /\ NoFatal(c)' /\ Announced(c)' /\ ClosedInv(c)' /\ LocalInv(c)'
    BY <1>3, <1>6, <1>11, <1>12 DEF SteadyInv, NoFatal, Has, Announced, ClosedInv, LocalInv
  <1> QED BY <1>16, <1>21, <1>22 DEF SteadyInv

\* Ops for a client that has closed the document.
LEMMA OpsWhenClosed ==
    ASSUME TypeInv, Steady, NEW c \in Clients, SteadyInv(c), isOpen[c] = FALSE,
           NEW i \in Deliverable(c, toClient[c]), HandleOpFromServer(c, i)
    PROVE  SteadyInv(c)'
  <1> DEFINE q == toServer[c]
             p == toServer'[c]
             r == toClient[c]
             s == toClient'[c]
  <1>1. PICK m \in BatchMsg : m = [type |-> "StopSendingOps"]
    BY MessageTypes
  <1>2. ClientTakes(c, i, <<m>>) /\ UNCHANGED clientVars /\ UNCHANGED <<serverVars, up, boundVars>>
    BY <1>1 DEF HandleOpFromServer
  <1>3. Shorter(s, r) /\ Longer(p, q, m) /\ 1 \in 1..Len(r)
    BY <1>2, TakenIsShorter, SentIsLonger DEF SteadyInv
  <1>4. /\ isOpen' = isOpen /\ subscribers' = subscribers /\ opens' = opens /\ up' = up
        /\ buffer' = buffer /\ notified' = notified
    BY <1>2 DEF clientVars, serverVars, boundVars
  <1>5. m.type = "StopSendingOps"
    BY <1>1
  <1> HIDE DEF p, s
  <1>6. Ended(subscribers[c], p, s)
    <2>1. Ended(subscribers[c], q, r)
      BY DEF SteadyInv, ClosedInv
    <2>2. Ended(subscribers[c], p, r)
      BY <1>3, <1>5, <2>1, EndedMore
    <2> QED BY <1>3, <2>2, EndedOther
  <1>7. c \in Writers => NextSeqs(subscribers[c], p)
    <2>1. c \in Writers => NextSeqs(subscribers[c], q)
      BY DEF SteadyInv, SeqInv
    <2> QED BY <1>3, <1>5, <2>1, NextSeqsMore
  <1>8. LocalInv(c)'
    <2>1. Has(p, "RequestFile") => Has(q, "RequestFile")
      BY <1>3, <1>5, LongerParts
    <2>2. Has(s, "Snapshot") => Has(r, "Snapshot")
      BY <1>3, ShorterParts
    <2>3. c \in Local => ~Opening(c)'
      BY <2>1, <2>2, OpeningHas DEF SteadyInv, LocalInv, p, s
    <2>4. c \in Local => opens'[c] # 0
      <3>1. r # << >>
        BY <1>3, EmptySeq
      <3> QED BY <1>4, <3>1 DEF SteadyInv, LocalInv
    <2> QED BY <2>3, <2>4 DEF LocalInv
  <1>9. NoFatal(c)'
    BY <1>3, ShorterParts DEF SteadyInv, NoFatal, s
  <1>10. up'[c] /\ Announced(c)' /\ OpenInv(c)'
    BY <1>4 DEF SteadyInv, Announced, OpenInv
  <1> QED BY <1>4, <1>6, <1>7, <1>8, <1>9, <1>10 DEF SteadyInv, ClosedInv, SeqInv, p, s

\* Sums of lengths, and the place in the second of two parts.
LEMMA Regrouped ==
    ASSUME NEW a \in Nat, NEW b \in Nat, NEW k \in Nat, NEW n \in Nat
    PROVE  (a + b) + (k + n) = ((a + b) + k) + n
  OBVIOUS

LEMMA PlaceInTail ==
    ASSUME NEW a \in Nat, NEW n \in Nat, NEW t, t = a + n, NEW k \in 1..t, ~(k <= a)
    PROVE  k - a \in 1..n
  OBVIOUS

\* Ops for an open document: the next ones, so all of them are buffered.
LEMMA OpsWhenOpen ==
    ASSUME TypeInv, Steady, NEW c \in Clients, SteadyInv(c), isOpen[c],
           NEW i \in Deliverable(c, toClient[c]), HandleOpFromServer(c, i)
    PROVE  SteadyInv(c)'
  <1> DEFINE q == toServer[c]
             r == toClient[c]
             s == toClient'[c]
             m == r[i]
  <1>1. i = 1 /\ 1 \in 1..Len(r) /\ m.type = "OpFromServer" /\ r # << >>
    <2>1. i = 1 /\ 1 \in 1..Len(r)
      BY DEF Deliverable, Steady
    <2> QED BY <2>1, EmptySeq DEF HandleOpFromServer
  <1>2. /\ r \in Seq(ClientMsg) /\ m \in ClientMsg /\ m.ops \in Seq(Op) /\ Len(m.ops) \in Nat
        /\ Received(c) \in Nat /\ buffer \in [Clients -> Seq(Op)] /\ Len(buffer[c]) \in Nat
        /\ base[c] \in Nat /\ Len(global[c]) \in Nat
    <2>1. r \in Seq(ClientMsg)
      BY DEF TypeInv, NetType
    <2>2. m \in ClientMsg
      BY <1>1, <2>1, ElementOfSeq
    <2>3. base[c] \in Nat /\ Len(global[c]) \in Nat /\ Len(buffer[c]) \in Nat
      BY LenProperties DEF TypeInv, ClientType, EngineType
    <2>4. m.ops \in Seq(Op) /\ Len(m.ops) \in Nat
      BY <1>1, <2>2, MessageFields, LenProperties
    <2> QED BY <2>1, <2>2, <2>3, <2>4 DEF TypeInv, ClientType, Received, CurrentSeq
  <1>3. /\ subscribers[c] # NotSubscribed /\ Only(q, 1, Len(q), "OpFromClient")
        /\ Brings(r, Received(c), Len(history))
        /\ \A j \in 1..Len(r) : Sorted(c, r[j].ops)
    BY <1>1 DEF SteadyInv, OpenInv
  <1>4. m.first = Received(c) + 1
    <2>1. Shorter(Without(r, i), r)
      BY <1>1, <1>2, WithoutIsShorter
    <2> HIDE DEF r
    <2> QED BY <1>1, <1>3, <2>1, BringsFirst
  <1>5. ExpectedSeq(c) = Received(c) + 1
    BY DEF ExpectedSeq, Received
  <1>6. ~(m.first > ExpectedSeq(c)) /\ ExpectedSeq(c) - m.first + 1 = 1
    BY <1>2, <1>4, <1>5
  <1> DEFINE fresh == SubSeq(m.ops, ExpectedSeq(c) - m.first + 1, Len(m.ops))
  <1>7. /\ ClientTakes(c, i, << >>)
        /\ buffer' = [buffer EXCEPT ![c] = @ \o fresh]
        /\ notified' = [notified EXCEPT ![c] = @ \/ Announce(c, m, fresh)]
        /\ UNCHANGED <<isOpen, engineVars, history, subscribers, up, opens>>
    <2> HIDE DEF fresh
    <2>1. (m.first > ExpectedSeq(c)) = FALSE
      BY <1>6
    <2> QED BY <2>1 DEF HandleOpFromServer, serverVars, boundVars, fresh
  <1>8. fresh = m.ops
    <2>1. fresh = SubSeq(m.ops, 1, Len(m.ops))
      BY <1>6
    <2> QED BY <1>2, <2>1, SubSeqFull
  <1> HIDE DEF fresh
  <1>9. /\ Shorter(s, r) /\ toServer'[c] = q /\ buffer'[c] = buffer[c] \o m.ops
        /\ notified'[c] = (notified[c] \/ Announce(c, m, m.ops))
    <2>1. Shorter(s, r) /\ ToServer(c, << >>)
      BY <1>7, TakenIsShorter
    <2>2. toServer'[c] = q
      <3>1. << >> \in Seq(BatchMsg) /\ q \in Seq(BatchMsg) /\ q \o << >> = q
        BY EmptySeq, ConcatEmptySeq DEF TypeInv, NetType
      <3> QED BY <2>1, <3>1, ToServerQueues
    <2> QED BY <1>2, <1>7, <1>8, <2>1, <2>2 DEF TypeInv, ClientType
  <1>10. Len(buffer'[c]) = Len(buffer[c]) + Len(m.ops)
    BY <1>2, <1>9, ConcatProperties
  <1>11. Received(c)' = Received(c) + Len(m.ops)
    <2>1. base'[c] = base[c] /\ global'[c] = global[c]
      BY <1>7 DEF engineVars
    <2>2. Received(c)' = (base'[c] + Len(global'[c])) + Len(buffer'[c])
      BY DEF Received, CurrentSeq
    <2>3. Received(c) = (base[c] + Len(global[c])) + Len(buffer[c])
      BY DEF Received, CurrentSeq
    <2>4. Received(c)' = (base[c] + Len(global[c])) + (Len(buffer[c]) + Len(m.ops))
      BY <1>10, <2>1, <2>2
    <2>5. /\ base[c] \in Nat /\ Len(global[c]) \in Nat /\ Len(buffer[c]) \in Nat
          /\ Len(m.ops) \in Nat
      BY <1>2
    <2>6. (base[c] + Len(global[c])) + (Len(buffer[c]) + Len(m.ops))
            = ((base[c] + Len(global[c])) + Len(buffer[c])) + Len(m.ops)
      <3> DEFINE a == base[c]  b == Len(global[c])  k == Len(buffer[c])  n == Len(m.ops)
      <3>1. a \in Nat /\ b \in Nat /\ k \in Nat /\ n \in Nat
        BY <2>5
      <3> HIDE DEF a, b, k, n
      <3>2. (a + b) + (k + n) = ((a + b) + k) + n
        BY <3>1, Regrouped
      <3> QED BY <3>2 DEF a, b, k, n
    <2> HIDE DEF m, r, q, s
    <2>7. Received(c)' = ((base[c] + Len(global[c])) + Len(buffer[c])) + Len(m.ops)
      BY <2>4, <2>6
    <2> QED BY <2>3, <2>7
  <1> HIDE DEF s
  <1>12. Brings(s, Received(c) + Len(m.ops), Len(history))
    <2> HIDE DEF r
    <2> QED BY <1>1, <1>3, <1>9, BringsFirst
  <1>13. \A j \in 1..Len(s) : Sorted(c, s[j].ops)
    <2>1. \A j \in 1..Len(s) : j + 1 \in 1..Len(r) /\ s[j] = r[j + 1]
      BY <1>9 DEF Shorter
    <2> QED BY <1>3, <2>1
  <1>14. OpenInv(c)'
    BY <1>3, <1>7, <1>9, <1>11, <1>12, <1>13 DEF OpenInv, s
  <1>15. Announced(c)'
    <2> SUFFICES ASSUME NEW k \in 1..Len(buffer'[c]), buffer'[c][k].site # c
                 PROVE  notified'[c]
      BY DEF Announced
    <2>1. buffer'[c][k] = IF k <= Len(buffer[c]) THEN buffer[c][k] ELSE m.ops[k - Len(buffer[c])]
      BY <1>2, <1>9, <1>10, ConcatProperties
    <2>2. CASE k <= Len(buffer[c])
      <3>1. k \in 1..Len(buffer[c]) /\ buffer[c][k].site # c
        BY <1>2, <1>10, <2>1, <2>2
      <3>2. notified[c]
        BY <3>1 DEF SteadyInv, Announced
      <3> QED BY <1>9, <3>2
    <2>3. CASE ~(k <= Len(buffer[c]))
      <3>1. k - Len(buffer[c]) \in 1..Len(m.ops) /\ m.ops[k - Len(buffer[c])].site # c
        <4> HIDE DEF m
        <4>1. k - Len(buffer[c]) \in 1..Len(m.ops)
          <5>1. Len(buffer[c]) \in Nat /\ Len(m.ops) \in Nat
            BY <1>2
          <5> QED BY <1>10, <2>3, <5>1, PlaceInTail
        <4>2. buffer'[c][k] = m.ops[k - Len(buffer[c])]
          BY <2>1, <2>3
        <4> QED BY <4>1, <4>2
      <3>2. Sorted(c, m.ops)
        BY <1>1, <1>3
      <3>3. m.ops[1].site # c /\ m.ops # << >>
        <4>1. Len(m.ops) \in Nat
          BY <1>2
        <4> DEFINE ops == m.ops  j == k - Len(buffer[c])
        <4>2. j \in 1..Len(ops) /\ ops[j].site # c /\ Sorted(c, ops) /\ Len(ops) \in Nat
          BY <3>1, <3>2, <4>1
        <4> HIDE DEF ops, j, m
        <4>3. 1 \in 1..Len(ops)
          BY <4>2
        <4>4. ops[1].site # c /\ ops # << >>
          BY <4>2, <4>3, EmptySeq DEF Sorted
        <4> QED BY <4>4 DEF ops
      <3>4. Announce(c, m, m.ops)
        BY <3>3 DEF Announce
      <3> QED BY <1>9, <3>4
    <2> QED BY <2>2, <2>3
  <1>16. NoFatal(c)'
    BY <1>9, ShorterParts DEF SteadyInv, NoFatal, s
  <1>17. LocalInv(c)'
    <2>1. Has(s, "Snapshot") => Has(r, "Snapshot")
      BY <1>9, ShorterParts
    <2>2. c \in Local => ~Opening(c)'
      BY <1>9, <2>1, OpeningHas DEF SteadyInv, LocalInv, s
    <2>3. c \in Local => opens'[c] # 0
      BY <1>1, <1>7 DEF SteadyInv, LocalInv
    <2> QED BY <2>2, <2>3 DEF LocalInv
  <1>18. up'[c] /\ ClosedInv(c)' /\ SeqInv(c)'
    BY <1>7, <1>9 DEF SteadyInv, ClosedInv, SeqInv, engineVars
  <1> QED BY <1>14, <1>15, <1>16, <1>17, <1>18 DEF SteadyInv

LEMMA ClientSteady ==
    ASSUME TypeInv, TypeInv', Steady, NEW c \in Clients, ApartInv(c), SteadyInv(c), ClientHandles(c)
    PROVE  SteadyInv(c)'
  <1>1. PICK i \in Deliverable(c, toClient[c]) :
          HandleSnapshot(c, i) \/ HandleOpFromServer(c, i) \/ HandleDocFatal(c, i)
    BY DEF ClientHandles
  <1>2. ~HandleDocFatal(c, i)
    <2>1. i \in 1..Len(toClient[c])
      BY DEF Deliverable
    <2> QED BY <2>1 DEF HandleDocFatal, SteadyInv, NoFatal, Has
  <1>3. isOpen[c] = TRUE \/ isOpen[c] = FALSE
    BY DEF TypeInv, ClientType
  <1> QED BY <1>1, <1>2, <1>3, SnapshotSteady, OpsWhenOpen, OpsWhenClosed

-----------------------------------------------------------------------------
(* Messages of the client that the owner handles *)

LEMMA ServedIsShorter ==
    ASSUME TypeInv, Steady, NEW c \in Clients, up[c], NEW i \in Deliverable(c, toServer[c]),
           NEW reply, ServerTakes(c, i, reply), UNCHANGED <<clientVars, up, boundVars>>
    PROVE  /\ i = 1 /\ 1 \in 1..Len(toServer[c]) /\ Shorter(toServer'[c], toServer[c])
           /\ toClient'[c] = toClient[c] \o reply[c]
           /\ Still(c) /\ Received(c)' = Received(c)
  <1>1. toServer[c] \in Seq(BatchMsg) /\ i \in 1..Len(toServer[c]) /\ i = 1
    BY DEF TypeInv, NetType, Deliverable, Steady
  <1>2. toServer'[c] = Without(toServer[c], i) /\ toClient'[c] = Sent(toClient, c, reply[c])
    BY DEF ServerTakes, TypeInv, NetType
  <1>3. toClient'[c] = toClient[c] \o reply[c]
    BY <1>2 DEF Sent
  <1>4. Still(c)
    BY DEF Still, clientVars, engineVars, boundVars
  <1>5. Received(c)' = Received(c)
    BY <1>4 DEF Still, Received, CurrentSeq
  <1>6. Shorter(toServer'[c], toServer[c])
    BY <1>1, <1>2, WithoutIsShorter
  <1> QED BY <1>1, <1>3, <1>4, <1>5, <1>6

LEMMA ServedRest ==
    ASSUME NEW c \in Clients, SteadyInv(c), Still(c), Shorter(toServer'[c], toServer[c]),
           \A type \in {"DocFatal", "Snapshot"} : Has(toClient'[c], type) => Has(toClient[c], type)
    PROVE  up'[c] /\ NoFatal(c)' /\ Announced(c)' /\ LocalInv(c)'
  <1>1. up'[c] /\ NoFatal(c)' /\ Announced(c)'
    BY DEF Still, SteadyInv, NoFatal, Announced
  <1>2. Has(toServer'[c], "RequestFile") => Has(toServer[c], "RequestFile")
    BY ShorterParts
  <1>3. c \in Local => ~Opening(c)'
    BY <1>2, OpeningHas DEF SteadyInv, LocalInv
  <1>4. toServer[c] # << >>
    BY EmptySeq DEF Shorter
  <1>5. c \in Local => opens'[c] # 0
    BY <1>4 DEF Still, SteadyInv, LocalInv
  <1> QED BY <1>1, <1>3, <1>5 DEF LocalInv

LEMMA RequestFileSteady ==
    ASSUME TypeInv, Steady, NEW c \in Clients, ApartInv(c), SteadyInv(c),
           NEW i \in Deliverable(c, toServer[c]), HandleRequestFile(c, i)
    PROVE  SteadyInv(c)'
  <1> DEFINE q == toServer[c]
             p == toServer'[c]
             r == toClient[c]
             s == toClient'[c]
  <1>1. PICK m \in ClientMsg : m = [type |-> "Snapshot", seq |-> Len(history)]
    <2>1. Len(history) \in Nat
      BY LenProperties DEF TypeInv, ServerType
    <2> QED BY <2>1, MessageTypes
  <1>2. /\ ServerTakes(c, i, ReplyTo(c, <<m>>)) /\ UNCHANGED <<clientVars, up, boundVars>>
        /\ history' = history /\ subscribers' = subscribers /\ q[i].type = "RequestFile"
    BY <1>1 DEF HandleRequestFile, serverVars
  <1>3. /\ i = 1 /\ 1 \in 1..Len(q) /\ Shorter(p, q) /\ s = r \o ReplyTo(c, <<m>>)[c]
        /\ Still(c)
    BY <1>2, ServedIsShorter DEF SteadyInv
  <1>4. r \in Seq(ClientMsg) /\ ReplyTo(c, <<m>>)[c] = <<m>>
    BY DEF TypeInv, NetType, ReplyTo, NoReply
  <1> HIDE DEF p, s
  <1>5. Longer(s, r, m) /\ m.type = "Snapshot"
    BY <1>1, <1>3, <1>4, JoinedIsLonger
  <1>6. Opening(c) /\ isOpen[c] = FALSE /\ c \notin Local
    <2>1. Opening(c)
      BY <1>2, <1>3, OpeningHas DEF Has
    <2> QED BY <2>1, SteadyApart DEF AsksOnce, SteadyInv, LocalInv, TypeInv, ClientType
  <1>7. Ended(subscribers[c], p, s)
    <2>1. Ended(subscribers[c], q, r)
      BY <1>6 DEF SteadyInv, ClosedInv
    <2> QED BY <1>2, <1>3, <1>5, <2>1, EndedAnswer
  <1>8. c \in Writers => NextSeqs(subscribers[c], p)
    <2>1. c \in Writers => NextSeqs(subscribers[c], q)
      BY DEF SteadyInv, SeqInv
    <2> QED BY <1>2, <1>3, <2>1, NextSeqsTaken
  <1>9. NoFatal(c)'
    <2>1. Has(s, "DocFatal") => Has(r, "DocFatal")
      BY <1>5, LongerParts
    <2> QED BY <2>1 DEF SteadyInv, NoFatal, s
  <1>10. up'[c] /\ Announced(c)' /\ LocalInv(c)' /\ OpenInv(c)'
    BY <1>3, <1>6 DEF Still, SteadyInv, Announced, LocalInv, OpenInv
  <1> QED BY <1>2, <1>3, <1>6, <1>7, <1>8, <1>9, <1>10 DEF SteadyInv, Still, ClosedInv, SeqInv, p, s

LEMMA StopSteady ==
    ASSUME TypeInv, Steady, NEW c \in Clients, SteadyInv(c),
           NEW i \in Deliverable(c, toServer[c]), HandleStopSendingOps(c, i)
    PROVE  SteadyInv(c)'
  <1> DEFINE q == toServer[c]
             p == toServer'[c]
             r == toClient[c]
  <1>1. /\ ServerTakes(c, i, NoReply) /\ UNCHANGED <<clientVars, up, boundVars>>
        /\ history' = history /\ subscribers'[c] = NotSubscribed /\ q[i].type = "StopSendingOps"
    BY DEF HandleStopSendingOps, TypeInv, ServerType
  <1>2. /\ i = 1 /\ 1 \in 1..Len(q) /\ Shorter(p, q) /\ toClient'[c] = r \o NoReply[c]
        /\ Still(c) /\ Received(c)' = Received(c)
    BY <1>1, ServedIsShorter DEF SteadyInv
  <1>3. toClient'[c] = r
    <2>1. NoReply[c] = << >> /\ r \in Seq(ClientMsg)
      BY DEF NoReply, TypeInv, NetType
    <2> QED BY <1>2, <2>1, ConcatEmptySeq
  <1> HIDE DEF p
  <1>4. up'[c] /\ NoFatal(c)' /\ Announced(c)' /\ LocalInv(c)'
    BY <1>2, <1>3, ServedRest DEF p
  <1>5. ASSUME isOpen[c]
        PROVE  /\ subscribers[c] = NotSubscribed /\ r = << >> /\ Received(c) = base[c]
               /\ \A k \in (base[c] + 1)..Len(history) : history[k].site # c
               /\ AsksFor(p, base[c])
    <2>1. ~Only(q, 1, Len(q), "OpFromClient")
      BY <1>1, <1>2 DEF Only
    <2>2. /\ subscribers[c] = NotSubscribed /\ r = << >> /\ Received(c) = base[c]
          /\ \A k \in (base[c] + 1)..Len(history) : history[k].site # c
          /\ AsksFor(q, base[c])
      BY <1>5, <2>1 DEF SteadyInv, OpenInv
    <2>3. PICK m : m = [type |-> "RequestOps", after |-> base[c]]
      OBVIOUS
    <2>4. q[1] # m
      BY <1>1, <1>2, <2>3
    <2>5. q[1] = m \/ AsksFor(p, base[c])
      <3> HIDE DEF q
      <3> QED BY <1>2, <2>2, <2>3, AsksTaken
    <2> QED BY <2>2, <2>4, <2>5
  <1>6. OpenInv(c)'
    <2>1. ASSUME isOpen[c] PROVE \A j \in 1..Len(r) : FALSE
      BY <1>5, <2>1, EmptySeq
    <2> QED BY <1>1, <1>2, <1>3, <1>5, <2>1 DEF OpenInv, Still, p
  <1>7. SeqInv(c)'
    <2> SUFFICES ASSUME c \in Writers
                 PROVE  /\ NextSeqs(NotSubscribed, p)
                        /\ isOpen[c] => LastSeqs(NotSubscribed, p, lastSent[c])
      BY <1>1, <1>2 DEF SeqInv, Still, p
    <2>1. /\ NextSeqs(subscribers[c], q)
          /\ isOpen[c] => LastSeqs(subscribers[c], q, lastSent[c])
      BY DEF SteadyInv, SeqInv
    <2>2. NextSeqs(NotSubscribed, p)
      BY <1>1, <1>2, <2>1, NextSeqsTaken
    <2>3. ASSUME isOpen[c] PROVE LastSeqs(NotSubscribed, p, lastSent[c])
      <3>1. Has(p, "RequestOps")
        <4>1. Len(p) \in Nat
          BY <1>2 DEF Shorter
        <4> QED BY <1>5, <2>3, <4>1, AsksParts
      <3> QED BY <1>1, <1>2, <2>1, <2>3, <3>1, LastSeqsTaken
    <2> QED BY <2>2, <2>3
  <1>8. ClosedInv(c)'
    <2> SUFFICES ASSUME isOpen[c] = FALSE PROVE Ended(NotSubscribed, p, r)
      BY <1>1, <1>2, <1>3 DEF ClosedInv, Still, p
    <2>1. Ended(subscribers[c], q, r)
      BY DEF SteadyInv, ClosedInv
    <2> QED BY <1>1, <1>2, <2>1, EndedTaken
  <1> QED BY <1>4, <1>6, <1>7, <1>8 DEF SteadyInv

\* The answer to a RequestOps brings everything after seq.
LEMMA AfterBrings ==
    ASSUME history \in Seq(Op), NEW seq \in Nat
    PROVE  \/ /\ OpsAfter(seq) = << >>
              /\ seq <= Len(history) => Brings(<< >>, seq, Len(history))
           \/ \E m \in ClientMsg :
                /\ OpsAfter(seq) = <<m>> /\ m.type = "OpFromServer"
                /\ \A c : (\A k \in (seq + 1)..Len(history) : history[k].site # c)
                            => Sorted(c, m.ops)
                /\ \A r : Longer(r, << >>, m) => Brings(r, seq, Len(history))
  <1>1. Len(history) \in Nat
    BY LenProperties
  <1>2. CASE ~(seq < Len(history))
    <2>1. OpsAfter(seq) = << >>
      BY <1>2 DEF OpsAfter
    <2>2. ASSUME seq <= Len(history) PROVE Brings(<< >>, seq, Len(history))
      <3>1. seq = Len(history)
        BY <1>1, <1>2, <2>2
      <3> QED BY <1>1, <3>1, BringsNothing
    <2> QED BY <2>1, <2>2
  <1>3. CASE seq < Len(history)
    <2> DEFINE ops == SubSeq(history, seq + 1, Len(history))
    <2>1. /\ ops \in Seq(Op) /\ Len(ops) = Len(history) - seq
          /\ \A k \in 1..Len(ops) : ops[k] = history[seq + k]
      BY <1>3, SubSeqTail
    <2> HIDE DEF ops
    <2>2. PICK m \in ClientMsg : m = [type |-> "OpFromServer", first |-> seq + 1, ops |-> ops]
      <3>1. seq + 1 \in Nat
        OBVIOUS
      <3> QED BY <2>1, <3>1, MessageTypes
    <2>3. OpsAfter(seq) = <<m>>
      BY <1>3, <2>2 DEF OpsAfter, ops
    <2>4. m.type = "OpFromServer" /\ m.first = seq + 1 /\ m.ops = ops
      BY <2>2
    <2>5. ASSUME NEW c, \A k \in (seq + 1)..Len(history) : history[k].site # c
          PROVE  Sorted(c, m.ops)
      <3>1. 1 \in 1..Len(ops) /\ seq + 1 \in (seq + 1)..Len(history)
        BY <1>1, <1>3, <2>1
      <3>2. ops[1].site # c
        BY <2>1, <2>5, <3>1
      <3> QED BY <2>4, <3>2 DEF Sorted
    <2>6. ASSUME NEW r, Longer(r, << >>, m) PROVE Brings(r, seq, Len(history))
      <3>1. Brings(<< >>, seq, seq)
        BY BringsNothing
      <3>2. Len(m.ops) \in Nat /\ seq + Len(m.ops) = Len(history)
        BY <1>1, <1>3, <2>1, <2>4
      <3>3. Brings(r, seq, seq + Len(m.ops))
        BY <2>4, <2>6, <3>1, <3>2, BringsMore
      <3> QED BY <3>2, <3>3
    <2> QED BY <2>3, <2>4, <2>5, <2>6
  <1> QED BY <1>2, <1>3

LEMMA RequestOpsSteady ==
    ASSUME AgreeInv, Steady, NEW c \in Clients, SteadyInv(c),
           NEW i \in Deliverable(c, toServer[c]), HandleRequestOps(c, i)
    PROVE  SteadyInv(c)'
  <1> DEFINE q == toServer[c]
             p == toServer'[c]
             r == toClient[c]
             s == toClient'[c]
             seq == q[i].after
             ops == OpsAfter(seq)
  <1> USE DEF AgreeInv
  <1>1. /\ ServerTakes(c, i, ReplyTo(c, ops)) /\ UNCHANGED <<clientVars, up, boundVars>>
        /\ history' = history /\ subscribers'[c] = 0 /\ q[i].type = "RequestOps"
    BY DEF HandleRequestOps, TypeInv, ServerType
  <1>2. /\ i = 1 /\ 1 \in 1..Len(q) /\ Shorter(p, q) /\ s = r \o ReplyTo(c, ops)[c]
        /\ Still(c) /\ Received(c)' = Received(c)
    <2> HIDE DEF ops
    <2> QED BY <1>1, ServedIsShorter DEF SteadyInv
  <1>3. /\ q \in Seq(BatchMsg) /\ r \in Seq(ClientMsg) /\ s = r \o ops /\ seq \in Nat
        /\ history \in Seq(Op)
    <2>1. q \in Seq(BatchMsg) /\ r \in Seq(ClientMsg)
      BY DEF TypeInv, NetType
    <2>2. ReplyTo(c, ops)[c] = ops
      BY DEF ReplyTo, NoReply
    <2>3. q[1] \in BatchMsg
      BY <1>2, <2>1, ElementOfSeq
    <2>4. seq \in Nat
      BY <1>1, <1>2, <2>3, MessageFields
    <2> QED BY <1>2, <2>1, <2>2, <2>4 DEF TypeInv, ServerType
  <1> HIDE DEF p, s, ops, seq
  <1>4. \/ /\ ops = << >> /\ s = r
           /\ seq <= Len(history) => Brings(<< >>, seq, Len(history))
        \/ \E m \in ClientMsg :
             /\ ops = <<m>> /\ m.type = "OpFromServer" /\ Longer(s, r, m)
             /\ (\A k \in (seq + 1)..Len(history) : history[k].site # c) => Sorted(c, m.ops)
             /\ \A z : Longer(z, << >>, m) => Brings(z, seq, Len(history))
    <2>1. CASE /\ ops = << >>
               /\ seq <= Len(history) => Brings(<< >>, seq, Len(history))
      <3>1. s = r
        BY <1>3, <2>1, ConcatEmptySeq
      <3> QED BY <2>1, <3>1
    <2>2. ASSUME NEW m \in ClientMsg, ops = <<m>>, m.type = "OpFromServer",
                 (\A k \in (seq + 1)..Len(history) : history[k].site # c) => Sorted(c, m.ops),
                 \A z : Longer(z, << >>, m) => Brings(z, seq, Len(history))
          PROVE  Longer(s, r, m)
      BY <1>3, <2>2, JoinedIsLonger
    <2> QED BY <1>3, <2>1, <2>2, AfterBrings DEF ops
  <1>5. \A type \in {"DocFatal", "Snapshot"} : Has(s, type) => Has(r, type)
    BY <1>4, LongerParts
  <1>6. up'[c] /\ NoFatal(c)' /\ Announced(c)' /\ LocalInv(c)'
    BY <1>2, <1>5, ServedRest DEF p, s
  <1>7. ASSUME isOpen[c]
        PROVE  /\ r = << >> /\ Received(c) = base[c] /\ seq = base[c]
               /\ \A k \in (base[c] + 1)..Len(history) : history[k].site # c
               /\ Only(p, 1, Len(p), "OpFromClient")
    <2>1. ~Only(q, 1, Len(q), "OpFromClient")
      BY <1>1, <1>2 DEF Only
    <2>2. /\ r = << >> /\ Received(c) = base[c]
          /\ \A k \in (base[c] + 1)..Len(history) : history[k].site # c
          /\ AsksFor(q, base[c])
      BY <1>7, <2>1 DEF SteadyInv, OpenInv
    <2>3. q[1] = [type |-> "RequestOps", after |-> base[c]] /\ Only(p, 1, Len(p), "OpFromClient")
      <3> HIDE DEF q
      <3>1. q[1].type = "RequestOps"
        BY <1>1, <1>2
      <3> QED BY <1>2, <2>2, <3>1, AsksTaken
    <2>4. seq = base[c]
      BY <1>2, <2>3 DEF seq
    <2> QED BY <2>2, <2>3, <2>4
  <1>8. OpenInv(c)'
    <2> SUFFICES ASSUME isOpen[c]
                 PROVE  /\ Only(p, 1, Len(p), "OpFromClient")
                        /\ Brings(s, base[c], Len(history))
                        /\ \A j \in 1..Len(s) : Sorted(c, s[j].ops)
      <3>1. 0 # NotSubscribed
        BY DEF NotSubscribed
      <3> QED BY <1>1, <1>2, <1>7, <3>1 DEF OpenInv, Still, p, s
    <2>1. base[c] \in Nat /\ base[c] <= Len(history)
      BY TakenInHistory
    <2>2. \A j \in 1..Len(r) : FALSE
      BY <1>7, EmptySeq
    <2>3. CASE ops = << >> /\ s = r
      <3>1. ASSUME NEW m, <<m>> = << >> PROVE FALSE
        <4>1. Len(<<m>>) = 1 /\ Len(<< >>) = 0
          OBVIOUS
        <4> QED BY <3>1, <4>1
      <3>2. Brings(<< >>, seq, Len(history))
        BY <1>4, <1>7, <2>1, <2>3, <3>1
      <3> QED BY <1>7, <2>2, <2>3, <3>2
    <2>4. ASSUME NEW m \in ClientMsg, Longer(s, r, m),
                 (\A k \in (seq + 1)..Len(history) : history[k].site # c) => Sorted(c, m.ops),
                 \A z : Longer(z, << >>, m) => Brings(z, seq, Len(history))
          PROVE  /\ Brings(s, base[c], Len(history))
                 /\ \A j \in 1..Len(s) : Sorted(c, s[j].ops)
      <3>1. Brings(s, base[c], Len(history))
        BY <1>7, <2>4
      <3>2. Sorted(c, m.ops)
        BY <1>7, <2>4
      <3>3. \A j \in 1..Len(s) : Sorted(c, s[j].ops)
        BY <2>2, <2>4, <3>2, SortedMore
      <3> QED BY <3>1, <3>3
    <2> QED BY <1>4, <1>7, <2>3, <2>4
  <1>9. SeqInv(c)'
    <2> SUFFICES ASSUME c \in Writers
                 PROVE  NextSeqs(0, p) /\ (isOpen[c] => LastSeqs(0, p, lastSent[c]))
      BY <1>1, <1>2 DEF SeqInv, Still, p
    <2>1. /\ NextSeqs(subscribers[c], q)
          /\ isOpen[c] => LastSeqs(subscribers[c], q, lastSent[c])
      BY DEF SteadyInv, SeqInv
    <2>2. NextSeqs(0, p)
      BY <1>1, <1>2, <2>1, NextSeqsTaken
    <2>3. ASSUME isOpen[c] PROVE LastSeqs(0, p, lastSent[c])
      <3>1. ~Has(p, "RequestOps")
        BY <1>7, <2>3, OnlyParts
      <3> QED BY <1>1, <1>2, <2>1, <2>3, <3>1, LastSeqsTaken
    <2> QED BY <2>2, <2>3
  <1>10. ClosedInv(c)'
    <2> SUFFICES ASSUME isOpen[c] = FALSE PROVE Ended(0, p, s)
      BY <1>1, <1>2 DEF ClosedInv, Still, p, s
    <2>1. Ended(subscribers[c], q, r)
      BY DEF SteadyInv, ClosedInv
    <2>2. Ended(0, p, r) /\ ~Has(r, "Snapshot")
      <3> HIDE DEF q, r
      <3>1. q[1].type = "RequestOps"
        BY <1>1, <1>2
      <3> QED BY <1>2, <2>1, <3>1, EndedTaken
    <2>3. ~Has(s, "Snapshot")
      BY <1>5, <2>2
    <2> QED BY <2>2, <2>3, EndedOther
  <1> QED BY <1>6, <1>8, <1>9, <1>10 DEF SteadyInv

\* A batch without permission or subscription changes nothing.
LEMMA RefusedSteady ==
    ASSUME TypeInv, Steady, NEW c \in Clients, SteadyInv(c), OneBatch(toServer[c]),
           NEW i \in Deliverable(c, toServer[c]), toServer[c][i].type = "OpFromClient",
           c \notin Writers \/ subscribers[c] = NotSubscribed,
           ServerTakes(c, i, NoReply), UNCHANGED <<serverVars, clientVars, up, boundVars>>
    PROVE  SteadyInv(c)'
  <1> DEFINE q == toServer[c]
             p == toServer'[c]
             r == toClient[c]
  <1>1. history' = history /\ subscribers' = subscribers
    BY DEF serverVars
  <1>2. /\ i = 1 /\ 1 \in 1..Len(q) /\ Shorter(p, q) /\ toClient'[c] = r \o NoReply[c]
        /\ Still(c) /\ Received(c)' = Received(c)
    BY ServedIsShorter DEF SteadyInv
  <1>3. toClient'[c] = r
    <2>1. NoReply[c] = << >> /\ r \in Seq(ClientMsg)
      BY DEF NoReply, TypeInv, NetType
    <2> QED BY <1>2, <2>1, ConcatEmptySeq
  <1> HIDE DEF p
  <1>4. up'[c] /\ NoFatal(c)' /\ Announced(c)' /\ LocalInv(c)'
    BY <1>2, <1>3, ServedRest DEF p
  <1>5. ASSUME isOpen[c]
        PROVE  /\ subscribers[c] # NotSubscribed /\ Only(q, 1, Len(q), "OpFromClient")
               /\ Brings(r, Received(c), Len(history))
               /\ \A j \in 1..Len(r) : Sorted(c, r[j].ops)
    <2>1. ~AsksFor(q, base[c])
      <3>1. q[1] # [type |-> "RequestOps", after |-> base[c]]
        BY <1>2
      <3>2. q[1].type # "StopSendingOps"
        BY <1>2
      <3> HIDE DEF q
      <3> QED BY <1>2, <3>1, <3>2, AsksTaken
    <2> QED BY <1>5, <2>1 DEF SteadyInv, OpenInv
  <1>6. OpenInv(c)'
    <2>1. Only(q, 1, Len(q), "OpFromClient") => Only(p, 1, Len(p), "OpFromClient")
      BY <1>2, OnlyShorter
    <2> QED BY <1>1, <1>2, <1>3, <1>5, <2>1 DEF OpenInv, Still, p
  <1>7. SeqInv(c)'
    <2> SUFFICES ASSUME c \in Writers
                 PROVE  NextSeqs(subscribers[c], p) /\ isOpen[c] = FALSE
      BY <1>1, <1>2 DEF SeqInv, Still, p
    <2>1. NextSeqs(subscribers[c], q)
      BY DEF SteadyInv, SeqInv
    <2>2. NextSeqs(subscribers[c], p)
      BY <1>2, <2>1, NextSeqsTaken
    <2>3. isOpen[c] = FALSE
      BY <1>5 DEF TypeInv, ClientType
    <2> QED BY <2>2, <2>3
  <1>8. ClosedInv(c)'
    <2> SUFFICES ASSUME isOpen[c] = FALSE PROVE Ended(subscribers[c], p, r)
      BY <1>1, <1>2, <1>3 DEF ClosedInv, Still, p
    <2>1. Ended(subscribers[c], q, r)
      BY DEF SteadyInv, ClosedInv
    <2>2. q[1].type \notin {"StopSendingOps", "RequestOps"}
      BY <1>2
    <2> HIDE DEF q
    <2> QED BY <1>2, <2>1, <2>2, EndedTaken
  <1> QED BY <1>4, <1>6, <1>7, <1>8 DEF SteadyInv

\* A batch with the expected site seq.
LEMMA AcceptSteady ==
    ASSUME TypeInv, LogInv, Steady, NEW c \in Clients, SteadyInv(c), OneBatch(toServer[c]),
           NEW i \in Deliverable(c, toServer[c]), toServer[c][i].type = "OpFromClient",
           subscribers[c] # NotSubscribed,
           NEW t, t = toServer[c][i].ops, history' = history \o t,
           NEW subs, subs = [subscribers EXCEPT ![c] = LastSeq(t)], subscribers' = subs,
           ServerTakes(c, i, Broadcast(subs, t)), UNCHANGED <<clientVars, up, boundVars>>
    PROVE  SteadyInv(c)'
  <1> DEFINE q == toServer[c]
             p == toServer'[c]
             r == toClient[c]
             s == toClient'[c]
  <1>1. /\ i = 1 /\ 1 \in 1..Len(q) /\ Shorter(p, q) /\ Still(c) /\ Received(c)' = Received(c)
    BY ServedIsShorter DEF SteadyInv
  <1>2. /\ q \in Seq(BatchMsg) /\ q[1] \in BatchMsg /\ t \in Seq(Op) /\ Len(t) \in Nat \ {0}
        /\ history \in Seq(Op)
    <2>1. q \in Seq(BatchMsg)
      BY DEF TypeInv, NetType
    <2>2. q[1] \in BatchMsg
      BY <1>1, <2>1, ElementOfSeq
    <2>3. q[1].type = "OpFromClient" /\ q[1].ops = t
      BY <1>1
    <2> HIDE DEF q
    <2> QED BY <2>1, <2>2, <2>3, MessageFields DEF TypeInv, ServerType
  <1>3. LastSeq(t) \in Nat /\ subscribers'[c] = LastSeq(t) /\ subs[c] # NotSubscribed
    <2>1. t[Len(t)] \in Op
      BY <1>2, ElementOfSeq
    <2>2. LastSeq(t) \in Nat
      BY <2>1 DEF LastSeq, Op
    <2>3. subs[c] = LastSeq(t)
      BY DEF TypeInv, ServerType
    <2> QED BY <2>2, <2>3 DEF NotSubscribed
  <1>4. PICK m : m = [type |-> "OpFromServer", first |-> Len(history) + 1, ops |-> t]
    OBVIOUS
  <1>5. Longer(s, r, m)
    <2>1. s = Sent(toClient, c, Broadcast(subs, t)[c])
      BY DEF ServerTakes
    <2> HIDE DEF s, r
    <2> QED BY <1>2, <1>3, <1>4, <2>1, ToldOps DEF SteadyInv, s, r
  <1>6. m.type = "OpFromServer" /\ m.ops = t
    BY <1>4
  <1> HIDE DEF p, s
  <1>7. \A type \in {"DocFatal", "Snapshot"} : Has(s, type) => Has(r, type)
    BY <1>5, <1>6, LongerParts
  <1>8. up'[c] /\ NoFatal(c)' /\ Announced(c)' /\ LocalInv(c)'
    BY <1>1, <1>7, ServedRest DEF p, s
  <1>9. Sorted(c, m.ops)
    <2>1. FlightOk(q, InFlight(c))
      BY DEF LogInv
    <2>2. BatchOps(q[1]) \subseteq InFlight(c)
      BY <1>1, <2>1 DEF FlightOk
    <2>3. BatchOps(q[1]) = OpsIn(t)
      BY <1>1 DEF BatchOps
    <2>4. \A k \in 1..Len(t) : t[k].site = c
      BY <2>2, <2>3 DEF OpsIn, InFlight, MadeBy
    <2> QED BY <1>6, <2>4 DEF Sorted
  <1>10. ASSUME isOpen[c]
         PROVE  /\ Only(p, 1, Len(p), "OpFromClient") /\ Brings(r, Received(c), Len(history))
                /\ \A j \in 1..Len(r) : Sorted(c, r[j].ops)
    <2>1. Only(q, 1, Len(q), "OpFromClient") => Only(p, 1, Len(p), "OpFromClient")
      BY <1>1, OnlyShorter
    <2> QED BY <1>10, <2>1 DEF SteadyInv, OpenInv
  <1>11. OpenInv(c)'
    <2> SUFFICES ASSUME isOpen[c]
                 PROVE  /\ Brings(s, Received(c), Len(history \o t))
                        /\ \A j \in 1..Len(s) : Sorted(c, s[j].ops)
      BY <1>1, <1>3, <1>10 DEF OpenInv, Still, p, s
    <2>1. Received(c) \in Nat
      <3>1. base[c] \in Nat /\ Len(global[c]) \in Nat /\ Len(buffer[c]) \in Nat
        BY LenProperties DEF TypeInv, ClientType, EngineType
      <3> QED BY <3>1 DEF Received, CurrentSeq
    <2> HIDE DEF r
    <2>2. Brings(s, Received(c), Len(history \o t))
      BY <1>2, <1>4, <1>5, <1>10, <2>1, BringsOps
    <2>3. \A j \in 1..Len(s) : Sorted(c, s[j].ops)
      BY <1>5, <1>9, <1>10, SortedMore
    <2> QED BY <2>2, <2>3
  <1>12. SeqInv(c)'
    <2> SUFFICES ASSUME c \in Writers
                 PROVE  /\ NextSeqs(LastSeq(t), p)
                        /\ isOpen[c] => LastSeqs(LastSeq(t), p, lastSent[c])
      BY <1>1, <1>3 DEF SeqInv, Still, p
    <2>1. /\ NextSeqs(subscribers[c], q)
          /\ isOpen[c] => LastSeqs(subscribers[c], q, lastSent[c])
      BY DEF SteadyInv, SeqInv
    <2>2. NextSeqs(LastSeq(t), p)
      BY <1>1, <2>1, NextSeqsTaken
    <2>3. ASSUME isOpen[c] PROVE LastSeqs(LastSeq(t), p, lastSent[c])
      <3>1. ~Has(p, "RequestOps")
        BY <1>10, <2>3, OnlyParts
      <3>2. q[1].type = "OpFromClient" /\ LastSeq(t) = LastSeq(q[1].ops)
        BY <1>1
      <3> HIDE DEF q
      <3> QED BY <1>1, <2>1, <2>3, <3>1, <3>2, LastSeqsTaken DEF q
    <2> QED BY <2>2, <2>3
  <1>13. ClosedInv(c)'
    <2> SUFFICES ASSUME isOpen[c] = FALSE PROVE Ended(LastSeq(t), p, s)
      BY <1>1, <1>3 DEF ClosedInv, Still, p, s
    <2>1. Ended(subscribers[c], q, r)
      BY DEF SteadyInv, ClosedInv
    <2>2. q[1].type = "OpFromClient"
      BY <1>1
    <2> HIDE DEF q, r
    <2>3. Ended(LastSeq(t), p, r) /\ ~Has(r, "Snapshot")
      BY <1>1, <2>1, <2>2, EndedTaken
    <2>4. ~Has(s, "Snapshot")
      BY <1>7, <2>3
    <2> QED BY <2>3, <2>4, EndedOther
  <1> QED BY <1>8, <1>11, <1>12, <1>13 DEF SteadyInv

LEMMA BatchSteady ==
    ASSUME TypeInv, LogInv, Steady, NEW c \in Clients, SteadyInv(c), OneBatch(toServer[c]),
           NEW i \in Deliverable(c, toServer[c]), HandleOpFromClient(c, i)
    PROVE  SteadyInv(c)'
  <1>1. i = 1 /\ 1 \in 1..Len(toServer[c]) /\ toServer[c][1].type = "OpFromClient"
    <2>1. i = 1 /\ 1 \in 1..Len(toServer[c])
      BY DEF Deliverable, Steady
    <2> QED BY <2>1 DEF HandleOpFromClient
  <1>2. UNCHANGED <<clientVars, up, boundVars>>
    BY DEF HandleOpFromClient
  <1>3. c \in Writers /\ subscribers[c] # NotSubscribed => Expected(c, toServer[c][1])
    <2>1. \A k \in 1..(1 - 1) : FALSE
      OBVIOUS
    <2>2. c \in Writers => NextSeqs(subscribers[c], toServer[c])
      BY DEF SteadyInv, SeqInv
    <2>3. (\E k \in 1..(1 - 1) : toServer[c][k].type = "RequestOps") = FALSE
      BY <2>1
    <2> QED BY <1>1, <2>2, <2>3 DEF NextSeqs, Expected
  <1>4. CASE /\ c \notin Writers \/ subscribers[c] = NotSubscribed
             /\ ServerTakes(c, i, NoReply) /\ UNCHANGED serverVars
    BY <1>1, <1>2, <1>4, RefusedSteady
  <1>5. CASE ~(c \notin Writers \/ subscribers[c] = NotSubscribed)
    <2> DEFINE t == toServer[c][i].ops
               subs == [subscribers EXCEPT ![c] = LastSeq(t)]
    <2>1. /\ history' = history \o t /\ subscribers' = subs
          /\ ServerTakes(c, i, Broadcast(subs, t))
      BY <1>1, <1>3, <1>5 DEF HandleOpFromClient
    <2>2. subscribers[c] # NotSubscribed
      BY <1>5
    <2> HIDE DEF t, subs
    <2> QED BY <1>1, <1>2, <2>1, <2>2, AcceptSteady DEF t, subs
  <1> QED BY <1>3, <1>4, <1>5 DEF HandleOpFromClient

LEMMA ServerSteady ==
    ASSUME AgreeInv, LogInv, Steady, NEW c \in Clients, ApartInv(c), SteadyInv(c),
           OneBatch(toServer[c]), ServerHandles(c)
    PROVE  SteadyInv(c)'
  <1>1. PICK i \in Deliverable(c, toServer[c]) :
          \/ HandleRequestFile(c, i) \/ HandleRequestOps(c, i)
          \/ HandleOpFromClient(c, i) \/ HandleStopSendingOps(c, i)
    BY DEF ServerHandles
  <1>2. TypeInv
    BY DEF AgreeInv
  <1> QED BY <1>1, <1>2, RequestFileSteady, RequestOpsSteady, BatchSteady, StopSteady

-----------------------------------------------------------------------------
(* Steps of other hosts and of the owner *)

Elsewhere(c) ==
    /\ Still(c) /\ history' = history /\ subscribers'[c] = subscribers[c]
    /\ toServer'[c] = toServer[c] /\ toClient'[c] = toClient[c]

LEMMA EditorElsewhere ==
    ASSUME TypeInv, NEW c \in Clients, NEW d \in Clients, d # c, Editor(d)
    PROVE  Elsewhere(c)
  <1> USE DEF Elsewhere, Still
  <1>1. /\ subscribers \in [Clients -> Nat \cup {NotSubscribed}]
        /\ isOpen \in [Clients -> BOOLEAN] /\ notified \in [Clients -> BOOLEAN]
        /\ base \in [Clients -> Nat] /\ lastSent \in [Clients -> Nat]
        /\ global \in [Clients -> Seq(Op)] /\ buffer \in [Clients -> Seq(Op)]
        /\ opens \in [Clients -> Nat] /\ up \in [Clients -> BOOLEAN]
        /\ toServer \in [Clients -> Seq(BatchMsg)] /\ toClient \in [Clients -> Seq(ClientMsg)]
    BY DEF TypeInv, ServerType, ClientType, EngineType, NetType, BoundType
  <1>2. CASE OpenFile(d)
    BY <1>1, <1>2 DEF OpenFile, ToServer, serverVars, clientVars, engineVars
  <1>3. CASE OpenLocalFile(d)
    <2>1. /\ isOpen'[c] = isOpen[c] /\ base'[c] = base[c] /\ global'[c] = global[c]
          /\ buffer'[c] = buffer[c] /\ notified'[c] = notified[c] /\ lastSent'[c] = lastSent[c]
      BY <1>1, <1>3 DEF OpenLocalFile, NewRemoteDoc, clientVars, engineVars
    <2> QED BY <1>1, <1>3, <2>1 DEF OpenLocalFile, netVars
  <1>4. ASSUME NEW n \in 0..MaxBatch, SendOps(d, n) PROVE Elsewhere(c)
    BY <1>1, <1>4 DEF SendOps, ToServer, serverVars
  <1>5. ASSUME NEW n \in 0..MaxBatch, SendOpsFails(d, n) PROVE Elsewhere(c)
    BY <1>1, <1>5 DEF SendOpsFails, DropRemoteDoc, serverVars, netVars
  <1>6. CASE DisconnectFile(d)
    BY <1>1, <1>6 DEF DisconnectFile, DropRemoteDoc, ToServer, serverVars, boundVars
  <1> QED BY <1>2, <1>3, <1>4, <1>5, <1>6 DEF Editor

LEMMA ClientElsewhere ==
    ASSUME TypeInv, NEW c \in Clients, NEW d \in Clients, d # c, ClientHandles(d)
    PROVE  Elsewhere(c)
  <1> USE DEF Elsewhere, Still
  <1>1. /\ isOpen \in [Clients -> BOOLEAN] /\ notified \in [Clients -> BOOLEAN]
        /\ base \in [Clients -> Nat] /\ lastSent \in [Clients -> Nat]
        /\ global \in [Clients -> Seq(Op)] /\ buffer \in [Clients -> Seq(Op)]
        /\ toServer \in [Clients -> Seq(BatchMsg)] /\ toClient \in [Clients -> Seq(ClientMsg)]
    BY DEF TypeInv, ServerType, ClientType, EngineType, NetType, BoundType
  <1>2. PICK i : HandleSnapshot(d, i) \/ HandleOpFromServer(d, i) \/ HandleDocFatal(d, i)
    BY DEF ClientHandles
  <1>3. UNCHANGED <<history, subscribers, up, opens>>
    BY <1>2 DEF HandleSnapshot, HandleOpFromServer, HandleDocFatal, serverVars, boundVars
  <1>4. PICK msgs : ClientTakes(d, i, msgs)
    BY <1>2 DEF HandleSnapshot, HandleOpFromServer, HandleDocFatal
  <1>5. toServer'[c] = toServer[c] /\ toClient'[c] = toClient[c]
    BY <1>1, <1>4 DEF ClientTakes, ToServer
  <1>6. /\ isOpen'[c] = isOpen[c] /\ base'[c] = base[c] /\ global'[c] = global[c]
        /\ buffer'[c] = buffer[c] /\ notified'[c] = notified[c] /\ lastSent'[c] = lastSent[c]
    <2>1. CASE HandleSnapshot(d, i)
      BY <1>1, <2>1 DEF HandleSnapshot, NewRemoteDoc, clientVars, engineVars
    <2>2. CASE HandleOpFromServer(d, i)
      BY <1>1, <2>2 DEF HandleOpFromServer, clientVars, engineVars
    <2>3. CASE HandleDocFatal(d, i)
      BY <1>1, <2>3 DEF HandleDocFatal, DropRemoteDoc
    <2> QED BY <1>2, <2>1, <2>2, <2>3
  <1> QED BY <1>3, <1>5, <1>6

LEMMA ServerElsewhere ==
    ASSUME TypeInv, LogInv, NEW c \in Clients, SteadyInv(c), NEW d \in Clients, d # c,
           ServerHandles(d)
    PROVE  SteadyInv(c)'
  <1>1. PICK i \in Deliverable(d, toServer[d]) :
          \/ HandleRequestFile(d, i) \/ HandleRequestOps(d, i)
          \/ HandleOpFromClient(d, i) \/ HandleStopSendingOps(d, i)
    BY DEF ServerHandles
  <1>2. /\ toServer \in [Clients -> Seq(BatchMsg)] /\ toClient[c] \in Seq(ClientMsg)
        /\ subscribers \in [Clients -> Nat \cup {NotSubscribed}] /\ i \in 1..Len(toServer[d])
    BY DEF TypeInv, ServerType, NetType, Deliverable
  <1>3. UNCHANGED <<clientVars, up, boundVars>>
    BY <1>1 DEF HandleRequestFile, HandleRequestOps, HandleOpFromClient, HandleStopSendingOps
  <1>4. Still(c)
    BY <1>3 DEF Still, clientVars, engineVars, boundVars
  <1>5. ASSUME NEW reply, ServerTakes(d, i, reply)
        PROVE  /\ toServer'[c] = toServer[c] /\ toClient'[c] = Sent(toClient, c, reply[c])
               /\ reply[c] = << >> => toClient'[c] = toClient[c]
    <2>1. toServer'[c] = toServer[c] /\ toClient'[c] = Sent(toClient, c, reply[c])
      BY <1>2, <1>5 DEF ServerTakes
    <2>2. toClient[c] \o << >> = toClient[c]
      BY <1>2, ConcatEmptySeq
    <2> QED BY <2>1, <2>2 DEF Sent
  <1>6. NoReply[c] = << >> /\ \A msgs : ReplyTo(d, msgs)[c] = << >>
    BY DEF NoReply, ReplyTo
  <1>7. CASE HandleRequestFile(d, i)
    <2>1. toServer'[c] = toServer[c] /\ toClient'[c] = toClient[c]
      BY <1>5, <1>6, <1>7 DEF HandleRequestFile
    <2> QED BY <1>4, <1>7, <2>1, SameSteady DEF HandleRequestFile, serverVars
  <1>8. CASE HandleRequestOps(d, i)
    <2>1. toServer'[c] = toServer[c] /\ toClient'[c] = toClient[c]
      BY <1>5, <1>6, <1>8 DEF HandleRequestOps
    <2>2. history' = history /\ subscribers'[c] = subscribers[c]
      BY <1>2, <1>8 DEF HandleRequestOps
    <2> QED BY <1>4, <2>1, <2>2, SameSteady
  <1>9. CASE HandleStopSendingOps(d, i)
    <2>1. toServer'[c] = toServer[c] /\ toClient'[c] = toClient[c]
      BY <1>5, <1>6, <1>9 DEF HandleStopSendingOps
    <2>2. history' = history /\ subscribers'[c] = subscribers[c]
      BY <1>2, <1>9 DEF HandleStopSendingOps
    <2> QED BY <1>4, <2>1, <2>2, SameSteady
  <1>10. CASE HandleOpFromClient(d, i)
    <2> DEFINE t == toServer[d][i].ops
               subs == [subscribers EXCEPT ![d] = LastSeq(t)]
    <2>1. toServer[d][i].type = "OpFromClient"
      BY <1>10 DEF HandleOpFromClient
    <2> DEFINE fatal == ReplyTo(d, <<[type |-> "DocFatal"]>>)
    <2>2. \/ /\ UNCHANGED serverVars
             /\ ServerTakes(d, i, NoReply) \/ ServerTakes(d, i, fatal)
          \/ /\ history' = history \o t /\ subscribers' = subs
             /\ ServerTakes(d, i, Broadcast(subs, t))
      BY <1>10 DEF HandleOpFromClient
    <2>3. CASE /\ UNCHANGED serverVars
               /\ ServerTakes(d, i, NoReply) \/ ServerTakes(d, i, fatal)
      <3>1. toServer'[c] = toServer[c] /\ toClient'[c] = toClient[c]
        BY <1>5, <1>6, <2>3
      <3> QED BY <1>4, <2>3, <3>1, SameSteady DEF serverVars
    <2>4. CASE /\ history' = history \o t /\ subscribers' = subs
               /\ ServerTakes(d, i, Broadcast(subs, t))
      <3>1. t \in Seq(Op)
        <4>1. toServer[d] \in Seq(BatchMsg)
          BY <1>2
        <4>2. toServer[d][i] \in BatchMsg
          BY <1>2, <4>1, ElementOfSeq
        <4> QED BY <2>1, <4>2, MessageFields
      <3>2. \A k \in 1..Len(t) : t[k].site # c
        <4>1. FlightOk(toServer[d], InFlight(d))
          BY DEF LogInv
        <4>2. BatchOps(toServer[d][i]) \subseteq InFlight(d)
          BY <1>2, <4>1 DEF FlightOk
        <4>3. BatchOps(toServer[d][i]) = OpsIn(t)
          BY <2>1 DEF BatchOps
        <4> HIDE DEF t
        <4> QED BY <4>2, <4>3 DEF OpsIn, InFlight, MadeBy
      <3>3. subs[c] = subscribers[c] /\ subscribers'[c] = subscribers[c]
        BY <1>2, <2>4
      <3>4. toServer'[c] = toServer[c] /\ toClient'[c] = Sent(toClient, c, Broadcast(subs, t)[c])
        <4> HIDE DEF t, subs
        <4> QED BY <1>5, <2>4
      <3> HIDE DEF t, subs
      <3> QED BY <1>4, <2>4, <3>1, <3>2, <3>3, <3>4, GrowsSteady
    <2> QED BY <2>2, <2>3, <2>4
  <1> QED BY <1>1, <1>7, <1>8, <1>9, <1>10

LEMMA ResetSteady ==
    ASSUME TypeInv, NEW c \in Clients, SteadyInv(c), ResetDocFromDisk
    PROVE  SteadyInv(c)'
  <1>1. PICK op : op = [site |-> External, seq |-> external + 1, session |-> 0]
    OBVIOUS
  <1>2. op \in Op /\ op.site # c /\ history \in Seq(Op)
    BY <1>1, SiteAssumption DEF TypeInv, ServerType, BoundType, Op
  <1>3. /\ history' = Append(history, op)
        /\ toClient' = [d \in Clients |-> Sent(toClient, d, Broadcast(subscribers, <<op>>)[d])]
        /\ UNCHANGED <<subscribers, clientVars, up, toServer, opens>>
    BY <1>1 DEF ResetDocFromDisk
  <1>4. PICK t \in Seq(Op) : t = <<op>> /\ \A k \in 1..Len(t) : t[k] = op
    <2>1. <<op>> \in Seq(Op) /\ Len(<<op>>) = 1 /\ <<op>>[1] = op
      BY <1>2, Single
    <2>2. \A k \in 1..1 : k = 1
      OBVIOUS
    <2> QED BY <2>1, <2>2
  <1>5. history' = history \o t
    BY <1>2, <1>3, <1>4
  <1>6. Still(c) /\ toClient'[c] = Sent(toClient, c, Broadcast(subscribers, t)[c])
    BY <1>3, <1>4 DEF Still, clientVars, engineVars
  <1> QED BY <1>2, <1>3, <1>4, <1>5, <1>6, GrowsSteady

LEMMA ReconnectSteady ==
    ASSUME TypeInv, NEW c \in Clients, SteadyInv(c), NEW d \in Clients, Reconnect(d)
    PROVE  SteadyInv(c)'
  <1>1. up'[c] = up[c]
    <2>1. d # c
      BY DEF Reconnect, SteadyInv
    <2> QED BY <2>1 DEF Reconnect, TypeInv, NetType
  <1> QED BY <1>1, SameSteady
        DEF Reconnect, Still, serverVars, clientVars, engineVars, boundVars

-----------------------------------------------------------------------------
(* The invariant of steady connections *)

LEMMA SteadyOpensApart ==
    ASSUME Steady
    PROVE  OpensApart
  BY SiteAssumption DEF Steady, OpensApart, OpenedInTurn

LEMMA OwnSteady ==
    ASSUME AgreeInv, TypeInv', LogInv, SelfInv, SelfInv', AcksFit, Steady,
           NEW c \in Clients, ApartInv(c), SteadyInv(c),
           Editor(c) \/ ClientHandles(c) \/ ServerHandles(c)
    PROVE  SteadyInv(c)'
  <1>1. TypeInv
    BY DEF AgreeInv
  <1>2. OneBatch(toServer[c]) /\ OneBatch(toServer'[c])
    BY DEF SelfInv
  <1>3. CASE Editor(c)
    <2>1. ASSUME NEW n \in 0..MaxBatch, SendOps(c, n) \/ SendOpsFails(c, n) PROVE SteadyInv(c)'
      <3>1. SendOps(c, n)
        BY <1>1, <2>1, SendNeverFails
      <3> QED BY <1>1, <1>2, <3>1, SendSteady
    <2>2. \/ OpenFile(c) \/ OpenLocalFile(c) \/ DisconnectFile(c)
          \/ \E n \in 0..MaxBatch : SendOps(c, n) \/ SendOpsFails(c, n)
      BY <1>3 DEF Editor
    <2> QED BY <1>1, <2>1, <2>2, OpenFileSteady, OpenLocalSteady, DisconnectSteady
  <1> QED BY <1>1, <1>2, <1>3, ClientSteady, ServerSteady

LEMMA SteadyStep ==
    ASSUME AgreeInv, TypeInv', LogInv, SelfInv, SelfInv', AcksFit, Steady,
           NEW c \in Clients, ApartInv(c), SteadyInv(c), [Next]_vars
    PROVE  SteadyInv(c)'
  <1>1. TypeInv
    BY DEF AgreeInv
  <1>2. CASE UNCHANGED vars
    <2>1. Still(c)
      BY <1>2 DEF Still, vars, clientVars, engineVars, netVars, boundVars
    <2> QED BY <1>2, <2>1, SameSteady DEF vars, serverVars, netVars
  <1>3. CASE ResetDocFromDisk
    BY <1>1, <1>3, ResetSteady
  <1>4. ASSUME NEW d \in Clients, Editor(d) \/ ClientHandles(d) \/ ServerHandles(d)
        PROVE  SteadyInv(c)'
    <2>1. CASE d = c
      BY <1>4, <2>1, OwnSteady
    <2>2. CASE d # c
      <3>1. Elsewhere(c) \/ ServerHandles(d)
        BY <1>1, <1>4, <2>2, EditorElsewhere, ClientElsewhere
      <3> QED BY <1>1, <2>2, <3>1, SameSteady, ServerElsewhere DEF Elsewhere
    <2> QED BY <2>1, <2>2
  <1>5. ASSUME NEW d \in Clients, Break(d) \/ Restart(d) \/ Reconnect(d)
        PROVE  SteadyInv(c)'
    <2>1. ~(breaks < MaxBreaks)
      BY <1>1 DEF TypeInv, BoundType, Steady
    <2>2. Reconnect(d)
      BY <1>5, <2>1 DEF Break, Restart
    <2> QED BY <1>1, <2>2, ReconnectSteady
  <1> QED BY <1>2, <1>3, <1>4, <1>5 DEF Next

LEMMA SteadyInit ==
    ASSUME Init, NEW c \in Clients
    PROVE  SteadyInv(c)
  <1>1. PICK r : r = << >> /\ Len(r) = 0
    BY EmptySeq
  <1>2. \A k \in 1..Len(r) : FALSE
    BY <1>1
  <1>3. /\ isOpen[c] = FALSE /\ up[c] = TRUE /\ toServer[c] = r /\ toClient[c] = r
        /\ buffer[c] = r /\ subscribers[c] = NotSubscribed
    BY <1>1 DEF Init
  <1>4. up[c] /\ NoFatal(c) /\ OpenInv(c) /\ Announced(c)
    BY <1>2, <1>3 DEF NoFatal, Has, OpenInv, Announced
  <1>5. Ended(NotSubscribed, r, r)
    BY <1>1, <1>2 DEF Ended, Ends
  <1>6. ~Has(r, "RequestFile") /\ ~Has(r, "Snapshot")
    BY <1>2 DEF Has
  <1>7. ~Opening(c)
    BY <1>3, <1>6, OpeningHas
  <1>8. LocalInv(c) /\ ClosedInv(c)
    BY <1>1, <1>3, <1>5, <1>7 DEF LocalInv, ClosedInv
  <1>9. SeqInv(c)
    BY <1>2, <1>3 DEF SeqInv, NextSeqs
  <1> QED BY <1>4, <1>8, <1>9 DEF SteadyInv

LEMMA SteadyInvariant == Steady /\ Spec => [](AgreeInv /\ \A c \in Clients : SteadyInv(c))
  <1> SUFFICES ASSUME Steady
               PROVE  Spec => [](AgreeInv /\ \A c \in Clients : SteadyInv(c))
    OBVIOUS
  <1> DEFINE All   == \A c \in Clients : SteadyInv(c)
             Apart == \A c \in Clients : ApartInv(c)
  <1>1. OpensApart
    BY SteadyOpensApart
  <1>2. Spec => []AgreeInv /\ []TypeInv /\ []LogInv /\ []Apart
    BY AgreeInvariant, TypeInvariant, LogInvariant, ApartInvariant, PTL
  <1>3. Spec => []AcksFit /\ []SelfInv
    BY <1>1, NoneStale, SelfInvariant, AcknowledgementsFitApart, PTL
  <1>4. Init => All
    BY SteadyInit
  <1>5. ASSUME AgreeInv, TypeInv', LogInv, SelfInv, SelfInv', AcksFit, Apart, All, [Next]_vars
        PROVE  All'
    BY <1>5, SteadyStep
  <1> HIDE DEF All, Apart
  <1>6. Spec => []All
    BY <1>2, <1>3, <1>4, <1>5, PTL DEF Spec
  <1>7. Spec => [](AgreeInv /\ All)
    BY <1>2, <1>6, PTL
  <1> QED BY <1>7 DEF All

LEMMA SteadyIsEnough ==
    ASSUME Steady, AgreeInv, \A c \in Clients : SteadyInv(c)
    PROVE  NoDocFatal /\ OpenIsSubscribed /\ NoGap /\ RemoteOpsAnnounced
  <1>1. NoDocFatal
    BY DEF NoDocFatal, SteadyInv, NoFatal, Has
  <1>2. RemoteOpsAnnounced
    BY DEF RemoteOpsAnnounced, SteadyInv, Announced
  <1>3. OpenIsSubscribed
    <2> SUFFICES ASSUME NEW c \in Clients, isOpen[c], subscribers[c] = NotSubscribed
                 PROVE  \E i \in 1..Len(toServer[c]) : toServer[c][i].type = "RequestOps"
      BY DEF OpenIsSubscribed
    <2>1. AsksFor(toServer[c], base[c])
      BY DEF SteadyInv, OpenInv
    <2>2. Len(toServer[c]) \in Nat
      BY LenProperties DEF AgreeInv, TypeInv, NetType
    <2> QED BY <2>1, <2>2, AsksParts DEF Has
  <1>4. NoGap
    <2> SUFFICES ASSUME NEW c \in Clients, NEW i \in Deliverable(c, toClient[c]), isOpen[c],
                        toClient[c][i].type = "OpFromServer"
                 PROVE  toClient[c][i].first <= Received(c) + 1
      BY DEF NoGap
    <2>1. i = 1 /\ 1 \in 1..Len(toClient[c]) /\ toClient[c] \in Seq(ClientMsg)
      BY DEF Deliverable, Steady, AgreeInv, TypeInv, NetType
    <2>2. Brings(toClient[c], Received(c), Len(history))
      <3>1. toClient[c] # << >>
        BY <2>1, EmptySeq
      <3> QED BY <3>1 DEF SteadyInv, OpenInv
    <2>3. Shorter(Without(toClient[c], 1), toClient[c])
      BY <2>1, WithoutIsShorter
    <2>4. toClient[c][1].first = Received(c) + 1
      BY <2>2, <2>3, BringsFirst
    <2>5. Received(c) \in Nat
      BY TakenInHistory DEF Received
    <2> QED BY <2>1, <2>4, <2>5
  <1> QED BY <1>1, <1>2, <1>3, <1>4

LEMMA SteadyProperties ==
    Steady /\ Spec => [](NoDocFatal /\ OpenIsSubscribed /\ NoGap /\ RemoteOpsAnnounced)
  <1> DEFINE All == NoDocFatal /\ OpenIsSubscribed /\ NoGap /\ RemoteOpsAnnounced
             Inv == AgreeInv /\ \A c \in Clients : SteadyInv(c)
  <1> SUFFICES ASSUME Steady PROVE Spec => []All
    OBVIOUS
  <1>1. Inv => All
    BY SteadyIsEnough
  <1>2. Spec => []Inv
    BY SteadyInvariant
  <1> HIDE DEF All, Inv
  <1> QED BY <1>1, <1>2, PTL

\* Between hosts whose connections stay up and keep the order, the owner never
\* answers a batch with DocFatal: subscribed, it has the site seq that every
\* batch it gets follows.  The comment in handle_op_from_client claims it for
\* connections that break as well, which is wrong.
THEOREM NoBogusOps == Steady /\ Spec => []NoDocFatal
  BY SteadyProperties, PTL

\* An open document is subscribed, or its RequestOps is on the way: a
\* StopSendingOps of an earlier RemoteDoc never ends a later subscription.
THEOREM StaysSubscribed == Steady /\ Spec => []OpenIsSubscribed
  BY SteadyProperties, PTL

\* The ops that an open document is sent follow what it has received without a
\* gap (handle_op_from_server never has to ask again).
THEOREM OpsWithoutGap == Steady /\ Spec => []NoGap
  BY SteadyProperties, PTL

\* The editor is told of every op of another host in the buffer, although only
\* the first op of a message is looked at (op_is_not_ours).
THEOREM OthersOpsAnnounced == Steady /\ Spec => []RemoteOpsAnnounced
  BY SteadyProperties, PTL
=============================================================================
