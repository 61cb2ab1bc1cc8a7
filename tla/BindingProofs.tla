---------------------------- MODULE BindingProofs ----------------------------
(***************************************************************************)
(* Proofs about Binding, for any number of clients, requests and faults,   *)
(* any trust lists and any length of the channels: type correctness,       *)
(* StopLeavesNoClient and TrustConfirmed.                                  *)
(***************************************************************************)
EXTENDS Binding, SequenceTheorems, FiniteSetTheorems, TLAPS

Message == [kind : {"Bound", "Trusted", "Stopped"}, trusted : Lists]
Command == Lists \cup {Shutdown}
Entry == [status : {"none", "Binding", "Bound", "Disconnected", "Failed"},
          trusted : Lists, sent : BOOLEAN]

-----------------------------------------------------------------------------
(* Channels *)

LEMMA AppendType ==
    ASSUME NEW S, NEW q \in Seq(S), NEW m \in S
    PROVE  /\ Append(q, m) \in Seq(S) /\ Len(Append(q, m)) = Len(q) + 1
           /\ Len(q) \in Nat /\ Append(q, m) # <<>>
           /\ \A i \in 1 .. Len(q) : Append(q, m)[i] = q[i]
           /\ Append(q, m)[Len(q) + 1] = m
  BY AppendProperties, LenProperties

LEMMA TailType ==
    ASSUME NEW S, NEW q \in Seq(S), q # <<>>
    PROVE  /\ Tail(q) \in Seq(S) /\ Head(q) \in S /\ Head(q) = q[1]
           /\ Len(q) \in Nat \ {0} /\ Len(Tail(q)) = Len(q) - 1
           /\ \A i \in 1 .. Len(q) - 1 : Tail(q)[i] = q[i + 1]
  OBVIOUS

-----------------------------------------------------------------------------
(* Type correctness *)

WorldType == want \in BOOLEAN /\ trusted \in Lists /\ entry \in Entry
ClientType ==
    /\ client \in Clients \cup {None}
    /\ actor \in [Clients -> {"none", "connecting", "running", "ending"}]
    /\ offer \in [Clients -> Lists]
    /\ cmds \in [Clients -> Seq(Command)]
WireType == up \in [Clients -> Seq(Lists)] /\ down \in [Clients -> Seq(Lists)]
ServerType ==
    /\ conn \in [Clients -> {"none", "accepted", "open"}]
    /\ registry \in [conn : Clients \cup {None}, trusted : Lists]
QueueType == queue \in Seq(Message) /\ Len(queue) <= MaxQueue
BoundType == requests \in 0 .. MaxRequests /\ faults \in 0 .. MaxFaults

TypeInv == WorldType /\ ClientType /\ WireType /\ ServerType /\ QueueType /\ BoundType

LEMMA Types == TypeOK <=> TypeInv
  BY DEF TypeOK, TypeInv, WorldType, ClientType, WireType, ServerType, QueueType, BoundType, Entry,
         Command, Message

\* The helpers of the actions keep the part of the state they change typed.
LEMMA BindType ==
    ASSUME ClientType, NEW list \in Lists, Bind(list)
    PROVE  ClientType'
  <1>1. CASE client # None
    BY <1>1 DEF Bind, client_side, ClientType
  <1>2. CASE client = None
    <2> DEFINE c == CHOOSE c \in Unused : TRUE
    <2>1. c \in Clients
      BY <1>2 DEF Bind, Unused
    <2>2. /\ client' = c /\ actor' = [actor EXCEPT ![c] = "connecting"]
          /\ offer' = [offer EXCEPT ![c] = list] /\ cmds' = cmds
      BY <1>2 DEF Bind
    <2> HIDE DEF c
    <2> QED BY <2>1, <2>2 DEF ClientType
  <1> QED BY <1>1, <1>2

LEMMA RemoveType ==
    ASSUME ClientType, RemoveClient
    PROVE  ClientType'
  <1>1. \A c \in Clients : cmds[c] \in Seq(Command) /\ Append(cmds[c], Shutdown) \in Seq(Command)
    BY AppendType DEF ClientType, Command
  <1> QED BY <1>1 DEF RemoveClient, ClientType

LEMMA CleanupType ==
    ASSUME ClientType, WireType, NEW c \in Clients, Cleanup(c), UNCHANGED <<offer, up>>
    PROVE  ClientType' /\ WireType'
  <1>1. <<>> \in Seq(Command) /\ <<>> \in Seq(Lists)
    BY EmptySeq
  <1> QED BY <1>1 DEF Cleanup, ClientType, WireType

LEMMA QueuedType ==
    ASSUME QueueType, NEW kind \in {"Bound", "Trusted", "Stopped"}, NEW list \in Lists,
           Queued(kind, list)
    PROVE  QueueType'
  <1>1. [kind |-> kind, trusted |-> list] \in Message
    BY DEF Message
  <1>2. MaxQueue \in Nat
    BY BoundsAssumption
  <1> QED BY <1>1, <1>2, AppendType DEF Queued, QueueType

LEMMA HandledType ==
    ASSUME QueueType, NEW kind, Handled(kind)
    PROVE  QueueType' /\ Head(queue) \in Message /\ Head(queue).trusted \in Lists
  <1>1. /\ Tail(queue) \in Seq(Message) /\ Head(queue) \in Message
        /\ Len(queue) \in Nat /\ Len(Tail(queue)) = Len(queue) - 1
    BY TailType DEF Handled, QueueType
  <1>2. Head(queue).trusted \in Lists
    BY <1>1 DEF Message
  <1>3. MaxQueue \in Nat
    BY BoundsAssumption
  <1> QED BY <1>1, <1>2, <1>3 DEF Handled, QueueType

LEMMA FaultType ==
    ASSUME BoundType, Fault \/ UNCHANGED faults
    PROVE  faults' \in 0 .. MaxFaults
  BY BoundsAssumption DEF Fault, BoundType

\* The editor's requests,
LEMMA RequestTypes ==
    ASSUME TypeInv, AcceptConnection \/ StopAccepting \/ UpdateConfig
    PROVE  TypeInv'
  <1> USE DEF client_side, server_side, wires
  <1>1. WorldType /\ ClientType /\ WireType /\ ServerType /\ QueueType /\ BoundType
    BY DEF TypeInv
  <1>2. requests' \in 0 .. MaxRequests
    BY <1>1, BoundsAssumption DEF AcceptConnection, StopAccepting, UpdateConfig, Request, BoundType
  <1>3. UNCHANGED <<server_side, wires, queue, faults>>
    BY DEF AcceptConnection, StopAccepting, UpdateConfig
  <1>4. CASE AcceptConnection
    <2>1. ClientType'
      <3>1. CASE entry.status \in {"Bound", "Binding"}
        BY <1>1, <1>4, <3>1 DEF AcceptConnection, ClientType
      <3>2. CASE entry.status \notin {"Bound", "Binding"}
        BY <1>1, <1>4, <3>2, BindType DEF AcceptConnection, WorldType
      <3> QED BY <3>1, <3>2
    <2>2. WorldType'
      BY <1>1, <1>4 DEF AcceptConnection, WorldType, Binding, Entry
    <2> QED BY <1>1, <1>2, <1>3, <2>1, <2>2 DEF TypeInv, WireType, ServerType, QueueType, BoundType
  <1>5. CASE StopAccepting \/ UpdateConfig
    BY <1>1, <1>2, <1>3, <1>5
       DEF TypeInv, StopAccepting, UpdateConfig, WorldType, ClientType, WireType, ServerType, QueueType,
           BoundType
  <1> QED BY <1>4, <1>5

\* fix_world_signaling,
LEMMA FixWorldTypes ==
    ASSUME TypeInv, FixWorld
    PROVE  TypeInv'
  <1> USE DEF client_side, server_side, wires
  <1>1. WorldType /\ ClientType /\ WireType /\ ServerType /\ QueueType /\ BoundType
    BY DEF TypeInv
  <1>2. UNCHANGED <<want, trusted, server_side, wires, queue, requests>>
    BY DEF FixWorld, BindTimeout, TearDown, Rebind, SyncTrust
  <1>3. faults' \in 0 .. MaxFaults
    BY <1>1, FaultType DEF FixWorld, BindTimeout, TearDown, Rebind, SyncTrust
  <1>4. NoEntry \in Entry
    BY ListsAssumption DEF NoEntry, Entry
  <1>5. WorldType'
    <2>1. entry' \in {NoEntry, Binding(entry), [entry EXCEPT !.status = "Failed"],
                      [entry EXCEPT !.sent = TRUE]}
      BY DEF FixWorld, BindTimeout, TearDown, Rebind, SyncTrust
    <2> QED BY <1>1, <1>2, <1>4, <2>1 DEF WorldType, Binding, Entry
  <1>6. ClientType'
    <2>1. CASE BindTimeout \/ TearDown
      BY <1>1, <2>1, RemoveType DEF BindTimeout, TearDown
    <2>2. CASE Rebind
      BY <1>1, <2>2, BindType, ListsAssumption DEF Rebind
    <2>3. CASE SyncTrust
      <3>1. CASE client = None
        BY <1>1, <2>3, <3>1 DEF SyncTrust, ClientType
      <3>2. CASE client # None
        <4>1. client \in Clients /\ cmds[client] \in Seq(Command) /\ trusted \in Command
          BY <1>1, <3>2 DEF ClientType, WorldType, Command
        <4>2. Append(cmds[client], trusted) \in Seq(Command)
          BY <4>1, AppendType
        <4> QED BY <1>1, <2>3, <3>2, <4>1, <4>2 DEF SyncTrust, ClientType
      <3> QED BY <3>1, <3>2
    <2> QED BY <2>1, <2>2, <2>3 DEF FixWorld
  <1> QED BY <1>1, <1>2, <1>3, <1>5, <1>6 DEF TypeInv, WireType, ServerType, QueueType, BoundType

\* the handlers of the clients' messages,
LEMMA HandleTypes ==
    ASSUME TypeInv, Handle
    PROVE  TypeInv'
  <1> USE DEF client_side, server_side, wires
  <1>1. WorldType /\ ClientType /\ WireType /\ ServerType /\ QueueType /\ BoundType
    BY DEF TypeInv
  <1>2. UNCHANGED <<want, trusted, client_side, server_side, wires, requests, faults>>
    BY DEF Handle, HandleBound, HandleTrusted, HandleStopped
  <1>3. QueueType' /\ Head(queue).trusted \in Lists
    BY <1>1, HandledType DEF Handle, HandleBound, HandleTrusted, HandleStopped
  <1>4. entry' \in Entry
    <2>1. CASE HandleBound
      BY <1>3, <2>1 DEF HandleBound, Entry
    <2>2. CASE HandleTrusted
      BY <1>1, <1>3, <2>2 DEF HandleTrusted, WorldType, Entry
    <2>3. CASE HandleStopped
      BY <1>1, <2>3 DEF HandleStopped, WorldType, Entry
    <2> QED BY <2>1, <2>2, <2>3 DEF Handle
  <1> QED
    BY <1>1, <1>2, <1>3, <1>4 DEF TypeInv, WorldType, ClientType, WireType, ServerType, BoundType

\* the tasks of the clients,
LEMMA ClientTypes ==
    ASSUME TypeInv, NEW c \in Clients, Client(c)
    PROVE  TypeInv'
  <1> USE DEF world, client_side, server_side, wires
  <1>1. WorldType /\ ClientType /\ WireType /\ ServerType /\ QueueType /\ BoundType
    BY DEF TypeInv
  <1>2. UNCHANGED <<world, server_side, requests>>
    BY DEF Client, ClientBound, ClientSends, ClientReceives, ClientEnds, ClientReports,
           ClientConnectFails
  <1>3. faults' \in 0 .. MaxFaults
    BY <1>1, FaultType DEF Client, ClientBound, ClientSends, ClientReceives, ClientEnds,
                           ClientReports, ClientConnectFails
  <1>4. CASE ClientBound(c)
    <2>1. QueueType'
      BY <1>1, <1>4, QueuedType DEF ClientBound, ClientType
    <2> QED BY <1>1, <1>2, <1>3, <1>4, <2>1
            DEF TypeInv, ClientBound, WorldType, ClientType, WireType, ServerType, BoundType
  <1>5. CASE ClientSends(c)
    <2>1. /\ Tail(cmds[c]) \in Seq(Command) /\ Head(cmds[c]) \in Lists
      BY <1>1, <1>5, TailType DEF ClientSends, ClientType, Command
    <2>2. Append(up[c], Head(cmds[c])) \in Seq(Lists)
      BY <1>1, <2>1, AppendType DEF WireType
    <2>3. cmds' \in [Clients -> Seq(Command)] /\ up' \in [Clients -> Seq(Lists)]
      BY <1>1, <1>5, <2>1, <2>2 DEF ClientSends, ClientType, WireType
    <2> QED BY <1>1, <1>2, <1>3, <1>5, <2>3
            DEF TypeInv, ClientSends, WorldType, ClientType, WireType, ServerType, QueueType, BoundType
  <1>6. CASE ClientReceives(c)
    <2>1. Tail(down[c]) \in Seq(Lists) /\ Head(down[c]) \in Lists
      BY <1>1, <1>6, TailType DEF ClientReceives, WireType
    <2>2. QueueType'
      BY <1>1, <1>6, <2>1, QueuedType DEF ClientReceives
    <2> QED BY <1>1, <1>2, <1>3, <1>6, <2>1, <2>2
            DEF TypeInv, ClientReceives, WorldType, ClientType, WireType, ServerType, BoundType
  <1>7. CASE ClientEnds(c) \/ ClientConnectFails(c)
    <2>1. ClientType' /\ WireType'
      BY <1>1, <1>7, CleanupType DEF ClientEnds, ClientConnectFails
    <2>2. queue' = queue
      BY <1>7 DEF ClientEnds, ClientConnectFails
    <2> QED BY <1>1, <1>2, <1>3, <2>1, <2>2 DEF TypeInv, WorldType, ServerType, QueueType, BoundType
  <1>8. CASE ClientReports(c)
    <2>1. QueueType'
      BY <1>1, <1>8, QueuedType, ListsAssumption DEF ClientReports
    <2> QED BY <1>1, <1>2, <1>3, <1>8, <2>1
            DEF TypeInv, ClientReports, WorldType, ClientType, WireType, ServerType, BoundType
  <1> QED BY <1>4, <1>5, <1>6, <1>7, <1>8 DEF Client

\* and the server.
LEMMA ServerTypes ==
    ASSUME TypeInv, NEW c \in Clients, Server(c)
    PROVE  TypeInv'
  <1> USE DEF world, client_side, server_side, wires
  <1>1. WorldType /\ ClientType /\ WireType /\ ServerType /\ QueueType /\ BoundType
    BY DEF TypeInv
  <1>2. UNCHANGED <<world, client_side, queue, requests, faults>>
    BY DEF Server, ServerAccepts, ServerRegisters, ServerTrusts, ServerCloses
  <1>3. ServerType' /\ WireType'
    <2>1. CASE ServerAccepts(c) \/ ServerRegisters(c)
      <3>1. [conn |-> c, trusted |-> offer[c]] \in [conn : Clients \cup {None}, trusted : Lists]
        BY <1>1 DEF ClientType
      <3>2. registry' \in [conn : Clients \cup {None}, trusted : Lists]
        BY <1>1, <2>1, <3>1 DEF ServerAccepts, ServerRegisters, ServerType
      <3>3. conn' \in [Clients -> {"none", "accepted", "open"}] /\ UNCHANGED wires
        BY <1>1, <2>1 DEF ServerAccepts, ServerRegisters, ServerType
      <3> QED BY <1>1, <3>2, <3>3 DEF ServerType, WireType
    <2>2. CASE ServerTrusts(c)
      <3>1. Tail(up[c]) \in Seq(Lists) /\ Head(up[c]) \in Lists
        BY <1>1, <2>2, TailType DEF ServerTrusts, WireType
      <3>2. Append(down[c], Head(up[c])) \in Seq(Lists)
        BY <1>1, <3>1, AppendType DEF WireType
      <3>3. registry' \in [conn : Clients \cup {None}, trusted : Lists]
        BY <1>1, <2>2, <3>1 DEF ServerTrusts, ServerType
      <3>4. up' \in [Clients -> Seq(Lists)] /\ down' \in [Clients -> Seq(Lists)]
        BY <1>1, <2>2, <3>1, <3>2 DEF ServerTrusts, WireType
      <3> QED BY <1>1, <2>2, <3>3, <3>4 DEF ServerTrusts, ServerType, WireType
    <2>3. CASE ServerCloses(c)
      <3>1. <<>> \in Seq(Lists) /\ NoRegistry \in [conn : Clients \cup {None}, trusted : Lists]
        BY EmptySeq, ListsAssumption DEF NoRegistry
      <3> QED BY <1>1, <2>3, <3>1 DEF ServerCloses, ServerType, WireType
    <2> QED BY <2>1, <2>2, <2>3 DEF Server
  <1> QED BY <1>1, <1>2, <1>3 DEF TypeInv, WorldType, ClientType, QueueType, BoundType

LEMMA StepTypes ==
    ASSUME TypeInv, [Next]_vars
    PROVE  TypeInv'
  <1>1. CASE Next
    BY <1>1, RequestTypes, FixWorldTypes, HandleTypes, ClientTypes, ServerTypes DEF Next
  <1>2. CASE UNCHANGED vars
    BY <1>2 DEF vars, TypeInv, WorldType, ClientType, WireType, ServerType, QueueType, BoundType
  <1> QED BY <1>1, <1>2

LEMMA TypeInvariant == Spec => []TypeInv
  <1>1. ASSUME Init PROVE TypeInv
    <2> USE <1>1 DEF Init
    <2>1. WorldType
      BY ListsAssumption DEF WorldType, NoEntry, Entry
    <2>2. QueueType
      <3>1. <<>> \in Seq(Message) /\ Len(<<>>) = 0
        OBVIOUS
      <3> QED BY <3>1, BoundsAssumption DEF QueueType
    <2>3. BoundType
      BY BoundsAssumption DEF BoundType
    <2>4. ClientType /\ WireType /\ ServerType
      BY ListsAssumption, EmptySeq DEF ClientType, WireType, ServerType, NoRegistry
    <2> QED BY <2>1, <2>2, <2>3, <2>4 DEF TypeInv
  <1> QED BY <1>1, StepTypes, PTL DEF Spec

\* The state of the host, of its clients and of the server stays typed, and
\* the channel to the host within its bound, whatever clients overlap.
THEOREM TypeCorrect == Spec => []TypeOK
  BY TypeInvariant, Types, PTL

-----------------------------------------------------------------------------
(***************************************************************************)
(* The entry and the client.  An entry that is not there has no client: it *)
(* goes only with the client (RemoveClient), and a client is made only     *)
(* with an entry that is Binding.  A message of a client never makes an    *)
(* entry vanish, and takes nothing into the map.                           *)
(***************************************************************************)
EntryInv == entry.status = "none" => entry = NoEntry /\ client = None

LEMMA EntryStep ==
    ASSUME TypeInv, EntryInv, [Next]_vars
    PROVE  EntryInv'
  <1> USE DEF client_side, server_side, wires, world
  <1>1. entry \in Entry
    BY DEF TypeInv, WorldType
  <1>2. CASE AcceptConnection
    BY <1>1, <1>2 DEF AcceptConnection, EntryInv, Binding, Entry
  <1>3. CASE StopAccepting \/ UpdateConfig
    BY <1>3 DEF StopAccepting, UpdateConfig, EntryInv
  <1>4. CASE FixWorld
    <2>1. CASE BindTimeout \/ TearDown
      BY <1>1, <2>1 DEF BindTimeout, TearDown, RemoveClient, EntryInv, NoEntry, Entry
    <2>2. CASE Rebind \/ SyncTrust
      BY <1>1, <2>2 DEF Rebind, SyncTrust, Binding, EntryInv, Entry
    <2> QED BY <1>4, <2>1, <2>2 DEF FixWorld
  <1>5. CASE Handle
    <2>1. client' = client
      BY <1>5 DEF Handle, HandleBound, HandleTrusted, HandleStopped
    <2>2. CASE HandleBound
      BY <2>2 DEF HandleBound, EntryInv
    <2>3. CASE HandleTrusted \/ HandleStopped
      BY <1>1, <2>1, <2>3 DEF HandleTrusted, HandleStopped, EntryInv, Entry
    <2> QED BY <1>5, <2>2, <2>3 DEF Handle
  <1>6. ASSUME NEW c \in Clients, Client(c) \/ Server(c) PROVE EntryInv'
    <2>1. entry' = entry /\ client' \in {client, None}
      BY <1>6
         DEF Client, ClientBound, ClientSends, ClientReceives, ClientEnds, ClientReports,
             ClientConnectFails, Cleanup, Server, ServerAccepts, ServerRegisters, ServerTrusts,
             ServerCloses
    <2> QED BY <2>1 DEF EntryInv
  <1>7. CASE UNCHANGED vars
    BY <1>7 DEF vars, EntryInv
  <1> QED BY <1>2, <1>3, <1>4, <1>5, <1>6, <1>7 DEF Next

\* After StopAccepting nothing stands in the way of the next AcceptConnection:
\* with the entry gone the map of the channel has no client of the address.
THEOREM StopLeavesNone == Spec => []StopLeavesNoClient
  <1>1. Init => EntryInv
    BY DEF Init, EntryInv
  <1>2. EntryInv => StopLeavesNoClient
    BY DEF EntryInv, StopLeavesNoClient, Settled, NoEntry
  <1> QED BY <1>1, <1>2, EntryStep, TypeInvariant, PTL DEF Spec

-----------------------------------------------------------------------------
(***************************************************************************)
(* The lists of the host and of the server.  While a client is the only    *)
(* one, and the entry is Bound once the queue is handled, the list the     *)
(* entry then ends with (of the last Trusted under way, or else of the     *)
(* last message in the queue, or else of the entry) is the one the server  *)
(* has registered, or will from the headers of the connection.             *)
(***************************************************************************)
\* The messages of q leave an entry of this status Bound.
EndsBound(q, status) ==
    \/ \E i \in 1 .. Len(q) :
         q[i].kind = "Bound" /\ \A j \in i .. Len(q) : q[j].kind # "Stopped"
    \/ status = "Bound" /\ \A j \in 1 .. Len(q) : q[j].kind # "Stopped"

\* The list an entry with this list ends with.
FinalList(d, q, list) ==
    IF d # <<>> THEN d[Len(d)] ELSE IF q # <<>> THEN q[Len(q)].trusted ELSE list

Alone(c) == \A d \in Clients : d # c => actor[d] = "none"
OnlyOpen(c) == conn[c] = "open" /\ \A d \in Clients : d # c => conn[d] # "open"
Registered(c, list) == OnlyOpen(c) /\ registry # NoRegistry => registry.trusted = list
Final(c) == FinalList(down[c], queue, entry.trusted)

WiresInv(c) ==
    /\ conn[c] = "none" => up[c] = <<>>
    /\ conn[c] # "open" => down[c] = <<>>
ConnectingInv(c) ==
    actor[c] = "connecting" => up[c] = <<>> /\ down[c] = <<>> /\ Registered(c, offer[c])
RunningInv(c) ==
    actor[c] = "running" /\ Alone(c) /\ EndsBound(queue, entry.status)
      => /\ conn[c] = "accepted" => Final(c) = offer[c]
         /\ Registered(c, Final(c))
TrustInv(c) == WiresInv(c) /\ ConnectingInv(c) /\ RunningInv(c)

\* Handling the first message keeps what the queue ends with.
LEMMA HandledEnd ==
    ASSUME NEW q \in Seq(Message), q # <<>>, NEW e \in Entry, NEW f \in Entry,
           \/ Head(q).kind = "Bound" /\ f.trusted = Head(q).trusted
           \/ Head(q).kind = "Trusted" /\ f.status = e.status
              /\ (f.trusted = Head(q).trusted \/ f.status # "Bound")
           \/ Head(q).kind = "Stopped" /\ f.status # "Bound",
           EndsBound(Tail(q), f.status), NEW d
    PROVE  EndsBound(q, e.status) /\ FinalList(d, Tail(q), f.trusted) = FinalList(d, q, e.trusted)
  <1> DEFINE t == Tail(q)
  <1>1. /\ Head(q) = q[1] /\ Len(q) \in Nat \ {0} /\ Len(t) = Len(q) - 1
        /\ \A i \in 1 .. Len(q) - 1 : t[i] = q[i + 1]
    BY TailType
  <1>2. t # <<>> => Len(t) # 0
    BY TailType
  <1>a. t \in Seq(Message)
    BY TailType
  <1>b. EndsBound(t, f.status)
    OBVIOUS
  <1> HIDE DEF t
  <1>3. ASSUME NEW i \in 1 .. Len(t), t[i].kind = "Bound",
               \A j \in i .. Len(t) : t[j].kind # "Stopped"
        PROVE  EndsBound(q, e.status)
    <2>1. i + 1 \in 1 .. Len(q) /\ q[i + 1].kind = "Bound"
      BY <1>1, <1>3
    <2>2. ASSUME NEW j \in i + 1 .. Len(q) PROVE q[j].kind # "Stopped"
      <3>1. j - 1 \in i .. Len(t) /\ j - 1 \in 1 .. Len(q) - 1 /\ j - 1 + 1 = j
        BY <1>1
      <3> QED BY <1>1, <1>3, <3>1
    <2> QED BY <2>1, <2>2 DEF EndsBound
  <1>4. ASSUME f.status = "Bound", \A j \in 1 .. Len(t) : t[j].kind # "Stopped"
        PROVE  EndsBound(q, e.status)
    <2>1. q[1].kind \in {"Bound", "Trusted"}
      BY <1>1, <1>4
    <2>2. ASSUME NEW j \in 1 .. Len(q) PROVE q[j].kind # "Stopped"
      <3>1. CASE j = 1
        BY <2>1, <3>1
      <3>2. CASE j # 1
        <4>1. j - 1 \in 1 .. Len(t) /\ j - 1 \in 1 .. Len(q) - 1 /\ j - 1 + 1 = j
          BY <1>1, <3>2
        <4> QED BY <1>1, <1>4, <4>1
      <3> QED BY <3>1, <3>2
    <2>3. CASE q[1].kind = "Bound"
      <3>1. 1 \in 1 .. Len(q)
        BY <1>1
      <3> QED BY <2>2, <2>3, <3>1 DEF EndsBound
    <2>4. CASE q[1].kind = "Trusted"
      <3>1. e.status = "Bound"
        BY <1>1, <1>4, <2>4
      <3> QED BY <2>2, <3>1 DEF EndsBound
    <2> QED BY <2>1, <2>3, <2>4
  <1>5. EndsBound(q, e.status)
    BY <1>b, <1>3, <1>4 DEF EndsBound
  <1>6. CASE t = <<>>
    <2>1. Len(t) = 0 /\ Len(q) = 1
      BY <1>1, <1>6
    <2>2. f.status = "Bound"
      BY <1>b, <2>1 DEF EndsBound
    <2>3. f.trusted = q[Len(q)].trusted
      BY <1>1, <2>1, <2>2
    <2> QED BY <1>5, <1>6, <2>3 DEF FinalList, t
  <1>7. CASE t # <<>>
    <2>1. Len(t) \in 1 .. Len(q) - 1 /\ t[Len(t)] = q[Len(q)]
      BY <1>1, <1>2, <1>7
    <2> QED BY <1>5, <1>7, <2>1 DEF FinalList, t
  <1> QED BY <1>6, <1>7

\* So does a message at the end of the queue, but that it makes up the list,
\* and Bound or Stopped the status.
LEMMA QueuedList ==
    ASSUME NEW q \in Seq(Message), NEW m \in Message, NEW d, NEW list
    PROVE  FinalList(d, Append(q, m), list) = IF d # <<>> THEN d[Len(d)] ELSE m.trusted
  <1>1. /\ Len(Append(q, m)) = Len(q) + 1 /\ Append(q, m) # <<>>
        /\ Append(q, m)[Len(q) + 1] = m
    BY AppendType
  <1> QED BY <1>1 DEF FinalList

LEMMA QueuedEnd ==
    ASSUME NEW q \in Seq(Message), NEW m \in Message, NEW status
    PROVE  /\ m.kind = "Trusted" /\ EndsBound(Append(q, m), status) => EndsBound(q, status)
           /\ m.kind = "Stopped" => ~EndsBound(Append(q, m), status)
  <1> DEFINE r == Append(q, m)
  <1>1. /\ r \in Seq(Message) /\ Len(r) = Len(q) + 1 /\ Len(q) \in Nat /\ r # <<>>
        /\ r[Len(q) + 1] = m /\ \A i \in 1 .. Len(q) : r[i] = q[i]
    BY AppendType
  <1> HIDE DEF r
  <1>2. ASSUME m.kind = "Stopped" PROVE ~EndsBound(r, status)
    <2>1. r[Len(r)].kind = "Stopped" /\ \A i \in 1 .. Len(r) : Len(r) \in i .. Len(r)
      BY <1>1, <1>2
    <2>2. Len(r) \in 1 .. Len(r)
      BY <1>1
    <2> QED BY <2>1, <2>2 DEF EndsBound
  <1>3. ASSUME m.kind = "Trusted", EndsBound(r, status) PROVE EndsBound(q, status)
    <2>1. ASSUME NEW i \in 1 .. Len(r), r[i].kind = "Bound",
                 \A j \in i .. Len(r) : r[j].kind # "Stopped"
          PROVE  EndsBound(q, status)
      <3>1. i # Len(q) + 1
        BY <1>1, <1>3, <2>1
      <3>2. i \in 1 .. Len(q) /\ q[i].kind = "Bound"
        BY <1>1, <2>1, <3>1
      <3>3. ASSUME NEW j \in i .. Len(q) PROVE q[j].kind # "Stopped"
        BY <1>1, <2>1, <3>2
      <3> QED BY <3>2, <3>3 DEF EndsBound
    <2>2. ASSUME status = "Bound", \A j \in 1 .. Len(r) : r[j].kind # "Stopped"
          PROVE  EndsBound(q, status)
      <3>1. ASSUME NEW j \in 1 .. Len(q) PROVE q[j].kind # "Stopped"
        BY <1>1, <2>2
      <3> QED BY <2>2, <3>1 DEF EndsBound
    <2> QED BY <1>3, <2>1, <2>2 DEF EndsBound
  <1> QED BY <1>2, <1>3 DEF r

\* An entry that is not Bound by itself ends Bound through the queue alone.
LEMMA ReboundEnd ==
    ASSUME NEW q \in Seq(Message), NEW e \in Entry, NEW f \in Entry, f.status # "Bound",
           EndsBound(q, f.status), NEW d
    PROVE  EndsBound(q, e.status) /\ FinalList(d, q, f.trusted) = FinalList(d, q, e.trusted)
  <1>1. PICK i \in 1 .. Len(q) :
               q[i].kind = "Bound" /\ \A j \in i .. Len(q) : q[j].kind # "Stopped"
    BY DEF EndsBound
  <1>2. q # <<>>
    BY <1>1
  <1> QED BY <1>1, <1>2 DEF EndsBound, FinalList

\* The steps that touch neither the queue, the wires nor the server, and may
\* start a client that was not there.
LEMMA HostTrust ==
    ASSUME TypeInv, TypeInv', \A d \in Clients : TrustInv(d),
           AcceptConnection \/ StopAccepting \/ UpdateConfig \/ FixWorld,
           NEW c \in Clients
    PROVE  TrustInv(c)'
  <1> USE DEF client_side, server_side, wires
  <1>1. UNCHANGED <<queue, up, down, conn, registry>>
    BY DEF AcceptConnection, StopAccepting, UpdateConfig, FixWorld, BindTimeout, TearDown, Rebind,
           SyncTrust
  <1>2. \/ entry'.status = entry.status /\ entry'.trusted = entry.trusted
        \/ entry'.status # "Bound"
    <2>1. entry' \in {entry, NoEntry, Binding(entry), [entry EXCEPT !.status = "Failed"],
                      [entry EXCEPT !.sent = TRUE]}
      BY DEF AcceptConnection, StopAccepting, UpdateConfig, FixWorld, BindTimeout, TearDown,
             Rebind, SyncTrust
    <2> QED BY <2>1 DEF TypeInv, WorldType, Entry, Binding, NoEntry
  <1>3. \/ UNCHANGED <<actor, offer>>
        \/ \E b \in Unused, list \in Lists : /\ actor' = [actor EXCEPT ![b] = "connecting"]
                                             /\ offer' = [offer EXCEPT ![b] = list]
    <2>1. NoTrust \in Lists /\ trusted \in Lists
      BY ListsAssumption DEF TypeInv, WorldType
    <2>2. \/ UNCHANGED <<actor, offer>>
          \/ Bind(trusted) \/ Bind(NoTrust)
      BY DEF AcceptConnection, StopAccepting, UpdateConfig, FixWorld, BindTimeout, TearDown,
             Rebind, SyncTrust, RemoveClient
    <2>3. ASSUME NEW list \in Lists, Bind(list), ~UNCHANGED <<actor, offer>>
          PROVE  \E b \in Unused : /\ actor' = [actor EXCEPT ![b] = "connecting"]
                                   /\ offer' = [offer EXCEPT ![b] = list]
      BY <2>3 DEF Bind
    <2> QED BY <2>1, <2>2, <2>3
  <1>4. TrustInv(c) /\ queue \in Seq(Message)
    BY DEF TypeInv, QueueType
  <1>5. actor \in [Clients -> {"none", "connecting", "running", "ending"}]
        /\ offer \in [Clients -> Lists]
    BY DEF TypeInv, ClientType
  <1>6. WiresInv(c)'
    BY <1>1, <1>4 DEF TrustInv, WiresInv
  <1>7. ConnectingInv(c)'
    <2>1. CASE actor'[c] = actor[c] /\ offer'[c] = offer[c]
      BY <1>1, <1>4, <2>1 DEF TrustInv, ConnectingInv, Registered, OnlyOpen
    <2>2. CASE ~(actor'[c] = actor[c] /\ offer'[c] = offer[c])
      <3>1. conn[c] = "none"
        BY <1>3, <1>5, <2>2 DEF Unused
      <3> QED BY <1>1, <1>4, <3>1 DEF TrustInv, ConnectingInv, WiresInv, Registered, OnlyOpen
    <2> QED BY <2>1, <2>2
  <1>8. RunningInv(c)'
    <2> SUFFICES ASSUME actor'[c] = "running", Alone(c)', EndsBound(queue, entry'.status)
                 PROVE  /\ conn[c] = "accepted" => Final(c)' = offer'[c]
                        /\ Registered(c, Final(c))'
      BY <1>1 DEF RunningInv
    <2>1. UNCHANGED <<actor, offer>>
      BY <1>3, <1>5 DEF Alone, Unused
    <2>2. EndsBound(queue, entry.status) /\ Final(c)' = Final(c)
      <3>1. CASE entry'.status # "Bound"
        <4>1. /\ EndsBound(queue, entry.status)
              /\ FinalList(down[c], queue, entry'.trusted)
                   = FinalList(down[c], queue, entry.trusted)
          BY <1>4, <3>1, ReboundEnd DEF TypeInv, WorldType
        <4> QED BY <1>1, <4>1 DEF Final
      <3> QED BY <1>1, <1>2, <3>1 DEF Final
    <2>3. Alone(c)
      BY <2>1 DEF Alone
    <2> QED BY <1>1, <1>4, <2>1, <2>2, <2>3 DEF TrustInv, RunningInv, Registered, OnlyOpen
  <1> QED BY <1>6, <1>7, <1>8 DEF TrustInv

LEMMA HandleTrust ==
    ASSUME TypeInv, TypeInv', Handle, NEW c \in Clients, TrustInv(c)
    PROVE  TrustInv(c)'
  <1>1. UNCHANGED <<actor, offer, up, down, conn, registry>>
    BY DEF Handle, HandleBound, HandleTrusted, HandleStopped, client_side, server_side, wires
  <1>2. WiresInv(c)' /\ ConnectingInv(c)'
    BY <1>1 DEF TrustInv, WiresInv, ConnectingInv, Registered, OnlyOpen
  <1>3. RunningInv(c)'
    <2> SUFFICES ASSUME actor[c] = "running", Alone(c)', EndsBound(queue', entry'.status)
                 PROVE  /\ conn[c] = "accepted" => Final(c)' = offer[c]
                        /\ Registered(c, Final(c))'
      BY <1>1 DEF RunningInv
    <2>1. queue \in Seq(Message) /\ queue # <<>> /\ queue' = Tail(queue)
      BY DEF TypeInv, QueueType, Handle, HandleBound, HandleTrusted, HandleStopped, Handled
    <2>2. entry \in Entry /\ entry' \in Entry
      BY DEF TypeInv, WorldType
    <2>3. \/ Head(queue).kind = "Bound" /\ entry'.trusted = Head(queue).trusted
          \/ Head(queue).kind = "Trusted" /\ entry'.status = entry.status
             /\ (entry'.trusted = Head(queue).trusted \/ entry'.status # "Bound")
          \/ Head(queue).kind = "Stopped" /\ entry'.status # "Bound"
      <3>1. CASE HandleBound
        BY <3>1 DEF HandleBound, Handled
      <3>2. CASE HandleTrusted
        BY <2>2, <3>2 DEF HandleTrusted, Handled, NoEntry, Entry
      <3>3. CASE HandleStopped
        BY <2>2, <3>3 DEF HandleStopped, Handled, NoEntry, Entry
      <3> QED BY <3>1, <3>2, <3>3 DEF Handle
    <2>4. /\ EndsBound(queue, entry.status)
          /\ FinalList(down[c], Tail(queue), entry'.trusted)
               = FinalList(down[c], queue, entry.trusted)
      BY <2>1, <2>2, <2>3, HandledEnd
    <2>5. Final(c)' = Final(c)
      BY <1>1, <2>1, <2>4 DEF Final
    <2>6. Alone(c)
      BY <1>1 DEF Alone
    <2> QED BY <1>1, <2>4, <2>5, <2>6 DEF TrustInv, RunningInv, Registered, OnlyOpen
  <1> QED BY <1>2, <1>3 DEF TrustInv

\* A client b that goes on is not alone with another one: what the step does
\* to the list matters for b only.
LEMMA ClientTrust ==
    ASSUME TypeInv, NEW b \in Clients, Client(b), NEW c \in Clients, TrustInv(c)
    PROVE  TrustInv(c)'
  <1> USE DEF world, client_side, server_side, wires
  <1>1. UNCHANGED <<entry, offer, conn, registry>>
    BY DEF Client, ClientBound, ClientSends, ClientReceives, ClientEnds, ClientReports,
           ClientConnectFails, Cleanup
  <1>2. /\ actor \in [Clients -> {"none", "connecting", "running", "ending"}]
        /\ up \in [Clients -> Seq(Lists)] /\ down \in [Clients -> Seq(Lists)]
        /\ offer \in [Clients -> Lists] /\ queue \in Seq(Message)
    BY DEF TypeInv, ClientType, WireType, QueueType
  <1>3. /\ actor[b] # "none"
        /\ \A d \in Clients : d # b => /\ actor'[d] = actor[d] /\ up'[d] = up[d]
                                       /\ down'[d] = down[d]
    BY <1>2 DEF Client, ClientBound, ClientSends, ClientReceives, ClientEnds, ClientReports,
                ClientConnectFails, Cleanup
  <1>4. CASE c # b
    <2>1. WiresInv(c)' /\ ConnectingInv(c)'
      BY <1>1, <1>3, <1>4 DEF TrustInv, WiresInv, ConnectingInv, Registered, OnlyOpen
    <2>2. CASE ClientReports(b)
      <3>1. queue' = Append(queue, [kind |-> "Stopped", trusted |-> NoTrust])
            /\ [kind |-> "Stopped", trusted |-> NoTrust] \in Message
        BY <2>2, ListsAssumption DEF ClientReports, Queued, Message
      <3>2. ~EndsBound(queue', entry.status)
        <4>1. PICK m \in Message : m = [kind |-> "Stopped", trusted |-> NoTrust]
          BY <3>1
        <4>2. m.kind = "Stopped"
          BY <4>1
        <4>3. ~EndsBound(Append(queue, m), entry.status)
          BY <1>2, <4>2, QueuedEnd
        <4> QED BY <3>1, <4>1, <4>3
      <3> QED BY <1>1, <2>1, <3>2 DEF TrustInv, RunningInv
    <2>3. CASE ~ClientReports(b)
      <3>1. actor'[b] # "none"
        BY <1>2, <2>3, <1>3 DEF Client, ClientBound, ClientSends, ClientReceives, ClientEnds,
                          ClientConnectFails, Cleanup
      <3>2. ~Alone(c)'
        BY <1>4, <3>1 DEF Alone
      <3> QED BY <2>1, <3>2 DEF TrustInv, RunningInv
    <2> QED BY <2>2, <2>3
  <1>5. CASE c = b
    <2>1. CASE ClientBound(c)
      <3>1. /\ actor[c] = "connecting" /\ conn[c] # "none" /\ UNCHANGED <<up, down>>
            /\ actor'[c] = "running"
            /\ queue' = Append(queue, [kind |-> "Bound", trusted |-> offer[c]])
            /\ [kind |-> "Bound", trusted |-> offer[c]] \in Message
        BY <1>2, <2>1 DEF ClientBound, Queued, Message
      <3>2. down[c] = <<>> /\ Registered(c, offer[c])
        BY <3>1 DEF TrustInv, ConnectingInv
      <3>3. FinalList(down[c], queue', entry.trusted) = offer[c]
        <4>1. PICK m \in Message : m = [kind |-> "Bound", trusted |-> offer[c]]
          BY <3>1
        <4>2. FinalList(down[c], Append(queue, m), entry.trusted) = m.trusted
          BY <1>2, <3>2, QueuedList
        <4> QED BY <3>1, <4>1, <4>2
      <3>4. Final(c)' = offer[c]
        BY <1>1, <3>1, <3>3 DEF Final
      <3> QED BY <1>1, <3>1, <3>2, <3>4
              DEF TrustInv, WiresInv, ConnectingInv, RunningInv, Registered, OnlyOpen
    <2>2. CASE ClientSends(c)
      <3>1. /\ actor[c] = "running" /\ conn[c] # "none" /\ UNCHANGED <<actor, down, queue>>
        BY <2>2 DEF ClientSends
      <3> QED BY <1>1, <3>1
              DEF TrustInv, WiresInv, ConnectingInv, RunningInv, Registered, OnlyOpen, Alone, Final
    <2>3. CASE ClientReceives(c)
      <3>1. /\ actor[c] = "running" /\ down[c] # <<>> /\ UNCHANGED <<actor, up>>
            /\ down'[c] = Tail(down[c])
            /\ queue' = Append(queue, [kind |-> "Trusted", trusted |-> Head(down[c])])
        BY <1>2, <2>3 DEF ClientReceives, Queued
      <3>2. /\ Head(down[c]) \in Lists /\ Head(down[c]) = down[c][1] /\ Len(down[c]) \in Nat \ {0}
            /\ Tail(down[c]) \in Seq(Lists) /\ Len(Tail(down[c])) = Len(down[c]) - 1
            /\ \A i \in 1 .. Len(down[c]) - 1 : Tail(down[c])[i] = down[c][i + 1]
        BY <1>2, <3>1, TailType
      <3>3. [kind |-> "Trusted", trusted |-> Head(down[c])] \in Message
        BY <3>2 DEF Message
      <3>4. /\ EndsBound(queue', entry.status) => EndsBound(queue, entry.status)
            /\ FinalList(Tail(down[c]), queue', entry.trusted)
                 = IF Tail(down[c]) # <<>> THEN Tail(down[c])[Len(Tail(down[c]))]
                   ELSE Head(down[c])
        <4>1. PICK m \in Message : m = [kind |-> "Trusted", trusted |-> Head(down[c])]
          BY <3>3
        <4>2. m.kind = "Trusted" /\ m.trusted = Head(down[c])
          BY <4>1
        <4>3. EndsBound(Append(queue, m), entry.status) => EndsBound(queue, entry.status)
          BY <1>2, <4>2, QueuedEnd
        <4>4. FinalList(Tail(down[c]), Append(queue, m), entry.trusted)
                = IF Tail(down[c]) # <<>> THEN Tail(down[c])[Len(Tail(down[c]))] ELSE m.trusted
          <5>1. PICK t : t = Tail(down[c])
            OBVIOUS
          <5>2. FinalList(t, Append(queue, m), entry.trusted)
                  = IF t # <<>> THEN t[Len(t)] ELSE m.trusted
            BY <1>2, QueuedList
          <5> QED BY <5>1, <5>2
        <4> QED BY <3>1, <4>1, <4>2, <4>3, <4>4
      <3>5. Final(c)' = down[c][Len(down[c])]
        <4>1. Tail(down[c]) = <<>> => Len(down[c]) = 1
          <5>1. PICK t : t = Tail(down[c])
            OBVIOUS
          <5>2. t = <<>> => Len(t) = 0
            OBVIOUS
          <5> QED BY <3>2, <5>1, <5>2
        <4>2. Tail(down[c]) # <<>> => Len(Tail(down[c])) \in 1 .. Len(down[c]) - 1
          BY <3>2, TailType
        <4> QED BY <1>1, <3>1, <3>2, <3>4, <4>1, <4>2 DEF Final
      <3>6. Final(c)' = Final(c)
        BY <3>1, <3>5 DEF Final, FinalList
      <3>7. conn[c] = "open"
        BY <3>1 DEF TrustInv, WiresInv
      <3> QED BY <1>1, <3>1, <3>4, <3>6, <3>7
              DEF TrustInv, WiresInv, ConnectingInv, RunningInv, Registered, OnlyOpen, Alone
    <2>4. CASE ClientEnds(c) \/ ClientConnectFails(c)
      <3>1. actor'[c] = "ending" /\ UNCHANGED up /\ down'[c] = <<>>
        BY <1>2, <2>4 DEF ClientEnds, ClientConnectFails, Cleanup
      <3> QED BY <1>1, <3>1 DEF TrustInv, WiresInv, ConnectingInv, RunningInv
    <2>5. CASE ClientReports(c)
      <3>1. actor'[c] = "none" /\ UNCHANGED <<up, down>>
        BY <1>2, <2>5 DEF ClientReports
      <3> QED BY <1>1, <3>1 DEF TrustInv, WiresInv, ConnectingInv, RunningInv
    <2> QED BY <1>5, <2>1, <2>2, <2>3, <2>4, <2>5 DEF Client
  <1> QED BY <1>4, <1>5

\* The same for a connection b of the server: one that is opened, or opened
\* already, is not the only open one with another.
LEMMA ServerTrust ==
    ASSUME TypeInv, NEW b \in Clients, Server(b), NEW c \in Clients, \A d \in Clients : TrustInv(d)
    PROVE  TrustInv(c)'
  <1> USE DEF world, client_side, server_side, wires
  <1>1. UNCHANGED <<entry, queue, actor, offer>>
    BY DEF Server, ServerAccepts, ServerRegisters, ServerTrusts, ServerCloses
  <1>2. /\ up \in [Clients -> Seq(Lists)] /\ down \in [Clients -> Seq(Lists)]
        /\ conn \in [Clients -> {"none", "accepted", "open"}]
        /\ registry \in [conn : Clients \cup {None}, trusted : Lists]
    BY DEF TypeInv, WireType, ServerType
  <1>3. TrustInv(c) /\ (Alone(c)' <=> Alone(c))
    BY <1>1 DEF Alone
  <1>4. CASE ServerAccepts(b)
    <2>1. /\ actor[b] = "connecting" /\ conn[b] = "none" /\ UNCHANGED <<up, down, registry>>
          /\ conn' = [conn EXCEPT ![b] = "accepted"]
      BY <1>4 DEF ServerAccepts
    <2>2. \A d \in Clients : conn'[d] = "open" <=> conn[d] = "open"
      BY <1>2, <2>1
    <2>3. WiresInv(c)' /\ ConnectingInv(c)'
      BY <1>1, <1>2, <1>3, <2>1, <2>2
         DEF TrustInv, WiresInv, ConnectingInv, Registered, OnlyOpen
    <2>4. RunningInv(c)'
      <3>1. CASE c = b
        BY <1>1, <2>1, <3>1 DEF RunningInv
      <3>2. CASE c # b
        BY <1>1, <2>1, <3>2 DEF RunningInv, Alone
      <3> QED BY <3>1, <3>2
    <2> QED BY <2>3, <2>4 DEF TrustInv
  <1>5. CASE ServerRegisters(b)
    <2>1. /\ conn[b] = "accepted" /\ UNCHANGED <<up, down>> /\ conn'[b] = "open"
          /\ registry' = [conn |-> b, trusted |-> offer[b]]
          /\ \A d \in Clients : d # b => conn'[d] = conn[d]
      BY <1>2, <1>5 DEF ServerRegisters
    <2>2. WiresInv(c)'
      BY <1>3, <2>1 DEF TrustInv, WiresInv
    <2>3. CASE c = b
      BY <1>1, <1>3, <2>1, <2>2, <2>3
         DEF TrustInv, ConnectingInv, RunningInv, Registered, Final
    <2>4. CASE c # b
      <3>1. ~OnlyOpen(c)' /\ conn'[c] = conn[c]
        BY <2>1, <2>4 DEF OnlyOpen
      <3> QED BY <1>1, <1>3, <2>1, <2>2, <3>1
              DEF TrustInv, ConnectingInv, RunningInv, Registered, Final
    <2> QED BY <2>3, <2>4
  <1>6. CASE ServerTrusts(b)
    <2>1. /\ conn[b] = "open" /\ up[b] # <<>> /\ UNCHANGED conn
          /\ registry' = IF registry = NoRegistry THEN registry
                         ELSE [registry EXCEPT !.trusted = Head(up[b])]
          /\ down'[b] = IF Alive(b) THEN Append(down[b], Head(up[b])) ELSE down[b]
          /\ \A d \in Clients : d # b => up'[d] = up[d] /\ down'[d] = down[d]
      BY <1>2, <1>6 DEF ServerTrusts
    <2>2. CASE c = b
      <3>1. actor[c] # "connecting"
        BY <1>3, <2>1, <2>2 DEF TrustInv, ConnectingInv
      <3>2. ASSUME actor[c] = "running" PROVE Registered(c, Final(c))'
        <4>1. down'[c] = Append(down[c], Head(up[c])) /\ Head(up[c]) \in Lists
          BY <1>2, <2>1, <2>2, <3>2, TailType DEF Alive
        <4>2. down'[c] # <<>> /\ down'[c][Len(down'[c])] = Head(up[c])
          <5>1. /\ down[c] \in Seq(Lists) /\ Len(down'[c]) = Len(down[c]) + 1
                /\ down'[c] # <<>> /\ down'[c][Len(down[c]) + 1] = Head(up[c])
            <6>1. down[c] \in Seq(Lists)
              BY <1>2
            <6> QED BY <4>1, <6>1, AppendType
          <5> QED BY <5>1
        <4>3. Final(c)' = Head(up[c])
          BY <4>2 DEF Final, FinalList
        <4>4. registry' # NoRegistry => registry'.trusted = Head(up[c])
          BY <1>2, <2>1, <2>2
        <4> QED BY <4>3, <4>4 DEF Registered
      <3> QED BY <1>1, <2>1, <2>2, <3>1, <3>2
              DEF TrustInv, WiresInv, ConnectingInv, RunningInv
    <2>3. CASE c # b
      <3>1. ~OnlyOpen(c)'
        BY <2>1, <2>3 DEF OnlyOpen
      <3> QED BY <1>1, <1>3, <2>1, <2>3, <3>1
              DEF TrustInv, WiresInv, ConnectingInv, RunningInv, Registered, Final
    <2> QED BY <2>2, <2>3
  <1>7. CASE ServerCloses(b)
    <2>1. /\ conn[b] = "open" /\ conn'[b] = "none" /\ up'[b] = <<>> /\ down'[b] = <<>>
          /\ registry' = NoRegistry
          /\ \A d \in Clients : d # b => /\ conn'[d] = conn[d] /\ up'[d] = up[d]
                                         /\ down'[d] = down[d]
      BY <1>2, <1>7 DEF ServerCloses
    <2>2. CASE c = b
      BY <1>1, <2>1, <2>2 DEF TrustInv, WiresInv, ConnectingInv, RunningInv, Registered
    <2>3. CASE c # b
      BY <1>1, <1>3, <2>1, <2>3
         DEF TrustInv, WiresInv, ConnectingInv, RunningInv, Registered, Final
    <2> QED BY <2>2, <2>3
  <1> QED BY <1>4, <1>5, <1>6, <1>7 DEF Server

LEMMA TrustStep ==
    ASSUME TypeInv, \A c \in Clients : TrustInv(c), [Next]_vars
    PROVE  \A c \in Clients : TrustInv(c)'
  <1> SUFFICES ASSUME NEW c \in Clients PROVE TrustInv(c)'
    OBVIOUS
  <1>1. TypeInv'
    BY StepTypes
  <1>2. CASE UNCHANGED vars
    BY <1>2 DEF vars, TrustInv, WiresInv, ConnectingInv, RunningInv, Registered, OnlyOpen, Alone,
                Final
  <1>3. CASE Next
    BY <1>1, <1>3, HostTrust, HandleTrust, ClientTrust, ServerTrust DEF Next
  <1> QED BY <1>2, <1>3

LEMMA SettledTrust ==
    ASSUME TypeInv, \A c \in Clients : TrustInv(c)
    PROVE  TrustConfirmed
  <1> SUFFICES ASSUME Settled, registry # NoRegistry, entry.status = "Bound",
                      Cardinality(Running) = 1
               PROVE  registry.trusted = entry.trusted
    BY DEF TrustConfirmed
  <1>1. PICK c : Running = {c}
    <2>1. IsFiniteSet(Running)
      <3>1. IsFiniteSet(Clients)
        BY FS_Interval, BoundsAssumption DEF Clients
      <3>2. Running \in SUBSET Clients
        BY DEF Running
      <3> QED BY <3>1, <3>2, FS_Subset
    <2> QED BY <2>1, FS_Singleton
  <1>2. c \in Clients /\ actor[c] = "running"
    BY <1>1 DEF Running
  <1>3. /\ conn[c] = "open" /\ queue = <<>> /\ down[c] = <<>>
        /\ \A d \in Clients : d # c => actor[d] = "none" /\ conn[d] = "none"
    BY <1>1, <1>2 DEF Settled, Quiet, Running
  <1>4. OnlyOpen(c) /\ Alone(c)
    BY <1>3 DEF OnlyOpen, Alone
  <1>5. EndsBound(queue, entry.status) /\ Final(c) = entry.trusted
    BY <1>3 DEF EndsBound, Final, FinalList
  <1> QED BY <1>2, <1>4, <1>5 DEF TrustInv, RunningInv, Registered

\* However the connections of a host overlap: once all is quiet and one client
\* is left, the peers the server relays for are the ones the host believes it
\* confirmed.
THEOREM TrustIsConfirmed == Spec => []TrustConfirmed
  <1> DEFINE Inv == \A c \in Clients : TrustInv(c)
  <1>1. Init => Inv
    BY DEF Init, TrustInv, WiresInv, ConnectingInv, RunningInv
  <1>2. TypeInv /\ Inv /\ [Next]_vars => Inv'
    BY TrustStep
  <1>3. TypeInv /\ Inv => TrustConfirmed
    BY SettledTrust
  <1> QED BY <1>1, <1>2, <1>3, TypeInvariant, PTL DEF Spec
=============================================================================
