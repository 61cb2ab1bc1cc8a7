------------------------------ MODULE Binding ------------------------------
(***************************************************************************)
(* A host bound to one signaling server: the entry of current_world.       *)
(* signaling and what fix_world_signaling does about it, the client actors *)
(* of signaling/client.rs, and the connections and the registration the    *)
(* server (signaling/server.rs) keeps for the id of the host.              *)
(*                                                                         *)
(* A client actor and the connection it opens have one number; a number is *)
(* used again once both have ended.  The messages of all clients reach the *)
(* host through one queue and name the address only, never the client.     *)
(*                                                                         *)
(* Times are not modelled.  A timeout that fires while an answer is under  *)
(* way, a failed connect and a lost connection are disturbances, bounded   *)
(* by MaxFaults; the 12-hour limit of a connection comes when nothing else *)
(* is left to happen, again and again.                                     *)
(***************************************************************************)
EXTENDS Naturals, Sequences, FiniteSets

CONSTANTS
    MaxClients,  \* bound: client actors and connections at a time
    Lists,       \* trust lists
    NoTrust,     \* the empty one
    MaxRequests, \* bound: requests of the editor
    MaxFaults,   \* bound: disturbances
    MaxQueue     \* bound: messages in a channel

ASSUME ListsAssumption == NoTrust \in Lists
ASSUME BoundsAssumption ==
    MaxClients \in Nat \ {0} /\ MaxRequests \in Nat /\ MaxFaults \in Nat /\ MaxQueue \in Nat \ {0}

Clients == 1 .. MaxClients
None == 0

VARIABLES
    want,     \* the address is in ideal_world.signaling
    trusted,  \* ideal_world.trusted
    entry,    \* the entry of current_world.signaling: its status, the list the
              \* server confirmed, and whether a Trust was sent in the last 5 s
    client,   \* the client in SignalingChannel::clients
    actor,    \* actor[c]: what the task of client c does
    offer,    \* offer[c]: the trust list in the bind headers of c
    cmds,     \* cmds[c]: commands queued for the actor
    up,       \* up[c]: Trust messages under way from c to the server
    down,     \* down[c]: Trusted messages under way to c
    conn,     \* conn[c]: what the server does with the connection of c
    registry, \* the entry of endpoint_map for the id of the host
    queue,    \* signaling_msg_rx of the host
    requests, faults

world == <<want, trusted, entry>>
client_side == <<client, actor, offer, cmds>>
server_side == <<conn, registry>>
wires == <<up, down>>
vars == <<want, trusted, entry, client, actor, offer, cmds, up, down, conn, registry,
          queue, requests, faults>>

NoEntry == [status |-> "none", trusted |-> NoTrust, sent |-> FALSE]
NoRegistry == [conn |-> None, trusted |-> NoTrust]
Shutdown == "Shutdown"

Alive(c) == actor[c] \in {"connecting", "running"}

\* What is still under way for client c, and to the host.
Quiet(c) == cmds[c] = <<>> /\ up[c] = <<>> /\ down[c] = <<>>
Answering == queue # <<>> \/ \E c \in Clients : actor[c] \in {"connecting", "ending"}

Fault == faults < MaxFaults /\ faults' = faults + 1
Request == requests < MaxRequests /\ requests' = requests + 1

\* Mutant: the channel takes any number of messages.
Bug_Queued(kind, list) == queue' = Append(queue, [kind |-> kind, trusted |-> list])

Queued(kind, list) ==
    /\ Len(queue) < MaxQueue
    /\ queue' = Append(queue, [kind |-> kind, trusted |-> list])

Init ==
    /\ want = FALSE /\ trusted = NoTrust /\ entry = NoEntry
    /\ client = None
    /\ actor = [c \in Clients |-> "none"] /\ offer = [c \in Clients |-> NoTrust]
    /\ cmds = [c \in Clients |-> <<>>]
    /\ up = [c \in Clients |-> <<>>] /\ down = [c \in Clients |-> <<>>]
    /\ conn = [c \in Clients |-> "none"]
    /\ registry = NoRegistry
    /\ queue = <<>>
    /\ requests = 0 /\ faults = 0

(***************************************************************************)
(* SignalingChannel                                                        *)
(***************************************************************************)
Unused == {c \in Clients : actor[c] = "none" /\ conn[c] = "none"}

\* bind: nothing if the address has a client; otherwise a new client enters
\* the map before it starts to connect.
Bind(list) ==
    IF client # None THEN UNCHANGED client_side
    ELSE /\ Unused # {}
         /\ LET c == CHOOSE c \in Unused : TRUE
            IN  /\ client' = c
                /\ actor' = [actor EXCEPT ![c] = "connecting"]
                /\ offer' = [offer EXCEPT ![c] = list]
                /\ UNCHANGED cmds

\* remove: the client leaves the map at once and is told to shut down.
RemoveClient ==
    /\ client' = None
    /\ cmds' = [c \in Clients |-> IF c = client THEN Append(cmds[c], Shutdown) ELSE cmds[c]]
    /\ UNCHANGED <<actor, offer>>

\* The cleanup closure of a client takes away the entry of its address,
\* whoever's it is by now.
Cleanup(c) ==
    /\ client' = None
    /\ actor' = [actor EXCEPT ![c] = "ending"]
    /\ cmds' = [cmds EXCEPT ![c] = <<>>]
    /\ down' = [down EXCEPT ![c] = <<>>]

(***************************************************************************)
(* The editor                                                              *)
(***************************************************************************)
Binding(e) == [e EXCEPT !.status = "Binding"]

\* handle_accept_connection: declare, and bind right away with the current
\* trust list unless that is done or under way.
AcceptConnection ==
    /\ Request
    /\ want' = TRUE
    /\ IF entry.status \in {"Bound", "Binding"}
         THEN UNCHANGED <<entry, client_side>>
         ELSE entry' = Binding(entry) /\ Bind(trusted)
    /\ UNCHANGED <<trusted, server_side, wires, queue, faults>>

\* StopAccepting withdraws the address; fix_world does the rest.
StopAccepting ==
    /\ Request
    /\ want /\ want' = FALSE
    /\ UNCHANGED <<trusted, entry, client_side, server_side, wires, queue, faults>>

\* UpdateConfig sets the trust list, here to another one.
UpdateConfig ==
    /\ Request
    /\ trusted' \in Lists \ {trusted}
    /\ UNCHANGED <<want, entry, client_side, server_side, wires, queue, faults>>

(***************************************************************************)
(* fix_world_signaling: each call comes to at most one of these, but that  *)
(* an entry that timed out may be torn down at once.                       *)
(***************************************************************************)
\* Binding for more than 10 s: the entry fails and the client goes.
BindTimeout ==
    /\ entry.status = "Binding"
    /\ IF Answering THEN Fault ELSE UNCHANGED faults
    /\ entry' = IF want THEN [entry EXCEPT !.status = "Failed"] ELSE NoEntry
    /\ RemoveClient
    /\ UNCHANGED <<want, trusted, server_side, wires, queue, requests>>

\* Mutant: the client is left alone.
Bug_TearDown ==
    /\ ~want /\ entry # NoEntry
    /\ entry' = NoEntry
    /\ UNCHANGED <<want, trusted, client_side, server_side, wires, queue, requests, faults>>

\* The address is not wanted any more.
TearDown ==
    /\ ~want /\ entry # NoEntry
    /\ entry' = NoEntry
    /\ RemoveClient
    /\ UNCHANGED <<want, trusted, server_side, wires, queue, requests, faults>>

\* Bind when there is no entry, or again after a disconnect.  The trust list
\* is the one of the entry in ideal_world.signaling, which is never filled.
Rebind ==
    /\ want /\ entry.status \in {"none", "Disconnected"}
    /\ entry' = Binding(entry)
    /\ Bind(NoTrust)
    /\ UNCHANGED <<want, trusted, server_side, wires, queue, requests, faults>>

\* Send our trust list when it is not the one the server confirmed, once in
\* 5 s.  Without a client the send fails, and counts as sent all the same.
SyncTrust ==
    /\ want /\ entry.status = "Bound" /\ entry.trusted # trusted
    /\ IF entry.sent /\ (Answering \/ (client # None /\ ~Quiet(client)))
         THEN Fault ELSE UNCHANGED faults
    /\ entry' = [entry EXCEPT !.sent = TRUE]
    /\ IF client = None THEN UNCHANGED cmds
         ELSE /\ Len(cmds[client]) < MaxQueue
              /\ cmds' = [cmds EXCEPT ![client] = Append(@, trusted)]
    /\ UNCHANGED <<want, trusted, client, actor, offer, server_side, wires, queue, requests>>

(***************************************************************************)
(* Messages of the clients to the host                                     *)
(***************************************************************************)
Handled(kind) == queue # <<>> /\ Head(queue).kind = kind /\ queue' = Tail(queue)

\* Mutant: the list of the last connection is kept.
Bug_HandleBound ==
    /\ Handled("Bound")
    /\ entry' = [entry EXCEPT !.status = "Bound", !.sent = FALSE]
    /\ UNCHANGED <<want, trusted, client_side, server_side, wires, requests, faults>>

\* handle_signaling_bound_msg makes the entry if need be.
HandleBound ==
    /\ Handled("Bound")
    /\ entry' = [status |-> "Bound", trusted |-> Head(queue).trusted, sent |-> FALSE]
    /\ UNCHANGED <<want, trusted, client_side, server_side, wires, requests, faults>>

HandleTrusted ==
    /\ Handled("Trusted")
    /\ entry' = IF entry = NoEntry THEN entry
                ELSE [entry EXCEPT !.trusted = Head(queue).trusted, !.sent = FALSE]
    /\ UNCHANGED <<want, trusted, client_side, server_side, wires, requests, faults>>

\* Mutant: a bound entry does not notice.
Bug_HandleStopped ==
    /\ Handled("Stopped")
    /\ entry' = IF entry.status # "Binding" THEN entry
                ELSE [entry EXCEPT !.status = "Disconnected"]
    /\ UNCHANGED <<want, trusted, client_side, server_side, wires, requests, faults>>

\* AcceptStopped: mark_signaling_disconnected.
HandleStopped ==
    /\ Handled("Stopped")
    /\ entry' = IF entry = NoEntry THEN entry ELSE [entry EXCEPT !.status = "Disconnected"]
    /\ UNCHANGED <<want, trusted, client_side, server_side, wires, requests, faults>>

(***************************************************************************)
(* The client actor (bind_real, RealSignalingClient::run)                  *)
(***************************************************************************)
\* The upgrade succeeded: say Bound, with the list of the headers.
ClientBound(c) ==
    /\ actor[c] = "connecting" /\ conn[c] # "none"
    /\ actor' = [actor EXCEPT ![c] = "running"]
    /\ Queued("Bound", offer[c])
    /\ UNCHANGED <<world, client, offer, cmds, server_side, wires, requests, faults>>

\* The upgrade failed or timed out.  The server may have accepted it.
ClientConnectFails(c) ==
    /\ actor[c] = "connecting"
    /\ Fault
    /\ Cleanup(c)
    /\ UNCHANGED <<world, offer, up, server_side, queue, requests>>

\* Command::Send; on a closed connection it fails and the client ends.
ClientSends(c) ==
    /\ actor[c] = "running" /\ conn[c] # "none" /\ cmds[c] # <<>> /\ Head(cmds[c]) # Shutdown
    /\ Len(up[c]) < MaxQueue
    /\ up' = [up EXCEPT ![c] = Append(@, Head(cmds[c]))]
    /\ cmds' = [cmds EXCEPT ![c] = Tail(@)]
    /\ UNCHANGED <<world, client, actor, offer, down, server_side, queue, requests, faults>>

\* handle_incoming passes Trusted on.
ClientReceives(c) ==
    /\ actor[c] = "running" /\ down[c] # <<>>
    /\ Queued("Trusted", Head(down[c]))
    /\ down' = [down EXCEPT ![c] = Tail(@)]
    /\ UNCHANGED <<world, client_side, up, server_side, requests, faults>>

\* The loop ends: shut down, the server closed the connection, or an error.
ClientEnds(c) ==
    /\ actor[c] = "running"
    /\ IF (cmds[c] # <<>> /\ Head(cmds[c]) = Shutdown) \/ conn[c] = "none"
         THEN UNCHANGED faults ELSE Fault
    /\ Cleanup(c)
    /\ UNCHANGED <<world, offer, up, server_side, queue, requests>>

\* After the cleanup it says AcceptStopped.
ClientReports(c) ==
    /\ actor[c] = "ending"
    /\ Queued("Stopped", NoTrust)
    /\ actor' = [actor EXCEPT ![c] = "none"]
    /\ UNCHANGED <<world, client, offer, cmds, server_side, wires, requests, faults>>

(***************************************************************************)
(* The signaling server                                                    *)
(***************************************************************************)
\* accept_hdr_async: the headers are valid, the response is sent.
ServerAccepts(c) ==
    /\ actor[c] = "connecting" /\ conn[c] = "none"
    /\ conn' = [conn EXCEPT ![c] = "accepted"]
    /\ UNCHANGED <<world, client_side, registry, wires, queue, requests, faults>>

\* handle_connection registers the id, over a registration that is there.
ServerRegisters(c) ==
    /\ conn[c] = "accepted"
    /\ conn' = [conn EXCEPT ![c] = "open"]
    /\ registry' = [conn |-> c, trusted |-> offer[c]]
    /\ UNCHANGED <<world, client_side, wires, queue, requests, faults>>

\* handle_message of Trust: update_trust looks for the id.
ServerTrusts(c) ==
    /\ conn[c] = "open" /\ up[c] # <<>>
    /\ Len(down[c]) < MaxQueue
    /\ registry' = IF registry = NoRegistry THEN registry
                   ELSE [registry EXCEPT !.trusted = Head(up[c])]
    /\ up' = [up EXCEPT ![c] = Tail(@)]
    /\ down' = [down EXCEPT ![c] = IF Alive(c) THEN Append(@, Head(up[c])) ELSE @]
    /\ UNCHANGED <<world, client_side, conn, queue, requests, faults>>

\* Nothing is under way and fix_world has nothing to do, but in vain: only time
\* goes on.
Settled ==
    /\ queue = <<>>
    /\ \A c \in Clients :
         /\ Quiet(c)
         /\ <<actor[c], conn[c]>> \in {<<"none", "none">>, <<"running", "open">>}
    /\ IF want THEN entry.status = "Failed"
                    \/ (entry.status = "Bound" /\ (entry.trusted = trusted \/ client = None))
       ELSE entry = NoEntry

\* send_receive_stream returns: the stream of the client ended, no ping came
\* for 10 minutes, or the connection is 12 hours old.  run_signaling_server
\* then removes the endpoint, by its id.  A server that closes on its own has
\* done so before the client is back; a client that is gone may be back first.
ServerCloses(c) ==
    /\ conn[c] = "open"
    /\ ~Alive(c) \/ Settled
    /\ conn' = [conn EXCEPT ![c] = "none"]
    /\ registry' = NoRegistry
    /\ up' = [up EXCEPT ![c] = <<>>]
    /\ down' = [down EXCEPT ![c] = <<>>]
    /\ UNCHANGED <<world, client_side, queue, requests, faults>>

-----------------------------------------------------------------------------
FixWorld == BindTimeout \/ TearDown \/ Rebind \/ SyncTrust
Handle == HandleBound \/ HandleTrusted \/ HandleStopped

Client(c) ==
    \/ ClientBound(c) \/ ClientSends(c) \/ ClientReceives(c)
    \/ ClientEnds(c) \/ ClientReports(c) \/ ClientConnectFails(c)

Server(c) ==
    \/ ServerAccepts(c) \/ ServerRegisters(c) \/ ServerTrusts(c) \/ ServerCloses(c)

Next ==
    \/ AcceptConnection \/ StopAccepting \/ UpdateConfig
    \/ FixWorld \/ Handle
    \/ \E c \in Clients : Client(c) \/ Server(c)

\* fix_world runs every second and the loop of the host takes every message;
\* tokio runs every task of the client and of the server, and no connection
\* outlives its 12 hours.
Fairness ==
    /\ WF_vars(FixWorld) /\ WF_vars(Handle)
    /\ \A c \in Clients :
         /\ WF_vars(ClientBound(c)) /\ WF_vars(ClientSends(c)) /\ WF_vars(ClientReceives(c))
         /\ WF_vars(ClientEnds(c)) /\ WF_vars(ClientReports(c))
         /\ WF_vars(ServerAccepts(c)) /\ WF_vars(ServerRegisters(c)) /\ WF_vars(ServerTrusts(c)) /\ WF_vars(ServerCloses(c))

Spec == Init /\ [][Next]_vars /\ Fairness

(***************************************************************************)
(* Properties                                                              *)
(***************************************************************************)
\* The variables have their types and the channels keep to their bounds.
TypeOK ==
    /\ want \in BOOLEAN /\ trusted \in Lists
    /\ entry \in [status : {"none", "Binding", "Bound", "Disconnected", "Failed"},
                  trusted : Lists, sent : BOOLEAN]
    /\ client \in Clients \cup {None}
    /\ actor \in [Clients -> {"none", "connecting", "running", "ending"}]
    /\ offer \in [Clients -> Lists]
    /\ cmds \in [Clients -> Seq(Lists \cup {Shutdown})]
    /\ up \in [Clients -> Seq(Lists)] /\ down \in [Clients -> Seq(Lists)]
    /\ conn \in [Clients -> {"none", "accepted", "open"}]
    /\ registry \in [conn : Clients \cup {None}, trusted : Lists]
    /\ queue \in Seq([kind : {"Bound", "Trusted", "Stopped"}, trusted : Lists])
    /\ Len(queue) <= MaxQueue
    /\ requests \in 0 .. MaxRequests /\ faults \in 0 .. MaxFaults

\* The clients of the host that go on by themselves.
Running == {c \in Clients : actor[c] = "running"}

\* Once all is quiet and one client is left, the server relays messages from
\* the peers that the host believes it confirmed: neither the headers of a new
\* connection nor a Trust or an end of an old one leaves the two with
\* different lists.  With two clients left they may differ: the Bound of one
\* and the registration of the other come in any order.
TrustConfirmed ==
    Settled /\ registry # NoRegistry /\ entry.status = "Bound" /\ Cardinality(Running) = 1
      => registry.trusted = entry.trusted

\* After StopAccepting, once all is quiet, no client is left in the map: one
\* that is left would be in the way of the next AcceptConnection, and keep the
\* host registered.  (A client that an older one's cleanup took out of the map
\* does keep it registered until its connection is 12 hours old.)
StopLeavesNoClient == Settled /\ ~want => client = None

\* The host can be reached by exactly the peers it trusts.
Reachable ==
    /\ client # None /\ actor[client] = "running"
    /\ registry = [conn |-> client, trusted |-> trusted]
    /\ entry.status = "Bound" /\ entry.trusted = trusted

\* A host that accepts connections is, again and again, reachable by the peers
\* it trusts, whatever clients of its own overlap: no wrong status, lost
\* client, removed registration or list of another connection stays for good.
StaysReachable == []<>(want => Reachable)
=============================================================================
