------------------------------- MODULE World -------------------------------
(***************************************************************************)
(* Connection management of two hosts: ideal_world and current_world of    *)
(* server.rs, fix_world, the Connect exchange over the signaling server,   *)
(* the connect tasks, handles and actors of webchannel.rs.                 *)
(*                                                                         *)
(* A connection id is a random u128 that is only ever compared with the id *)
(* of the peer's entry.  The model keeps the outcome of that comparison: a *)
(* task, a link or a message is "cur" while it carries the id of the       *)
(* entry, and a new id (or the loss of the entry) makes all of them old.   *)
(*                                                                         *)
(* Times are not modelled: a retry may be due at any moment.  A timeout    *)
(* fires when nothing that could answer is under way; one that fires       *)
(* before the answer is a disturbance, like a broken link, a lost message, *)
(* a restart, a changed trust list or a second "Connect" of the editor.    *)
(* Their number is bounded by MaxFaults.                                   *)
(***************************************************************************)
EXTENDS Naturals, Sequences, FiniteSets, SequencesExt

CONSTANTS
    Hosts,      \* the two hosts
    Disturbed,  \* the hosts that disturbances happen to
    MaxFaults,  \* bound: disturbances
    MaxInbox    \* bound: messages waiting in the inbox of a host

ASSUME HostsAssumption == Cardinality(Hosts) = 2
ASSUME BoundsAssumption == Disturbed \subseteq Hosts /\ MaxFaults \in Nat /\ MaxInbox \in Nat \ {0}

VARIABLES
    ideal,   \* ideal[h]: the peer is in ideal_world.remotes
    trust,   \* trust[h]: the peer's certificate is trusted (is_cert_trusted)
    remote,  \* remote[h]: the peer's entry in current_world.remotes
    bound,   \* bound[h]: the signaling client: "bound", "lost" (it ended and
             \* AcceptStopped waits to be handled) or "unbound"
    sig,     \* sig[h]: Connect messages under way to h, by their initiator flag
    task,    \* task[h]: connect tasks that wait for their transport, by "cur"
    link,    \* link[h]: what holds the live handle of remote_map, if anything
    wire,    \* wire[h]: messages on the link of h that its actor has not accepted
    reading, \* reading[h]: accepted streams that read_from_stream still reads
    inbox,   \* inbox[h]: messages queued for handle_remote_message
    late,    \* late[h]: the last Hey came after its attempt had been given up
    faults   \* disturbances that have happened

vars == <<ideal, trust, remote, bound, sig, task, link, wire, reading, inbox, late, faults>>

Peer(h) == CHOOSE p \in Hosts : p # h

Statuses == {"none", "Pending", "Stage1", "Stage2", "Connected", "Disconnected", "Failed"}

\* A missing entry, and a peer without a live handle.
NoRemote == [status |-> "none", ever |-> FALSE]
NoLink == [stage |-> "none", cur |-> FALSE, far |-> "none"]

(***************************************************************************)
(* Helpers                                                                 *)
(***************************************************************************)
Fault(h) == h \in Disturbed /\ faults < MaxFaults /\ faults' = faults + 1

Aged(S) == {[m EXCEPT !.cur = FALSE] : m \in S}

\* A new connection id for the entry of h, or no entry any more: what carries
\* an id carries an old one (new_connection_id, remove_remote).
NewId(h) ==
    /\ reading' = [reading EXCEPT ![h] = Aged(@)]
    /\ inbox' = [inbox EXCEPT ![h] = [i \in DOMAIN @ |-> [@[i] EXCEPT !.cur = FALSE]]]

OldTasks(h) == {FALSE : c \in task[h]}

\* The link of h ends: what is on the wire is lost and the other end, if the
\* two had met, is left alone.
Drop(f, h) ==
    [g \in Hosts |->
        IF g = h THEN NoLink
        ELSE IF f[h].far = "up" THEN [f[g] EXCEPT !.far = "gone"] ELSE f[g]]

\* WebChannel::disconnect: dropping the handle cancels its task or its actor.
\* A task that has no handle yet goes on.
Disconnect(h) ==
    /\ link' = Drop(link, h)
    /\ wire' = [wire EXCEPT ![h] = {}]

\* Mutant: a host that was connected once goes on waiting.
Bug_Broken(r) == IF r.ever THEN r ELSE [r EXCEPT !.status = "Failed"]

\* What a failed attempt turns into: the handlers of FailedToConnect and
\* ConnectionBroke and the timeouts of fix_world decide it alike.
Broken(r) == [r EXCEPT !.status = IF r.ever THEN "Disconnected" ELSE "Failed"]

\* mark_remote_failed
MarkFailed(r) == IF r.status = "none" THEN r ELSE [r EXCEPT !.status = "Failed"]

\* Mutant: reports of former attempts count.
Bug_Stale(m) == FALSE

\* is_stale_connection_attempt
Stale(m) == ~m.cur

\* Mutant: the channel takes any number of messages.
Bug_Queue(h, kind, cur) == inbox' = [inbox EXCEPT ![h] = Append(@, [kind |-> kind, cur |-> cur])]

Queue(h, kind, cur) ==
    /\ Len(inbox[h]) < MaxInbox
    /\ inbox' = [inbox EXCEPT ![h] = Append(@, [kind |-> kind, cur |-> cur])]

Init ==
    /\ ideal = [h \in Hosts |-> FALSE]
    /\ trust = [h \in Hosts |-> TRUE]
    /\ remote = [h \in Hosts |-> NoRemote]
    /\ bound = [h \in Hosts |-> "bound"]
    /\ sig = [h \in Hosts |-> {}]
    /\ task = [h \in Hosts |-> {}]
    /\ link = [h \in Hosts |-> NoLink]
    /\ wire = [h \in Hosts |-> {}]
    /\ reading = [h \in Hosts |-> {}]
    /\ inbox = [h \in Hosts |-> <<>>]
    /\ late = [h \in Hosts |-> FALSE]
    /\ faults = 0

(***************************************************************************)
(* The editor                                                              *)
(***************************************************************************)
\* "Connect": declare the peer and give a failed entry another chance.
EditorConnect(h) ==
    /\ IF ideal[h] THEN remote[h].status = "Failed" /\ Fault(h) ELSE UNCHANGED faults
    /\ ideal' = [ideal EXCEPT ![h] = TRUE]
    /\ remote' = [remote EXCEPT ![h].status = IF @ = "Failed" THEN "Pending" ELSE @]
    /\ UNCHANGED <<trust, bound, sig, task, link, wire, reading, inbox, late>>

\* UpdateConfig replaces the trusted hosts.
UpdateConfig(h) ==
    /\ Fault(h)
    /\ trust' = [trust EXCEPT ![h] = ~@]
    /\ UNCHANGED <<ideal, remote, bound, sig, task, link, wire, reading, inbox, late>>

(***************************************************************************)
(* fix_world                                                               *)
(***************************************************************************)
\* fix_world_remotes starts an attempt for an entry that is missing, Pending
\* or Disconnected.  (It also removes entries that are not in ideal_world:
\* there are none, since nothing is ever taken out of ideal_world.remotes.)
Wanted(h) == ideal[h] /\ remote[h].status \in {"none", "Pending", "Disconnected"}

\* The first stage of an attempt (try_connect_remote_sctp).  The server relays
\* Connect to a bound peer, but not to one that does not trust us once it has
\* been told so; the IdNotFound or Rejected it answers otherwise carries the
\* id of the sender and so changes nothing in the sender's world.
FixWorldConnect(h) ==
    /\ Wanted(h)
    /\ bound[h] = "bound"
    /\ remote' = [remote EXCEPT ![h].status = "Stage1"]
    /\ \/ /\ bound[Peer(h)] = "bound"
          /\ sig' = [sig EXCEPT ![Peer(h)] = @ \cup {TRUE}]
          /\ UNCHANGED faults
       \/ /\ IF bound[Peer(h)] = "bound" /\ trust[Peer(h)] THEN Fault(h) ELSE UNCHANGED faults
          /\ UNCHANGED sig
    /\ NewId(h)
    /\ task' = [task EXCEPT ![h] = OldTasks(h)]
    /\ link' = [link EXCEPT ![h].cur = FALSE]
    /\ UNCHANGED <<ideal, trust, bound, wire, late>>

\* The same when the client has ended and AcceptStopped is not handled yet:
\* the send fails and the attempt with it (send_connect_message).
FixWorldSendFails(h) ==
    /\ Wanted(h)
    /\ bound[h] = "lost"
    /\ remote' = [remote EXCEPT ![h].status = "Failed"]
    /\ NewId(h)
    /\ task' = [task EXCEPT ![h] = OldTasks(h)]
    /\ link' = [link EXCEPT ![h].cur = FALSE]
    /\ UNCHANGED <<ideal, trust, bound, sig, wire, late, faults>>

\* fix_world_remotes without a signaling server (set_remote_pending).
FixWorldPend(h) ==
    /\ Wanted(h)
    /\ bound[h] = "unbound"
    /\ remote' = [remote EXCEPT ![h].status = "Pending"]
    /\ UNCHANGED <<ideal, trust, bound, sig, task, link, wire, reading, inbox, late, faults>>

\* Something that may still decide h's attempt is under way.
Answering(h) ==
    \/ \E g \in Hosts : sig[g] # {} \/ task[g] # {} \/ wire[g] # {}
    \/ link[h].stage = "ice" \/ reading[h] # {} \/ inbox[h] # <<>>

\* fix_world_timeouts: Stage1 after 10 s, Stage2 after 30 s.
FixWorldTimeout(h) ==
    /\ remote[h].status \in {"Stage1", "Stage2"}
    /\ IF Answering(h) THEN Fault(h) ELSE UNCHANGED faults
    /\ remote' = [remote EXCEPT ![h] = Broken(@)]
    /\ Disconnect(h)
    /\ UNCHANGED <<ideal, trust, bound, sig, task, reading, inbox, late>>

(***************************************************************************)
(* Messages of the signaling client (handle_signaling_msg)                 *)
(***************************************************************************)
\* handle_signaling_connect_msg of a trusted peer: declare the peer, enter
\* the second stage under a new id, answer an initiator, start the task that
\* builds the transport.  The task is started also when the answer failed; the
\* server does not relay it to a peer that does not trust us.
HandleConnect(h, initiator) ==
    /\ initiator \in sig[h]
    /\ remote[h].status \notin {"Stage2", "Connected"}
    /\ trust[h]
    /\ ideal' = [ideal EXCEPT ![h] = TRUE]
    /\ remote' = [remote EXCEPT ![h].status =
         IF initiator /\ bound[h] # "bound" THEN "Failed" ELSE "Stage2"]
    /\ \E relayed \in {trust[Peer(h)], TRUE} :
         sig' = [sig EXCEPT ![h] = @ \ {initiator},
                            ![Peer(h)] = IF initiator /\ relayed
                                            /\ bound[h] = "bound" /\ bound[Peer(h)] = "bound"
                                         THEN @ \cup {FALSE} ELSE @]
    /\ NewId(h)
    /\ task' = [task EXCEPT ![h] = OldTasks(h) \cup {TRUE}]
    /\ link' = [link EXCEPT ![h].cur = FALSE]
    /\ UNCHANGED <<trust, bound, wire, late, faults>>

\* A Connect that is ignored: the second stage or the connection is there.
IgnoreConnect(h, initiator) ==
    /\ initiator \in sig[h]
    /\ remote[h].status \in {"Stage2", "Connected"}
    /\ sig' = [sig EXCEPT ![h] = @ \ {initiator}]
    /\ UNCHANGED <<ideal, trust, remote, bound, task, link, wire, reading, inbox, late, faults>>

\* A Connect that is refused: the certificate is not trusted.  The signaling
\* server does not know Rejected and closes the connection it came from.
RefuseConnect(h, initiator) ==
    /\ initiator \in sig[h]
    /\ remote[h].status \notin {"Stage2", "Connected"}
    /\ ~trust[h]
    /\ remote' = [remote EXCEPT ![h] = MarkFailed(@)]
    /\ bound' = [bound EXCEPT ![h] = IF @ = "bound" THEN "lost" ELSE @]
    /\ sig' = [sig EXCEPT ![h] = @ \ {initiator}]
    /\ UNCHANGED <<ideal, trust, task, link, wire, reading, inbox, late, faults>>

\* The signaling client ends; what was under way to it may be lost.
SignalingEnds(h) ==
    /\ Fault(h)
    /\ bound[h] = "bound"
    /\ bound' = [bound EXCEPT ![h] = "lost"]
    /\ \E kept \in {sig[h], {}} : sig' = [sig EXCEPT ![h] = kept]
    /\ UNCHANGED <<ideal, trust, remote, task, link, wire, reading, inbox, late>>

\* AcceptStopped (mark_signaling_disconnected), and Bound after
\* fix_world_signaling has bound anew; module Binding has the details.
SignalingStatus(h) ==
    /\ bound[h] # "bound"
    /\ bound' = [bound EXCEPT ![h] = IF @ = "lost" THEN "unbound" ELSE "bound"]
    /\ UNCHANGED <<ideal, trust, remote, sig, task, link, wire, reading, inbox, late, faults>>

(***************************************************************************)
(* Connect tasks: start_connect_1, connect_with_sock, insert_handle        *)
(***************************************************************************)
\* The transport is there (create_sock) and insert_handle puts a handle into
\* remote_map, in place of a dead one if there is one.
InsertHandle(h, cur) ==
    /\ cur \in task[h]
    /\ bound[h] = "bound"
    /\ link[h].stage = "none"
    /\ task' = [task EXCEPT ![h] = @ \ {cur}]
    /\ link' = [link EXCEPT ![h] = [stage |-> "ice", cur |-> cur, far |-> "none"]]
    /\ UNCHANGED <<ideal, trust, remote, bound, sig, wire, reading, inbox, late, faults>>

\* No signaling client to create the sock, or a live handle is there already
\* (ConnectionExists): start_connect_1 reports the attempt as failed.
NoTransport(h, cur) ==
    /\ cur \in task[h]
    /\ bound[h] # "bound" \/ link[h].stage # "none"
    /\ task' = [task EXCEPT ![h] = @ \ {cur}]
    /\ Queue(h, "FailedToConnect", cur)
    /\ UNCHANGED <<ideal, trust, remote, bound, sig, link, wire, reading, late, faults>>

\* h and the peer are, or can be, the two ends of one connection.
CanMeet(h) ==
    \/ link[h].far = "up"
    \/ link[h].far = "none" /\ link[Peer(h)].far = "none" /\ link[Peer(h)].stage = "ice"

\* establish_sctp succeeds on the side of h: the actor starts and is given the
\* Hey to send.
Establish(h) ==
    /\ link[h].stage = "ice"
    /\ CanMeet(h)
    /\ link' = [link EXCEPT ![h].stage = "run", ![h].far = "up", ![Peer(h)].far = "up"]
    /\ wire' = [wire EXCEPT ![Peer(h)] = @ \cup {"Hey"}]
    /\ UNCHANGED <<ideal, trust, remote, bound, sig, task, reading, inbox, late, faults>>

\* establish_sctp fails: a disturbance while there is a counterpart and the
\* server relays what they send to each other, certain (by the timeouts of ICE)
\* when there is none and none will come.
EstablishFails(h) ==
    /\ link[h].stage = "ice"
    /\ IF /\ \A g \in Hosts : trust[g]
          /\ CanMeet(h) \/ (link[h].far = "none" /\ (task[Peer(h)] # {} \/ sig[Peer(h)] # {}))
         THEN Fault(h)
         ELSE UNCHANGED faults
    /\ Queue(h, "FailedToConnect", link[h].cur)
    /\ Disconnect(h)
    /\ UNCHANGED <<ideal, trust, remote, bound, sig, task, reading, late>>

(***************************************************************************)
(* The transport actor (SctpRemote) and its streams                        *)
(***************************************************************************)
\* The select loop ends, by a ping timeout or an error of the association;
\* the actor reports it and drops the receiver of its handle.
ActorExits(h) ==
    /\ link[h].stage = "run"
    /\ IF link[h].far = "up" THEN Fault(h) ELSE UNCHANGED faults
    /\ Queue(h, "ConnectionBroke", link[h].cur)
    /\ Disconnect(h)
    /\ UNCHANGED <<ideal, trust, remote, bound, sig, task, reading, late>>

\* handle_incoming_stream: every stream gets a reader of its own, which
\* nothing cancels when the actor ends.
AcceptStream(h, kind) ==
    /\ kind \in wire[h]
    /\ link[h].stage = "run"
    /\ wire' = [wire EXCEPT ![h] = @ \ {kind}]
    /\ reading' = [reading EXCEPT ![h] = @ \cup {[kind |-> kind, cur |-> link[h].cur]}]
    /\ UNCHANGED <<ideal, trust, remote, bound, sig, task, link, inbox, late, faults>>

\* read_from_stream has the whole message, or the association was closed
\* before it had (SerializationErr, which the handler only reports).
ReadStream(h, m) ==
    /\ m \in reading[h]
    /\ reading' = [reading EXCEPT ![h] = @ \ {m}]
    /\ \/ Queue(h, m.kind, m.cur)
       \/ link[h].stage # "run" /\ UNCHANGED inbox
    /\ UNCHANGED <<ideal, trust, remote, bound, sig, task, link, wire, late, faults>>

(***************************************************************************)
(* handle_remote_message                                                   *)
(***************************************************************************)
\* The current attempt of h has a running actor, or its end is reported.
Backed(h, q) ==
    \/ link[h].stage = "run" /\ link[h].cur
    \/ [kind |-> "ConnectionBroke", cur |-> TRUE] \in Range(q)

Taken(h, kinds) ==
    /\ inbox[h] # <<>>
    /\ Head(inbox[h]).kind \in kinds

\* Hey: mark_remote_connected, whatever attempt the message belongs to.
HandleHey(h) ==
    /\ Taken(h, {"Hey"})
    /\ remote' = [remote EXCEPT ![h] =
         IF @.status = "none" THEN @ ELSE [status |-> "Connected", ever |-> TRUE]]
    /\ late' = [late EXCEPT ![h] =
         remote[h].status # "none" /\ ~(Head(inbox[h]).cur /\ Backed(h, Tail(inbox[h])))]
    /\ inbox' = [inbox EXCEPT ![h] = Tail(@)]
    /\ UNCHANGED <<ideal, trust, bound, sig, task, link, wire, reading, faults>>

\* FailedToConnect and ConnectionBroke.
HandleFailure(h) ==
    /\ Taken(h, {"FailedToConnect", "ConnectionBroke"})
    /\ remote' = [remote EXCEPT ![h] = IF Stale(Head(inbox[h])) THEN @ ELSE Broken(@)]
    /\ inbox' = [inbox EXCEPT ![h] = Tail(@)]
    /\ UNCHANGED <<ideal, trust, bound, sig, task, link, wire, reading, late, faults>>

\* Bye: the entry goes, in current_world only; fix_world makes a new one.
HandleBye(h) ==
    /\ Taken(h, {"Bye"})
    /\ remote' = [remote EXCEPT ![h] = NoRemote]
    /\ inbox' = [inbox EXCEPT ![h] = [i \in 1 .. Len(@) - 1 |-> [@[i + 1] EXCEPT !.cur = FALSE]]]
    /\ reading' = [reading EXCEPT ![h] = Aged(@)]
    /\ task' = [task EXCEPT ![h] = OldTasks(h)]
    /\ Disconnect(h)
    /\ UNCHANGED <<ideal, trust, bound, sig, late, faults>>

\* The process ends and another is started: with a Bye to the peer
\* (Server::shutdown) or, killed, without.
Restart(h) ==
    /\ Fault(h)
    /\ \E bye \in BOOLEAN :
         wire' = [wire EXCEPT ![h] = {},
                              ![Peer(h)] = IF bye /\ link[h].stage = "run" /\ link[h].far = "up"
                                             THEN @ \cup {"Bye"} ELSE @]
    /\ ideal' = [ideal EXCEPT ![h] = FALSE]
    /\ remote' = [remote EXCEPT ![h] = NoRemote]
    /\ bound' = [bound EXCEPT ![h] = "unbound"]
    /\ sig' = [sig EXCEPT ![h] = {}]
    /\ task' = [task EXCEPT ![h] = {}]
    /\ link' = Drop(link, h)
    /\ reading' = [reading EXCEPT ![h] = {}]
    /\ inbox' = [inbox EXCEPT ![h] = <<>>]
    /\ late' = [late EXCEPT ![h] = FALSE]
    /\ UNCHANGED trust

(***************************************************************************)
(* Specification                                                           *)
(***************************************************************************)
FixWorld(h) ==
    FixWorldConnect(h) \/ FixWorldSendFails(h) \/ FixWorldPend(h) \/ FixWorldTimeout(h)

HandleSignaling(h) ==
    \E i \in BOOLEAN : HandleConnect(h, i) \/ IgnoreConnect(h, i) \/ RefuseConnect(h, i)

HandleRemote(h) == HandleHey(h) \/ HandleFailure(h) \/ HandleBye(h)

Transport(h) == \E cur \in BOOLEAN : InsertHandle(h, cur) \/ NoTransport(h, cur)

Accept(h) == \E kind \in {"Hey", "Bye"} : AcceptStream(h, kind)

Reader(h) == \E m \in reading[h] : ReadStream(h, m)

Next ==
    \E h \in Hosts :
        \/ FixWorld(h) \/ HandleSignaling(h) \/ HandleRemote(h) \/ SignalingStatus(h)
        \/ Transport(h) \/ Establish(h) \/ EstablishFails(h)
        \/ ActorExits(h) \/ Accept(h) \/ Reader(h)
        \/ EditorConnect(h) \/ UpdateConfig(h) \/ SignalingEnds(h) \/ Restart(h)

\* Every event source of the select! loop of Server::run is polled again and
\* again, fix_world runs every second, and tokio runs every task; ICE gives up
\* after a time, however often a counterpart comes and goes.
Fairness ==
    \A h \in Hosts :
        /\ WF_vars(FixWorldConnect(h) \/ FixWorldSendFails(h) \/ FixWorldPend(h))
        /\ WF_vars(FixWorldTimeout(h))
        /\ WF_vars(HandleSignaling(h)) /\ WF_vars(HandleRemote(h)) /\ WF_vars(SignalingStatus(h))
        /\ WF_vars(Transport(h)) /\ SF_vars(Establish(h) \/ EstablishFails(h))
        /\ WF_vars(ActorExits(h)) /\ WF_vars(Accept(h)) /\ WF_vars(Reader(h))

Spec == Init /\ [][Next]_vars /\ Fairness

(***************************************************************************)
(* Properties                                                              *)
(***************************************************************************)
Kinds == {"Hey", "Bye", "FailedToConnect", "ConnectionBroke"}

\* The variables have their types and the inbox keeps to its bound.
TypeOK ==
    /\ ideal \in [Hosts -> BOOLEAN] /\ trust \in [Hosts -> BOOLEAN] /\ late \in [Hosts -> BOOLEAN]
    /\ remote \in [Hosts -> [status : Statuses, ever : BOOLEAN]]
    /\ bound \in [Hosts -> {"bound", "lost", "unbound"}]
    /\ sig \in [Hosts -> SUBSET BOOLEAN] /\ task \in [Hosts -> SUBSET BOOLEAN]
    /\ link \in [Hosts -> [stage : {"none", "ice", "run"}, cur : BOOLEAN, far : {"none", "up", "gone"}]]
    /\ wire \in [Hosts -> SUBSET {"Hey", "Bye"}]
    /\ reading \in [Hosts -> SUBSET [kind : {"Hey", "Bye"}, cur : BOOLEAN]]
    /\ inbox \in [Hosts -> Seq([kind : Kinds, cur : BOOLEAN])]
    /\ \A h \in Hosts : Len(inbox[h]) <= MaxInbox
    /\ faults \in 0 .. MaxFaults

\* A host that is Connected has a running actor for the attempt its entry
\* names, or the report of its end is queued: otherwise nothing would ever
\* take the entry out of Connected.  The one exception is a Hey that is
\* handled after its attempt was given up, which the handler does not notice.
ConnectedIsBacked ==
    \A h \in Hosts : remote[h].status = "Connected" /\ ~late[h] => Backed(h, inbox[h])

\* A connection whose actor runs is given up only for a Bye or with the
\* process: no failure report, timeout or Connect of another attempt does it.
LiveLinkKept ==
    [][\A h \in Hosts :
         (remote[h].status = "Connected" /\ link[h].stage = "run" /\ link[h].cur)
           => \/ remote'[h].status = "Connected" /\ (link'[h].cur \/ inbox'[h] # inbox[h])
              \/ Taken(h, {"Bye"})
              \/ ~ideal'[h]]_vars

\* The two hosts are connected to each other.
Linked ==
    \A h \in Hosts :
        remote[h].status = "Connected" /\ link[h].stage = "run" /\ link[h].cur /\ link[h].far = "up"

\* The host does not try to reach the peer.
GaveUp(h) == remote[h].status = "Failed" \/ (remote[h].status = "none" /\ ~ideal[h])

\* The live link of h is not the one of its current attempt.
Orphan(h) == link[h].stage = "run" /\ ~link[h].cur

\* Once the disturbances end, the hosts are connected to each other for good,
\* or both have given up: the retries of the two never chase each other
\* forever.  Three things are never repaired: a peer that does not trust us is
\* retried forever; a late Hey; and a link that a task built after its attempt
\* was given up, which keeps newer attempts out while the peer uses it.
Heals ==
    <>[]\/ Linked
        \/ \A h \in Hosts : GaveUp(h)
        \/ \E h \in Hosts : ~trust[h] \/ Orphan(h) \/ (late[h] /\ remote[h].status = "Connected")
=============================================================================
