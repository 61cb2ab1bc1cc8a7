------------------------------ MODULE DocSync ------------------------------
(***************************************************************************)
(* Sequencing protocol of one shared document.                             *)
(*                                                                         *)
(* The owner keeps the Doc: the ServerEngine's global history and, for     *)
(* every subscribed host, the last site seq received from it.  A host that *)
(* opened the document keeps a RemoteDoc: the ClientEngine's history        *)
(* (global part after the snapshot it joined with, local part not yet      *)
(* acknowledged), its site-seq counters and the buffer of arrived ops the   *)
(* editor has not fetched.  What an op does to the text is left out: an op  *)
(* is the site that made it, its site seq and the session (the RemoteDoc    *)
(* incarnation) it was made in; the session is a history value that no      *)
(* guard reads.  Module OtDoc adds the text.                                *)
(*                                                                         *)
(* Transport.  WebChannel sends every message on a fresh SCTP stream and    *)
(* the receiver reads every stream in a task of its own, so messages of     *)
(* one peer may be handled in any order; the loopback, SSH and io           *)
(* transports keep the order.  A broken connection loses what is in         *)
(* flight, and send_to_remote drops a message to a host that is not         *)
(* connected.                                                               *)
(***************************************************************************)
EXTENDS Integers, Sequences, FiniteSets

CONSTANTS
    Clients,      \* hosts that may open the document
    Local,        \* the owner itself as a client (loopback), or {}
    Ordered,      \* clients whose transport keeps the order of messages
    Writers,      \* clients with write permission (config write_allowed)
    External,     \* site id of changes made on disk by another process
    RetryOpen,    \* editors repeat OpenFile before the answer (rpc timeout)
    MaxOpens,     \* bound: OpenFile requests of each client
    MaxOps,       \* bound: editor ops over all clients and sessions
    MaxBatch,     \* bound: editor ops in one SendOps request
    MaxExternal,  \* bound: external changes of the file
    MaxBreaks     \* bound: connection breaks and restarts of clients

ASSUME SiteAssumption ==
    /\ IsFiniteSet(Clients) /\ External \notin Clients
    /\ Local \subseteq Ordered /\ Ordered \subseteq Clients
    /\ Writers \subseteq Clients
    /\ RetryOpen \in BOOLEAN

ASSUME BoundAssumption ==
    /\ MaxOpens \in [Clients -> Nat]
    /\ MaxOps \in Nat /\ MaxBatch \in Nat
    /\ MaxExternal \in Nat /\ MaxBreaks \in Nat

VARIABLES
    history,      \* Doc.engine: global history; an op's global seq is its index
    subscribers,  \* Doc.subscribers: last site seq received, or NotSubscribed
    isOpen,       \* the host has a RemoteDoc for the document
    session,      \* number of RemoteDocs the host has created so far
    base,         \* global seq of the snapshot the RemoteDoc started from
    global,       \* ClientEngine.gh.global
    local,        \* ClientEngine.gh.local
    siteSeq,      \* ClientEngine.current_site_seq (next_site_seq - 1)
    lastSent,     \* ClientEngine.last_site_seq_sent_out
    buffer,       \* RemoteDoc.remote_op_buffer
    notified,     \* RemoteOpsArrived sent and not yet followed by SendOps
    up,           \* there is a connection between the host and the owner
    toServer,     \* messages in flight from each host to the owner
    toClient,     \* messages in flight from the owner to each host
    opens, typed, external, breaks   \* how much of each bound is used

serverVars == <<history, subscribers>>
engineVars == <<base, global, local, siteSeq, lastSent>>
clientVars == <<isOpen, session, base, global, local, siteSeq, lastSent,
                buffer, notified>>
netVars    == <<up, toServer, toClient>>
boundVars  == <<opens, typed, external, breaks>>
vars       == <<serverVars, clientVars, netVars, boundVars>>

NotSubscribed == -1

Op == [site : Clients \cup {External}, seq : Nat, session : Nat]

ServerMsg ==
    [type : {"RequestFile", "StopSendingOps"}]
      \cup [type : {"RequestOps"}, after : Nat]
      \cup [type : {"OpFromClient"}, context : Nat, ops : Seq(Op)]

\* The ops of an OpFromServer have consecutive global seqs from "first" on.
ClientMsg ==
    [type : {"Snapshot"}, seq : Nat]
      \cup [type : {"OpFromServer"}, first : Nat, ops : Seq(Op)]
      \cup [type : {"DocFatal"}]

\* The owner's and the hosts' state and the messages in flight have their
\* types; site seqs and global seqs never go below 0.
TypeOK ==
    /\ history \in Seq(Op)
    /\ subscribers \in [Clients -> Nat \cup {NotSubscribed}]
    /\ isOpen \in [Clients -> BOOLEAN]
    /\ session \in [Clients -> Nat]
    /\ base \in [Clients -> Nat]
    /\ global \in [Clients -> Seq(Op)]
    /\ local \in [Clients -> Seq(Op)]
    /\ siteSeq \in [Clients -> Nat]
    /\ lastSent \in [Clients -> Nat]
    /\ buffer \in [Clients -> Seq(Op)]
    /\ notified \in [Clients -> BOOLEAN]
    /\ up \in [Clients -> BOOLEAN]
    /\ toServer \in [Clients -> Seq(ServerMsg)]
    /\ toClient \in [Clients -> Seq(ClientMsg)]
    /\ opens \in [Clients -> Nat]
    /\ typed \in Nat /\ external \in Nat /\ breaks \in Nat

Init ==
    /\ history = << >>
    /\ subscribers = [c \in Clients |-> NotSubscribed]
    /\ isOpen = [c \in Clients |-> FALSE]
    /\ session = [c \in Clients |-> 0]
    /\ base = [c \in Clients |-> 0]
    /\ global = [c \in Clients |-> << >>]
    /\ local = [c \in Clients |-> << >>]
    /\ siteSeq = [c \in Clients |-> 0]
    /\ lastSent = [c \in Clients |-> 0]
    /\ buffer = [c \in Clients |-> << >>]
    /\ notified = [c \in Clients |-> FALSE]
    /\ up = [c \in Clients |-> TRUE]
    /\ toServer = [c \in Clients |-> << >>]
    /\ toClient = [c \in Clients |-> << >>]
    /\ opens = [c \in Clients |-> 0]
    /\ typed = 0 /\ external = 0 /\ breaks = 0

-----------------------------------------------------------------------------
(* Transport *)

\* send_to_remote: queued when connected, dropped otherwise.
Sent(queue, c, msgs) == IF up[c] THEN queue[c] \o msgs ELSE queue[c]

\* The places of a queue whose message may be handled next.
Deliverable(c, queue) ==
    {i \in 1..Len(queue) : c \in Ordered => i = 1}

Without(queue, i) ==
    [j \in 1..(Len(queue) - 1) |-> queue[IF j < i THEN j ELSE j + 1]]

ToServer(c, msgs) == toServer' = [toServer EXCEPT ![c] = Sent(toServer, c, msgs)]

\* c takes message i and sends msgs to the owner.
ClientTakes(c, i, msgs) ==
    /\ toClient' = [toClient EXCEPT ![c] = Without(@, i)]
    /\ ToServer(c, msgs)

\* The owner takes message i of c and sends reply[d] to every host d.
ServerTakes(c, i, reply) ==
    /\ toServer' = [toServer EXCEPT ![c] = Without(@, i)]
    /\ toClient' = [d \in Clients |-> Sent(toClient, d, reply[d])]

NoReply == [d \in Clients |-> << >>]
ReplyTo(c, msgs) == [NoReply EXCEPT ![c] = msgs]

-----------------------------------------------------------------------------
(* Client: the RemoteDoc and its ClientEngine *)

CurrentSeq(c) == base[c] + Len(global[c])

\* Site seq of the last op of a batch.
LastSeq(ops) == ops[Len(ops)].seq

\* ClientEngine::new with a RemoteDoc around it.
NewRemoteDoc(c, seq) ==
    /\ isOpen' = [isOpen EXCEPT ![c] = TRUE]
    /\ session' = [session EXCEPT ![c] = @ + 1]
    /\ base' = [base EXCEPT ![c] = seq]
    /\ global' = [global EXCEPT ![c] = << >>]
    /\ local' = [local EXCEPT ![c] = << >>]
    /\ siteSeq' = [siteSeq EXCEPT ![c] = 0]
    /\ lastSent' = [lastSent EXCEPT ![c] = 0]
    /\ buffer' = [buffer EXCEPT ![c] = << >>]
    /\ notified' = [notified EXCEPT ![c] = FALSE]

\* RemoteDocs::remove.  A closed document's engine is gone; its fields are
\* reset so that no state depends on a dropped value.
DropRemoteDoc(c) ==
    /\ isOpen' = [isOpen EXCEPT ![c] = FALSE]
    /\ base' = [base EXCEPT ![c] = 0]
    /\ global' = [global EXCEPT ![c] = << >>]
    /\ local' = [local EXCEPT ![c] = << >>]
    /\ siteSeq' = [siteSeq EXCEPT ![c] = 0]
    /\ lastSent' = [lastSent EXCEPT ![c] = 0]
    /\ buffer' = [buffer EXCEPT ![c] = << >>]
    /\ notified' = [notified EXCEPT ![c] = FALSE]
    /\ UNCHANGED session

\* The answer to an OpenFile is under way; the editor waits for it unless
\* its request times out.
Opening(c) ==
    \/ \E i \in 1..Len(toServer[c]) : toServer[c][i].type = "RequestFile"
    \/ \E i \in 1..Len(toClient[c]) : toClient[c][i].type = "Snapshot"

\* OpenFile for a document of another host: when it is already open the
\* collab process answers from the RemoteDoc, else it asks the owner.
OpenFile(c) ==
    /\ c \notin Local
    /\ ~isOpen[c]
    /\ Opening(c) => RetryOpen
    /\ opens[c] < MaxOpens[c]
    /\ opens' = [opens EXCEPT ![c] = @ + 1]
    /\ ToServer(c, <<[type |-> "RequestFile"]>>)
    /\ UNCHANGED <<serverVars, clientVars, up, toClient, typed, external, breaks>>

\* OpenFile for a document of ours: subscribe with site seq 0, and create
\* the RemoteDoc at the Doc's current seq unless there is one.
OpenLocalFile(c) ==
    /\ c \in Local
    /\ opens[c] < MaxOpens[c]
    /\ opens' = [opens EXCEPT ![c] = @ + 1]
    /\ subscribers' = [subscribers EXCEPT ![c] = 0]
    /\ IF isOpen[c] THEN UNCHANGED clientVars
                    ELSE NewRemoteDoc(c, Len(history))
    /\ UNCHANGED <<history, netVars, typed, external, breaks>>

\* Snapshot: ignored when the document is already open, else the RemoteDoc
\* is created and the ops after the snapshot are requested.
HandleSnapshot(c, i) ==
    LET m == toClient[c][i]
    IN  /\ m.type = "Snapshot"
        /\ IF isOpen[c]
           THEN /\ ClientTakes(c, i, << >>)
                /\ UNCHANGED clientVars
           ELSE /\ ClientTakes(c, i, <<[type |-> "RequestOps", after |-> m.seq]>>)
                /\ NewRemoteDoc(c, m.seq)
        /\ UNCHANGED <<serverVars, up, boundVars>>

Bug_ExpectedIgnoresBuffer(c) == CurrentSeq(c) + 1

\* The global seq the client expects next, with what waits in the buffer.
ExpectedSeq(c) == CurrentSeq(c) + Len(buffer[c]) + 1

Bug_AnnounceFirstOnly(c, m, fresh) ==
    m.ops[1].site # c /\ fresh # << >> /\ buffer[c] = << >>

\* op_is_not_ours and something was buffered: RemoteOpsArrived.
Announce(c, m, fresh) == m.ops[1].site # c /\ fresh # << >>

\* OpFromServer: ops below the expected global seq are ignored, the rest is
\* buffered; if the batch starts above it, every op of the batch makes the
\* client ask for the missing ones.  The editor is told when something was
\* buffered and the first op of the batch is not the client's own.
HandleOpFromServer(c, i) ==
    LET m        == toClient[c][i]
        expected == ExpectedSeq(c)
        gap      == m.first > expected
        fresh    == SubSeq(m.ops, expected - m.first + 1, Len(m.ops))
        request  == [type |-> "RequestOps", after |-> expected - 1]
    IN  /\ m.type = "OpFromServer"
        /\ IF ~isOpen[c]
           THEN /\ ClientTakes(c, i, <<[type |-> "StopSendingOps"]>>)
                /\ UNCHANGED clientVars
           ELSE IF gap
           THEN /\ ClientTakes(c, i, [k \in 1..Len(m.ops) |-> request])
                /\ UNCHANGED clientVars
           ELSE /\ ClientTakes(c, i, << >>)
                /\ buffer' = [buffer EXCEPT ![c] = @ \o fresh]
                /\ notified' = [notified EXCEPT ![c] = @ \/ Announce(c, m, fresh)]
                /\ UNCHANGED <<isOpen, session, engineVars>>
        /\ UNCHANGED <<serverVars, up, boundVars>>

\* DocFatal: the RemoteDoc is removed.
HandleDocFatal(c, i) ==
    /\ toClient[c][i].type = "DocFatal"
    /\ ClientTakes(c, i, << >>)
    /\ DropRemoteDoc(c)
    /\ UNCHANGED <<serverVars, up, boundVars>>

\* process_local_op for n editor ops: they get the next site seqs and go to
\* the end of the local history.
NewLocal(c, n) ==
    local[c] \o [k \in 1..n |->
        [site |-> c, seq |-> siteSeq[c] + k, session |-> session[c]]]

Bug_AcksOfAnySite(c, k) == {j \in 1..k : TRUE}

\* process_remote_op on an op of ours pops the head of the local history:
\* the k-th acknowledgement in the buffer pops its k-th op.
Acks(c, k) == {j \in 1..k : buffer[c][j].site = c}

AckCount(c) == Cardinality(Acks(c, Len(buffer[c])))

\* It succeeds when every acknowledgement finds an op with its site seq.
AcksMatch(c, pending) ==
    \A k \in 1..Len(buffer[c]) : buffer[c][k].site = c =>
        LET n == Cardinality(Acks(c, k))
        IN  n <= Len(pending) /\ pending[n].seq = buffer[c][k].seq

Bug_SendUnacked(c, pending) == pending # << >>
Bug_NeverAcked(c, pending) == pending # << >> /\ pending[1].seq = lastSent[c]

\* prev_op_acked.
PrevOpAcked(c, pending) ==
    pending # << >> /\ pending[1].seq = lastSent[c] + 1

Bug_ContextBeforeRemoteOps(c) == CurrentSeq(c)

\* current_seq once the buffered ops are processed: the context of the
\* ops that are sent then.
Context(c) == CurrentSeq(c) + Len(buffer[c])

\* SendOps from the editor with n new ops: the new ops are processed first,
\* then the buffered ops of the server; then the local history is sent
\* unless part of it is in flight.
SendOps(c, n) ==
    LET pending == NewLocal(c, n)
        rest    == SubSeq(pending, AckCount(c) + 1, Len(pending))
        send    == PrevOpAcked(c, rest)
    IN  /\ isOpen[c]
        /\ typed + n <= MaxOps
        /\ typed' = typed + n
        /\ AcksMatch(c, pending)
        /\ global' = [global EXCEPT ![c] = @ \o buffer[c]]
        /\ local' = [local EXCEPT ![c] = rest]
        /\ siteSeq' = [siteSeq EXCEPT ![c] = @ + n]
        /\ buffer' = [buffer EXCEPT ![c] = << >>]
        /\ notified' = [notified EXCEPT ![c] = FALSE]
        /\ lastSent' = [lastSent EXCEPT ![c] = IF send THEN LastSeq(rest) ELSE @]
        /\ ToServer(c, IF send THEN <<[type |-> "OpFromClient",
                                       context |-> Context(c), ops |-> rest]>>
                               ELSE << >>)
        /\ UNCHANGED <<serverVars, isOpen, session, base, up, toClient,
                       opens, external, breaks>>

\* SendOps when an acknowledgement does not fit (OpMissing, OpMismatch): the
\* editor gets DocFatal and the RemoteDoc is removed.
SendOpsFails(c, n) ==
    /\ isOpen[c]
    /\ typed + n <= MaxOps
    /\ typed' = typed + n
    /\ ~AcksMatch(c, NewLocal(c, n))
    /\ DropRemoteDoc(c)
    /\ UNCHANGED <<serverVars, netVars, opens, external, breaks>>

\* DisconnectFile from the editor.
DisconnectFile(c) ==
    /\ isOpen[c]
    /\ DropRemoteDoc(c)
    /\ ToServer(c, <<[type |-> "StopSendingOps"]>>)
    /\ UNCHANGED <<serverVars, up, toClient, boundVars>>

-----------------------------------------------------------------------------
(* Owner: the Doc and its ServerEngine *)

\* RequestFile: answer with a snapshot; the requester is subscribed only
\* when its RequestOps arrives.
HandleRequestFile(c, i) ==
    /\ toServer[c][i].type = "RequestFile"
    /\ ServerTakes(c, i, ReplyTo(c, <<[type |-> "Snapshot", seq |-> Len(history)]>>))
    /\ UNCHANGED <<serverVars, clientVars, up, boundVars>>

Bug_OpsAfterSkipsOne(seq) ==
    IF seq + 1 < Len(history)
    THEN <<[type |-> "OpFromServer", first |-> seq + 2,
            ops |-> SubSeq(history, seq + 2, Len(history))]>>
    ELSE << >>

Bug_OpsAfterWrongBase(seq) ==
    IF seq < Len(history)
    THEN <<[type |-> "OpFromServer", first |-> seq - 1,
            ops |-> SubSeq(history, seq + 1, Len(history))]>>
    ELSE << >>

\* ops_after.
OpsAfter(seq) ==
    IF seq < Len(history)
    THEN <<[type |-> "OpFromServer", first |-> seq + 1,
            ops |-> SubSeq(history, seq + 1, Len(history))]>>
    ELSE << >>

Bug_SubscribeOnlyWithOps(c, i) ==
    LET ops == OpsAfter(toServer[c][i].after)
    IN  /\ toServer[c][i].type = "RequestOps"
        /\ ServerTakes(c, i, ReplyTo(c, ops))
        /\ subscribers' = [subscribers EXCEPT ![c] = IF ops = << >> THEN @ ELSE 0]
        /\ UNCHANGED <<history, clientVars, up, boundVars>>

\* RequestOps: (re)subscribe with site seq 0 and send what is missing.
HandleRequestOps(c, i) ==
    /\ toServer[c][i].type = "RequestOps"
    /\ ServerTakes(c, i, ReplyTo(c, OpsAfter(toServer[c][i].after)))
    /\ subscribers' = [subscribers EXCEPT ![c] = 0]
    /\ UNCHANGED <<history, clientVars, up, boundVars>>

\* What every host in "subs" is sent when ops are appended to the history.
Broadcast(subs, ops) ==
    [d \in Clients |->
        IF subs[d] # NotSubscribed
        THEN <<[type |-> "OpFromServer", first |-> Len(history) + 1, ops |-> ops]>>
        ELSE << >>]

\* A batch with the expected site seq.
Expected(c, m) == m.ops[1].seq = subscribers[c] + 1

\* OpFromClient: without permission or subscription it is refused with a
\* message that changes nothing; out of sequence it is answered with
\* DocFatal; else the ops get the next global seqs, the site seq of the last
\* one is recorded and all subscribers, the sender included, get them.
HandleOpFromClient(c, i) ==
    LET m    == toServer[c][i]
        subs == [subscribers EXCEPT ![c] = LastSeq(m.ops)]
    IN  /\ m.type = "OpFromClient"
        /\ \/ /\ c \notin Writers \/ subscribers[c] = NotSubscribed
              /\ ServerTakes(c, i, NoReply)
              /\ UNCHANGED serverVars
           \/ /\ c \in Writers /\ subscribers[c] # NotSubscribed /\ ~Expected(c, m)
              /\ ServerTakes(c, i, ReplyTo(c, <<[type |-> "DocFatal"]>>))
              /\ UNCHANGED serverVars
           \/ /\ c \in Writers /\ subscribers[c] # NotSubscribed /\ Expected(c, m)
              /\ history' = history \o m.ops
              /\ subscribers' = subs
              /\ ServerTakes(c, i, Broadcast(subs, m.ops))
        /\ UNCHANGED <<clientVars, up, boundVars>>

\* StopSendingOps.
HandleStopSendingOps(c, i) ==
    /\ toServer[c][i].type = "StopSendingOps"
    /\ ServerTakes(c, i, NoReply)
    /\ subscribers' = [subscribers EXCEPT ![c] = NotSubscribed]
    /\ UNCHANGED <<history, clientVars, up, boundVars>>

\* reset_doc_from_disk: a change on disk enters the history as an op of the
\* external site and goes to all subscribers.
ResetDocFromDisk ==
    LET op == [site |-> External, seq |-> external + 1, session |-> 0]
    IN  /\ external < MaxExternal
        /\ external' = external + 1
        /\ history' = Append(history, op)
        /\ toClient' = [d \in Clients |->
                          Sent(toClient, d, Broadcast(subscribers, <<op>>)[d])]
        /\ UNCHANGED <<subscribers, clientVars, up, toServer, opens, typed, breaks>>

-----------------------------------------------------------------------------
(* Connection *)

\* The connection breaks: what is in flight is lost; the RemoteDoc and the
\* subscription stay.
Break(c) ==
    /\ c \notin Local /\ up[c] /\ breaks < MaxBreaks
    /\ breaks' = breaks + 1
    /\ up' = [up EXCEPT ![c] = FALSE]
    /\ toServer' = [toServer EXCEPT ![c] = << >>]
    /\ toClient' = [toClient EXCEPT ![c] = << >>]
    /\ UNCHANGED <<serverVars, clientVars, opens, typed, external>>

\* The client's process is restarted: it also loses its RemoteDoc.
Restart(c) ==
    /\ c \notin Local /\ up[c] /\ breaks < MaxBreaks
    /\ breaks' = breaks + 1
    /\ up' = [up EXCEPT ![c] = FALSE]
    /\ toServer' = [toServer EXCEPT ![c] = << >>]
    /\ toClient' = [toClient EXCEPT ![c] = << >>]
    /\ DropRemoteDoc(c)
    /\ UNCHANGED <<serverVars, opens, typed, external>>

\* fix_world connects again; nothing is sent about open documents.
Reconnect(c) ==
    /\ ~up[c]
    /\ up' = [up EXCEPT ![c] = TRUE]
    /\ UNCHANGED <<serverVars, clientVars, toServer, toClient, boundVars>>

-----------------------------------------------------------------------------
ClientHandles(c) ==
    \E i \in Deliverable(c, toClient[c]) :
        \/ HandleSnapshot(c, i)
        \/ HandleOpFromServer(c, i)
        \/ HandleDocFatal(c, i)

ServerHandles(c) ==
    \E i \in Deliverable(c, toServer[c]) :
        \/ HandleRequestFile(c, i)
        \/ HandleRequestOps(c, i)
        \/ HandleOpFromClient(c, i)
        \/ HandleStopSendingOps(c, i)

Editor(c) ==
    \/ OpenFile(c)
    \/ OpenLocalFile(c)
    \/ \E n \in 0..MaxBatch : SendOps(c, n) \/ SendOpsFails(c, n)
    \/ DisconnectFile(c)

Next ==
    \/ \E c \in Clients :
         \/ Editor(c)
         \/ ClientHandles(c)
         \/ ServerHandles(c)
         \/ Break(c) \/ Restart(c) \/ Reconnect(c)
    \/ ResetDocFromDisk

Spec == Init /\ [][Next]_vars

\* The editor answers RemoteOpsArrived with a SendOps without ops.
FetchNotified(c) == notified[c] /\ SendOps(c, 0)

\* Fairness.  Messages in flight are handled, fix_world connects again, and
\* the editor fetches what was announced to it; users need never type, open
\* or close anything.
FairSpec ==
    /\ Spec
    /\ \A c \in Clients :
         /\ WF_vars(ClientHandles(c))
         /\ WF_vars(ServerHandles(c))
         /\ WF_vars(FetchNotified(c))
         /\ WF_vars(Reconnect(c))

-----------------------------------------------------------------------------
(* Properties *)

\* The abstract log: the owner's history, read by the open clients.
Log == INSTANCE OrderedLog WITH Readers <- Clients, Entry <- Op, log <- history,
                                joined <- isOpen, from <- base, seen <- global

\* DocSync implements OrderedLog under any transport: every op enters the
\* history once, and a RemoteDoc's history is a stretch of the owner's.
LogSpec == Log!Spec

\* Global seq of the last op the client has received.
Received(c) == CurrentSeq(c) + Len(buffer[c])

\* What an open client took from the owner, whether it is in its history
\* (L1) or still in remote_op_buffer, is the stretch of the owner's history
\* that starts at its snapshot: handle_op_from_server and process_remote_op
\* neither skip, repeat nor reorder an op, whatever the transport does.
HistoryAgreement ==
    \A c \in Clients : isOpen[c] =>
        /\ Received(c) <= Len(history)
        /\ global[c] \o buffer[c] = SubSeq(history, base[c] + 1, Received(c))

\* No editor op is sequenced twice or out of order: the ops of one session
\* are in the history with site seqs 1, 2, 3, ..., although batches are
\* delayed, refused, lost, and the owner's counter is reset by RequestOps.
SequencedOnce ==
    \A j \in 1..Len(history) : history[j].site # External =>
        history[j].seq =
            Cardinality({i \in 1..j : /\ history[i].site = history[j].site
                                       /\ history[i].session = history[j].session})

\* A batch the owner is going to accept was made with all earlier ops of its
\* site in its context, so process_ops never transforms an op against an op
\* of its own site (stop-and-wait; the reason one history per site suffices).
NoSelfConcurrency ==
    \A c \in Writers : \A i \in 1..Len(toServer[c]) :
        LET m == toServer[c][i]
        IN  (m.type = "OpFromClient" /\ subscribers[c] # NotSubscribed
               /\ i \in Deliverable(c, toServer[c]) /\ Expected(c, m)) =>
            \A g \in (m.context + 1)..Len(history) : history[g].site # c

\* No edit is forgotten: every op the editor sent in the current session is
\* either still pending or in the owner's history, so an acknowledgement
\* (process_remote_op popping local) is always for the op that was sequenced.
NoOpForgotten ==
    \A c \in Clients : isOpen[c] => \A k \in 1..siteSeq[c] :
        LET op == [site |-> c, seq |-> k, session |-> session[c]]
        IN  \/ \E i \in 1..Len(local[c]) : local[c][i] = op
            \/ \E i \in 1..Len(history) : history[i] = op

\* The acknowledgements waiting in an open document's buffer fit its local
\* history: process_remote_op does not fail with OpMissing or OpMismatch.
AcksFit == \A c \in Clients : isOpen[c] => AcksMatch(c, local[c])

\* "Even with disconnect, we shouldn't receive bogus ops from client": the
\* owner never answers a batch with DocFatal.  So it is while connections keep
\* the order and stay up; one break makes the sentence false.
NoDocFatal ==
    \A c \in Clients : \A i \in 1..Len(toClient[c]) :
        toClient[c][i].type # "DocFatal"

\* A host whose document is open gets the ops of the others: it is
\* subscribed, or its RequestOps is on the way.
OpenIsSubscribed ==
    \A c \in Clients : isOpen[c] =>
        \/ subscribers[c] # NotSubscribed
        \/ \E i \in 1..Len(toServer[c]) : toServer[c][i].type = "RequestOps"

\* "ops received from server has continuously incrementing g-seq": no
\* batch that an open client is about to handle starts after a gap.
NoGap ==
    \A c \in Clients : \A i \in Deliverable(c, toClient[c]) :
        LET m == toClient[c][i]
        IN  (isOpen[c] /\ m.type = "OpFromServer") => m.first <= Received(c) + 1

\* "the collab process can send the editor a notification when remote ops
\* arrive": an op of another site in the buffer has been announced.
RemoteOpsAnnounced ==
    \A c \in Clients :
        (\E k \in 1..Len(buffer[c]) : buffer[c][k].site # c) => notified[c]

\* The ops a client may make, and whether one is still pending.
OpsOf(c) == [site : {c}, seq : 1..MaxOps, session : 1..MaxOpens[c]]
Pending(c, op) == isOpen[c] /\ \E i \in 1..Len(local[c]) : local[c][i] = op
Sequenced(op) == \E i \in 1..Len(history) : history[i] = op

\* A SendOps of the editor would send the pending ops of c: what it sent
\* before them has been acknowledged, in the buffer if not in the history.
Sendable(c) == PrevOpAcked(c, SubSeq(local[c], AckCount(c) + 1, Len(local[c])))

\* Nothing but the editor holds an edit back: an op made while another is in
\* flight is sequenced in the end, or the acknowledgement of the other
\* arrives and the op goes with the next SendOps, unless the document is
\* closed.  A client is not told of acknowledgements, so that SendOps may wait
\* for the next edit, undo or op of another site.
NoEditHeldBack ==
    \A c \in Writers : \A op \in OpsOf(c) :
        Pending(c, op) ~> (Sequenced(op) \/ Sendable(c) \/ ~isOpen[c])

\* Open documents catch up with the owner: everything in its history
\* arrives, although the snapshot and the subscription are two steps.
CatchUp ==
    \A c \in Clients :
        (isOpen[c] /\ Received(c) < Len(history))
            ~> (Received(c) = Len(history) \/ ~isOpen[c])

=============================================================================
