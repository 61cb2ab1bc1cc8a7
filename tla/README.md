# Verification of collab-mode

collab-mode lets several editors edit one file. Every host runs a *collab
process* (`src/collab_mode`), which the editor (Emacs, `src/lisp`) talks to over
JSON-RPC. The host that owns a file sequences all ops on it; the others keep
copies that are brought together by operational transformation. This directory
holds TLA+ models of that program, the TLC runs that check them and proofs
checked by TLAPS. File names below are relative to `src/collab_mode/src/`.

## Inventory

| Component | State | Operations | Models |
|---|---|---|---|
| Sequencing protocol (`server.rs`) | `Doc` (global history, subscribers with last site seq), `RemoteDoc` (engine, `remote_op_buffer`, site seq) | OpenFile, RequestFile/Snapshot, RequestOps, SendOps, OpFromClient, OpFromServer, StopSendingOps, DocFatal, DisconnectFile | `DocSync`, `OrderedLog` |
| Ops and transformation (`op.rs`) | none | transform, inverse, batch, symmetric and quatradic transform | `TextOp` |
| Engines (`engine.rs`) | histories L1 and L2, undo queue and tip | process_local_op, process_remote_op, process_ops, undo, redo | `OtDoc` (text), `DocSync` (seqs) |
| Internal document (`engine.rs`) | ranges, cursor of each site | convert_pos, apply_ins, apply_mark_dead/live, mark_to_ins_or_del | `InternalDoc` |
| Reset from disk (`server.rs`) | file handle, buffer, `last_saved_at` | chunks_to_ops, reset_doc_from_disk, handle_file_changed | `DiskReset` (text), `DocLife` (files), `DocSync` (sequencing) |
| Connection management (`server.rs`) | `ideal_world`, `current_world`, attempt ids | fix_world_remotes, fix_world_timeouts, Connect, Hey, Bye, FailedToConnect, ConnectionBroke, shutdown | `World`; Break and Reconnect in `DocSync` |
| Transports (`webchannel.rs`) | `remote_map`, one actor per peer, one reader per stream | start_connect, insert_handle, disconnect, actor exit, streams | `World` (handles, actors, readers), `DocSync` (order and loss) |
| Signaling (`signaling/`) | client per address, connection per client, `endpoint_map` | bind, Trust, Trusted, StopAccepting, register, remove_endpoint, cleanup | `Binding`; `World` relays Connect |
| Document life cycle (`server.rs`) | `docs`, `projects`, files on disk | open, create, share, save, move, close, delete | `DocLife` |
| File watcher (`filewatch_receptor.rs`) | `watched_files` | apply_watch_files, handle_notify_event | `DocLife` |
| Configuration and trust (`config_man.rs`) | permissions, trusted hosts | UpdateConfig, accept modes | trust in `World` and `Binding`, write permission in `DocSync` |
| Editor receptors, `main.rs`, Emacs client, Cloudflare worker | – | – | not modelled |

How they interact. One task (`Server::run`) handles editor messages, remote
messages, signaling messages, the 1 s `fix_world` tick and the file watcher one
at a time, so a handler is atomic; between hosts everything is asynchronous.
The editor reaches a document only through its `RemoteDoc`, also on the owner,
which sends to itself over a loopback channel.

What is hard: messages of one peer that overtake each other (SCTP); messages
lost with a connection, and retries of nothing but RequestOps; the two steps of
snapshot and subscription; the stop-and-wait of batches; transformation with
tombstones and ties; undo pointers into a history that shifts; cached cursors
into ranges that split and join; reports of abandoned connection attempts, which
name their attempt only sometimes; clients of the signaling server that replace
each other under one address; a file that is changed, moved or replaced by
another program between two steps of the host. `hazards` in `PROJECT.json` lists each with its
line and the properties for it.

What makes each part correct:

- protocol: every host reads the same log without holes or repetitions; no edit
  is forgotten or sequenced twice; a well-behaved client is not refused (false after a
  disconnect, see below); open documents catch up and no edit is held back but by the
  editor;
- transformation: TP1, compatibility with undo, marks that follow their text;
- engines: copies converge; an acknowledged op is the one that was sent; undo
  undoes the user's own last group;
- internal document: ranges coalesced, cursors exact, and conversion in both
  directions agreeing with the document seen as characters;
- reset: the buffer shows the file;
- connections: a host is Connected only with a running actor behind it, no message
  of another attempt ends a live connection, and two hosts end up connected or
  give up, both of them;
- signaling: the trust list a host takes for confirmed is the server's, a host that
  accepts connections is reachable again and again, one that stopped leaves no
  client behind;
- life cycle: the file under the name of a document is what the document last read
  or wrote, no two documents write to one file, an echo of a save undoes no edit.

## Modules

**DocSync** – the protocol of one document for any number of hosts. An op is its
site, site seq and session; the text is left out. Every message handler is an
action (`HandleSnapshot`, `HandleOpFromServer`, `HandleDocFatal` at the client;
`HandleRequestFile`, `HandleRequestOps`, `HandleOpFromClient`,
`HandleStopSendingOps` at the owner), every editor request is one (`OpenFile`,
`OpenLocalFile`, `SendOps` with its failing form `SendOpsFails`,
`DisconnectFile`), and so are `ResetDocFromDisk`, `Break`, `Restart` and
`Reconnect`. `Deliverable` says which message of a queue may be handled next:
the first for clients in `Ordered` (loopback, SSH, io), any for the others
(a fresh SCTP stream for each message, each read in a task of its own).
An editor op is one op here, although one undo may give several ops that share
a site seq; `OtDoc` has those. `session` is a history value no guard reads.
A refused OpFromClient (no permission, not subscribed) is answered with a
message that changes nothing, so the answer is left out.

**OrderedLog** – what a document promises: one log, entries appended once, hosts
that join, read a stretch without holes, and leave. `DocSync!LogSpec` is its
specification under the mapping log = history, seen = global.

**TextOp** – ops, transformation and inverse, and the document as a sequence of
characters with liveness. Characters are distinct values, so that equal texts
are equal for the right reason. The text a mark carries is left out but for its
length.

**OtDoc** – the engines with ops of TextOp. A client takes the next ops of the
owner's history in order, any number at a time, which is what `DocSync` shows of
the protocol. One SendOps carries one editor op. `done` and `undone` are the
reference for undo: two stacks. `OpKind` is left out, only `print_history`
reads it. Undo and the SendOps that reports it are one action, as Emacs blocks in
between and `check_undo_context` refuses anything else.

**InternalDoc** – ranges and cursors. `ConvertPos`, `ApplyIns`, `ApplyMarkDead`,
`ApplyMarkLive`, `MarkToInsOrDel` follow the code; positions are counted from the
cursor, as the range iterator does, so a stale cursor has its effect. A failed
assertion or an index out of range sets `panicked`. The reference is `ApplyOp` of
TextOp on the cells the ranges stand for.

**DiskReset** – `chunks_to_ops` and its ops applied to `InternalDoc` and to the
buffer. `dissimilar::diff` is external: any sequence of chunks that covers the
buffer. Its specification is that of `InternalDoc` with resets added, so its run
also checks `InternalDoc`'s properties.

**World** – two hosts that connect to each other. An entry of `current_world` has
its status and whether it ever was Connected; `task`, `link`, `wire`, `reading` and
`inbox` are what `webchannel.rs` keeps for the peer: connect tasks that wait for a
transport, the live handle with its actor, messages on the wire, streams being
read, and messages queued for `handle_remote_message`. Connection ids are random
and only compared with the id of the entry, so the model keeps the outcome (`cur`)
and ages everything when the entry gets a new id. Times are left out: a retry may be
due at any moment, a timeout that fires although an answer is under way is a
disturbance, and so are a broken link, a lost Connect, a restart with or without Bye,
a changed trust list, an ended signaling client and a second Connect of the editor.
`late` is a history value: the last Hey came when its attempt was over. Signaling is
reduced to bound or not, and to whether the server relays a Connect: to a bound host,
and, once it has been told of a change of the trust list, to one that trusts the sender
(`FixWorldConnect`, `HandleConnect`). What it answers otherwise changes nothing at the
sender. `Binding` has the rest. An attempt over SSH is left out: it has no second stage
and no signaling.

**Binding** – one host and its signaling server. A client actor and its connection
share a number. All clients report through one queue and name the address, never
the client, as in the code; the cleanup closure removes the entry of the address, and
the server removes an endpoint by id. `trusted` stands for `ideal_world.trusted`;
that a Connect may insert a host into it has the effect of `UpdateConfig` here. The
12-hour limit of a connection comes when nothing else is under way.

**DocLife** – documents, paths and inodes. A document has its name, the
`canon_filename` it was opened with, a handle on an inode, the text of its buffer,
and the text it last read or wrote; a text is a number. `raw`, `events` and
`towatch` are what is under way between file system, watcher and host; `window` is the
100 ms after a save. They end at any moment (`WindowEnds`), also before the echo of the
save has reached the watcher; that echo is then a change like any other. Another program
may write, replace (a new inode) or delete a file at any time. The watcher forwards
notifications of the kind Modify(Data) only; a write is one, a replacement may be one or
not, as a rename onto the path is of another kind on some systems. Opening a file that
exists may fail: a FileChanged then does nothing, and `ShareFile` gives a document with a
path and without a handle (`NoFile`), which saves nothing until a reset gives it one.
`missed`, `moved` and `torn` are history values that name the exceptions
of the properties: the documents that a change was not reported to, those whose file
was moved, and those that a move parted from the name of their file, because it failed
half way or because they wrote to the moved file by another name (`Stray`). Which
number a new inode, or in Binding a new client, gets is of no consequence, so it is one
that is not in use.

**MCDocSync, MCOtDoc, MCTextOp, MCWorld, MCBinding, MCDocLife** – instances for TLC.
**DocSyncProofs, TextOpProofs, OtDocProofs, InternalDocProofs, WorldProofs, BindingProofs,
DocLifeProofs** – theorems and their proofs. OtDocProofs extends TextOpProofs for what the
operators of TextOp compute. **FoldLemmas** – what a fold over a sequence is, for any operator.

## Runs

Passing:

| Run | Shows |
|---|---|
| DocSyncFifo | ordered transports, own host and a remote one, the remote one opening twice, two ops in batches of up to two, one change on disk: `OpenIsSubscribed`, `NoGap`, `RemoteOpsAnnounced`, and under `FairSpec` `NoEditHeldBack`, `CatchUp` |
| DocSyncSctp | two SCTP clients, three ops, one break or restart: `HistoryAgreement`, `SequencedOnce`, `NoSelfConcurrency`, `NoOpForgotten`, `AcksFit` |
| DocSyncReopen | one SCTP client that opens twice, repeats OpenFile, breaks or restarts: implements `OrderedLog` |
| TextOp | `TP1`, `IP3`, `MarkFollowsText` for all pairs of ops on all documents of four characters |
| OtDocEdit | `Converged`, `AckIsLocalHead` for insertions and deletions of two clients, one joining late |
| OtDocUndo | `UndoQueueIsTwoStacks` for undo and redo in groups with remote insertions |
| InternalDoc | `Coalesced`, `CursorsExact`, `NoPanic`, `InternalOpShown`, `EditorOpMeant`, `ResetShowsFile` for documents of up to five characters, two sites and every change on disk of up to three chunks |
| World | `ConnectedIsBacked`, `LiveLinkKept`, `Heals` for two hosts and one disturbance |
| Binding | `TrustConfirmed`, `StopLeavesNoClient`, `StaysReachable` for three clients at a time, three requests and one disturbance |
| DocLife | `InSync`, `HandlesApart`, `WritesUnderItsName`, `EchoIsIgnored` for two documents, two paths and two steps of the editor or of other programs |

`TypeOK` is checked in DocSyncFifo, InternalDoc, World, Binding and DocLife.

Violated, against a sentence of the repository (quoted under `findings`):

| Run | What happens |
|---|---|
| DocSyncBreak | a client has an op sequenced, the connection breaks with the owner's answer under way, and a change on disk shows it the gap; its RequestOps sets the site seq the owner expects back to 0 (`server.rs` line 3534), and its next batch, counted on, is answered with DocFatal, which closes the document. The comment at `server.rs` 3458-3459 says "Even with disconnect, we shouldn’t receive bogus ops from client" |
| OtDocUndoOther | the remote op stored in a client's history is transformed against local ops behind it, so an undo, transformed past it, can delete the text of another user |

Further observations. Those on the protocol and the text are each seen by adding the
named property to a run above or by changing the named constants of it:

- `DocSyncSctp` with `NoDocFatal`: the same as in `DocSyncBreak` without any break, by
  an OpFromServer that is overtaken.
- `DocSyncSctp` with `NoGap` as invariant: two broadcasts are handled in the other
  order, a gap without any break, although `README.md` lines 109-111 count on a
  reliable channel and "continuously incrementing g-seq".
- `DocSyncSctp` with `RemoteOpsAnnounced`: the answer to RequestOps starts with an op
  of the client itself, and the ops of others in it are not announced
  (`server.rs` line 3630 looks at the first op only).
- `DocSyncReopen` with `SequencedOnce`, `MaxOps = 4`, `MaxBatch = 2` and
  `MaxExternal = 0`: a host that opens a document again over SCTP may have a batch of its
  former `RemoteDoc` sequenced after its new snapshot; site seqs start anew, so the
  client takes it for the acknowledgement of a new op. The proofs name this
  condition (`NoStaleOps`).
- `DocSyncFifo` with `NoDocFatal` and `LocalOpens = 2`: opening an own open file again
  sets the site seq the owner expects back (`server.rs` line 2988); the next edit gets
  DocFatal.
- `DocSyncFifo` with `NoEditHeldBack` without `Sendable(c)`: an edit made while another is
  in flight stays pending if the user stops typing, as the acknowledgement of the
  first is not announced to the editor and nothing else makes it call SendOps.
- `OtDocUndo` with `LateJoin = {1}` and two ops of client 2: in a document joined
  at a global seq above 0 the undo pointers do not shift, since `engine.rs` line
  1644 compares them, counted from the start of the client's history, with a
  global seq.
- `OtDocEdit` with kinds Del and Undo for both clients: two sites delete the same
  text and one of them undoes its deletion; marks of opposite liveness are not
  transformed against each other (`op.rs` line 139), and the copies differ.
- `InternalDoc` with `ResetShowsFile` for every document, without its premise: the
  chunks of a change on disk are placed by counting live text (`server.rs` line
  3374) and applied as internal ops, whose positions count deleted text too, so after a
  deletion the change goes to the wrong place.

The others are written into the properties of `World`, `Binding` and `DocLife` as
named exceptions, or into their actions; where a property names an exception,
dropping it from the property shows the case.

- Connections: Hey carries no attempt id, so one read from a link that is gone marks
  the entry Connected with no actor behind it (`late`), and nothing but a Bye of the
  peer repairs that. A connect task whose attempt was given up before it had a handle
  goes on and may put an old link into `remote_map`; while the peer uses it, newer
  attempts end with ConnectionExists. IdNotFound carries the id of the sender and so
  changes nothing. A peer that does not trust us is tried for ever. The
  signaling server does not know Rejected and closes the connection it came from.
- Signaling: the cleanup of an old client removes the address of a newer one, which
  stays registered at the server without a client in the map until the 12-hour
  limit; `remove_endpoint` of an old connection removes the registration of a newer one;
  AcceptStopped of an old client makes the host bind again, which is a no-op while
  the newer client is in the map, so the entry stays Binding until its timeout.
  fix_world binds with the trust list of the ideal signaling entry, which nothing
  fills; the Trust that follows repairs it.
- Files: `canon_filename` stays when a file is moved, so a change under the former path
  makes the document take the handle of whatever is there. A move of a
  directory with a buffer open fails after the file system was changed and leaves
  documents under their former names; opening the file again gives a second document
  for it, and a move onto the path of a deleted open document gives two
  documents of one name. A moved document that is reset to what is under its former
  path writes there, until that file is moved in turn. A change made before the watcher knows the file, or within
  100 ms after a save, or a replacement by the same text, is missed. So is a replacement
  by renaming another file onto the path where that is not reported as Modify(Data)
  (on Linux, inotify reports it as a change of the name), although the comment at
  `filewatch_receptor.rs` 109-110 says that "all operations we care about involve at
  least one Modify(Data(_)) event". The
  echo of a save that comes later than 100 ms, which the comment at `server.rs` 288-292
  expects not to happen "in most cases", is taken for a change and undoes the
  edits made since the save. Sharing a file that cannot be opened for
  reading and writing gives a document whose saves succeed without writing anything
  (`server.rs` 4014-4019, 616). The
  engine is given the length in bytes, so every op on a file with wider characters
  fails after `process_ops`: it is in the history, at best in the buffer, and is not
  sent to the subscribers. A second notification of a change that a reset
  has taken in already undoes the edits made since, as a reset does not update
  `last_saved_at`.

Bounds. Two hosts suffice for every case of the protocol code, which treats
hosts pairwise but for the broadcast; two or three ops give a batch in flight, one
pending and one of the other site; one break covers a loss in each direction.
Two sites with three to five ops reach every branch of the transformation and of
the undo queue. Five characters give three ranges around the marked one on either
side and a split in the middle.
World: attempts, retries and stale reports occur without any disturbance, as both
hosts may start at once; one disturbance (of eight kinds, at any moment, on
either host) brings in the reports that come late. An inbox of two holds a report
of an old attempt and one of the next. Binding: three clients are one that ends, one
that replaces it and a third that replaces that; larger instances (two clients with
four requests and two disturbances, three clients with two disturbances)
were checked once, apart from the runs. DocLife: two paths in two directories have a move of a file and
of a directory, two documents and two inodes have every pair that can be mixed
up, and two steps are a change and its counterpart; a notification of each is
under way. Two texts with the other one wide were checked the same way.

Deadlock is not checked: when all bounds are used up, nothing need happen.

Fairness. `FairSpec` has weak fairness for handling messages (the `select!` loop
of `Server::run` goes on as long as channels have messages), for `Reconnect`
(`fix_world` runs every second) and for `FetchNotified`: Emacs answers
RemoteOpsArrived with an empty SendOps from a timer. Users need never type,
open or close, and no editor is assumed to send a SendOps for any other reason: that
is why `NoEditHeldBack` ends with an edit sequenced, or free to go with the next SendOps
(`Sendable`), whenever the user gives cause for one.
The run `DocSyncFifo` has ordered transports and no breaks: a batch lost with a
connection is never sent again by this code, so nothing of the kind holds with
breaks.
World has weak fairness for every event source of `Server::run`, for `fix_world` and
for every task, and strong fairness for the end of ICE one way or the other, since
ICE gives up after a time however often its counterpart comes and goes. Binding has weak
fairness for the host, its clients and the server's tasks. DocLife
states no liveness. Users, other programs and disturbances are never fair.

Every property of a passing run has a mutant: a definition changed as a plausible
bug would (`Bug_...`), under which TLC finds the property violated.

## Proofs

Every theorem holds for every value of the constants: any set of clients, hosts'
bounds of any size, any transport (`Ordered` is arbitrary), any number of breaks and
disturbances, any document and any op. 30 of the 38 properties that the passing runs check
are proved, seven of them for the hosts and connections that the theorem names, two for
users who do not undo.

### The sequencing protocol

All in `DocSyncProofs`, whose parts are numbered as here.

1. Types and the history.

- `TypeCorrect`: `Spec => []TypeOK`. TypeOK is not inductive: `LastSeq` needs
  batches that are not empty, so `TypeInv` adds it for the messages in flight.
- `HistoriesAgree`: `Spec => []HistoryAgreement`. The inductive invariant
  `AgreeInv` adds that every OpFromServer in flight carries the stretch of the
  history it claims (`MessagesAgree`), that every snapshot's seq is within the
  history, and that open clients agree with it (`ClientAgrees`). Handlers that
  append to the history keep all three, as stretches of a sequence are stretches
  of its extensions; a client only appends what continues its buffer; SendOps
  moves the buffer to `global`.

2. The refinement.

- `ImplementsOrderedLog`: `Spec => LogSpec`, the refinement of `OrderedLog`, whose
  `Commit` appends only ops the log does not have yet. The owner's counter does not
  give that: it counts the ops of a RemoteDoc, starts anew with the next one, and a
  RequestOps resets it. What does is `LogInv`: every op in the history or in flight was
  sent (`Made`), no op is twice in the history or twice in flight, and none is in
  both. A client sends an op in one batch only, since `lastSent` grows.

3. Once and in order, under `[]NoStaleOps`, that no op of an earlier opening is sequenced
after the snapshot of the present one:

- `OpsSequencedOnce` (`SequencedOnce`), `AcknowledgementsFit` (`AcksFit`) and `OpsAreKept`
  (`NoOpForgotten`). `OnceInv` counts the ops of each session in the history: they
  are numbered 1, 2, 3, ...; a batch in flight has the next numbers and is the only one
  of its session; an open client has taken as many acknowledgements as there
  are ops of its session in what it has processed.
- `OwnOpsAreKnown` (`NoSelfConcurrency`), under `[]NoStaleBatch` besides, that no batch of
  an earlier opening is under way to an open document: `SelfInv` has at most
  one batch of a session in flight, which knows all earlier ops of its site.

Without the premise the first two are false (see *Further observations*).

4. The premises hold when every host opens the document once,
over any transport, or has ordered messages and an editor that waits for the answer to
OpenFile (`OpensApart`): `OpsSequencedApart`, `AcknowledgementsFitApart`,
`OpsAreKeptApart`, `OwnOpsAreKnownApart`. The run `DocSyncSctp` is an instance. In
`ApartInv` a host has one request or answer under way, and with ordered
messages the RequestFile pushes the batches of the earlier openings out before it.
Breaks and restarts only take messages away.

5. Connections that stay up and keep the order, with any
number of openings (`Steady`, of which the run `DocSyncFifo` is an instance): `NoBogusOps`
(`NoDocFatal`, of which `DocSyncBreak` shows that the condition is needed), `StaysSubscribed` (`OpenIsSubscribed`), `OpsWithoutGap` (`NoGap`) and
`OthersOpsAnnounced` (`RemoteOpsAnnounced`). `SteadyInv` says of each host:

- open and subscribed, it is being sent everything after what it has received, without
  a gap, its own ops and those of others in different messages;
- open and not subscribed, its RequestOps is on the way, behind StopSendingOps only;
- closed, no subscription is left when the owner comes to its RequestFile, and nothing
  follows the Snapshot;
- the batches in its queue continue the owner's counter, or start at 1
  behind a RequestOps.

Each of the four is false over SCTP, or with one break.

### Operations and transformation

`TextOpProofs`, for every document of any length, any two sites and any two concurrent ops,
insertions of any length and marks of any number of segments:

- `OpsStayConcurrent`: the ops are ops of two sites on the document, which is the
  invariant the others need;
- `TransformationConverges`: `Spec => []TP1`;
- `InverseFollowsOp`: `Spec => []IP3`;
- `MarksFollowText`: `Spec => []MarkFollowsText`.

The model's operators on sequences are folds. A fold is proved about by an induction
written out: the naturals for which a statement holds are a set; its complement has no
least element (`FoldLemmas!Least`, from the well-foundedness of subset inclusion on finite
sets). `FoldLemmas` has the operator folded as a constant, so its lemmas (a fold over
the empty sequence, over one element more, over two sequences one after the other) are
about every fold of the model that a module INSTANCEs it for. With them comes
each operator by what it does to positions: an insertion moves what is at or behind
its position, a mark sets the liveness of what it covers and moves nothing, and
transforming a mark moves every position it covers as the insertion does. `OpsCommute`,
TP1 for two ops, compares the two documents position by position. From it:
`BatchTransform` of an op past a sequence, `SymmetricTransform` and
`QuatradicTransform` of two sequences (`Confluent`: a set of ops any two of which
commute, of which the insertions and deletions of several sites are one).

### Engines and text

`OtDocProofs`, for any number of clients, any document, any joins, insertions and
deletions (`EditsOnly`, of which the run `OtDocEdit` is an instance):

- `AcksAreHeads`: `Spec => []AckIsLocalHead`;
- `ClientsConverge`: `Spec => []Converged`.

Neither is inductive. `Inv` says of the owner that the history is valid on the file, op
after op (`Valid`: every position is in the document it is applied to), and that the
document is the history applied to the file; and of each client that has joined
(`ClientOk`):

- `TextOk`: its text is the first `CurrentSeq` ops of the owner's history and then its local
  ops, applied to the file. A remote op keeps that because the transformation of
  one op against a sequence closes the square (TP1, by induction along the local ops);
- `PhaseOk`: where its batch in flight is. Its first m local ops are the batch, carried
  along what it has processed since it sent it (`InFlightPhase`, the owner has not
  handled it); or a block of the history is the same batch carried along what the owner
  had, and the client has yet to reach it (`HandledPhase`); or the client is in that
  block, and the next ops of the history are its local ops (`AckPhase`). The phases follow
  each other in this order, and no other op of the client is in the history ahead of it;
- `LocalOk`: its local ops are its own, with site seqs in order, so that `prev_op_acked`
  means that m is 0.

`AckIsLocalHead` is the third phase; `Converged` is `TextOk` without local ops. The owner,
too, applies a batch it has transformed, which is valid there by `TransportValid`. Every op
the editor's requests become is one of the commuting set: `InternalPosType`,
`DelOpType` (runs of live positions are segments inside the document).

With undo, `Converged` is false (see *Further observations*), as an undo may make live
what another deletion makes dead.

### Ranges and cursors

`InternalDocProofs`, for `ResetSpec`: a file of any length, any number of sites, with an
editor or without, insertions of any length, marks of any number of segments and any
difference between buffer and file:

- `DocTypeCorrect`: `ResetSpec => []TypeOK`;
- `RangesStayCoalesced`: `ResetSpec => []Coalesced`;
- `CursorsStayExact`: `ResetSpec => []CursorsExact`;
- `DocNeverPanics`: `ResetSpec => []NoPanic`.

The four need each other, so one invariant (`IInv`) has them all: nothing has panicked, the
ranges have characters and alternate (`DocOk`), every cached cursor is none or exactly the
beginning of a range of the document as it is now (`CursorsOf`), and the document is
within its bound. It is inductive. The steps:

- `Spliced`: every op puts some ranges in the place of ranges lo..hi. Where a range behind
  them begins moves by what the new ones are longer, in either document (`Growths`); so
  shifting the cursors behind hi by that much, and their idx by the number of ranges, keeps
  them exact.
- `ConvertPosIs`: from any exact cursor, left or right, the position searched for
  is in the range found or at one of its ends, and the cursor returned is exact.
- Each arm of `apply_ins` is such a splice (`InsInLive`, `InsBeforeDead`, `InsInDead`, ...)
  and finds its assertion on the neighbour true, as the ranges alternate.
- For a mark, the ranges affected are found (`ShapeIs`), what replaces them alternates with
  its neighbours (`MarkAlternates`), is as long as they were in the document, and longer or
  shorter in the editor by what `Flipped` lists (`MarkGrowths`); the segments listed do not
  touch, which the code asserts.
- The ops of a difference with the file are in reverse order and lie within the document
  although their positions are counted in the buffer, which is never longer
  (`ChunkOpsOk`, `ResetsOk`).

### Connections

`WorldProofs`:

- `TypeCorrect`: `Spec => []TypeOK`;
- `ConnectedHasActor`: `Spec => []ConnectedIsBacked`;
- `LiveLinksAreKept`: `Spec => LiveLinkKept`.

The inductive invariant `WorldInv` adds `OneAttempt`: at most one of a host's waiting
task, its live link and a queued report of failure carries the id of the current
attempt. It is what makes `is_stale_connection_attempt` sufficient: while the current
link is live, every failure report in the inbox is stale, so none can end it. A new id
ages all three at once; a task hands its id to its link or its report, a link to its
report. A step of a host leaves the part of the other alone (`Alone`).

### Signaling

`BindingProofs`:

- `TypeCorrect`: `Spec => []TypeOK`;
- `StopLeavesNone`: `Spec => []StopLeavesNoClient`. `EntryInv`: without an entry in
  `current_world` there is no client in the map.
- `TrustIsConfirmed`: `Spec => []TrustConfirmed`. The property speaks of a quiet
  state; `TrustInv` says what a state that is not quiet is heading for: the list that the
  last Trusted under way, else the last message queued, else the entry carries (`Final`) is
  the one offered in the bind and the one the server has registered, if only one client
  is left and the queue leaves the entry Bound. The last condition is what
  late reports of former clients disturb.

### Documents and files

`DocLifeProofs`:

- `TypeCorrect`: `Spec => []TypeOK`;
- `FilesAreApart` (`HandlesApart`) and `SavesGoToTheName` (`WritesUnderItsName`), from `FileInv`: a
  document that was not moved is the only one of its name, which is its canonical path,
  and its file is under no other path; so a handle taken from a path is no one else's.
- `ReportsAreEnough` (`InSync`), from `ReportInv`: a document that holds a handle, is neither
  moved nor missed and out of sync with the file under its name has a notification or a
  FileChanged under way for its path. Where one of them is dropped, as it is of another
  kind, for a path not watched, older than a save, or for a file that cannot be opened, the
  documents it leaves out of sync count as missed; every other resets the document.
- `EchoesLeaveTheText`: `Spec => EchoIsIgnored`, from `EchoInv`: a notification that is still
  taken for an echo of a save belongs to a document within the 100 ms, and the FileChanged
  made of it carries the document among those it is old for (`old`), through later saves,
  moves and closings.

### Assumptions

On constants only, and TLC evaluates them in every run: `SiteAssumption` and
`BoundAssumption` of DocSync, `TextOpAssumption` (sites are compared) of MCTextOp,
`ClientAssumption` of OtDoc, `DocAssumption` of InternalDoc and `ResetAssumption` (the
external site is a site) of DiskReset, `HostsAssumption` (two hosts) and `BoundsAssumption` of World,
`ListsAssumption` and `BoundsAssumption` of Binding, `NamesAssumption` and
`BoundsAssumption` of DocLife. Bounds are any naturals; names that stand for "none" are
not in the sets of the others.

### Only model-checked

- Liveness and everything about ENABLED: `CatchUp`, `NoEditHeldBack`, `Heals`,
  `StaysReachable`.
- `UndoQueueIsTwoStacks` of OtDoc: undo chooses its entries and the pointers of its queue
  move with every remote op.
- `InternalOpShown`, `EditorOpMeant` and `ResetShowsFile`: what the ops do to the ranges is
  compared with what they do to a document of cells, and with the buffer that the
  instructions for the editor are carried out on. The theorems say that the ranges and the
  cursors are sound, not that the text is the right one.

## Plan

1. *Done*: DocSync and OrderedLog, TextOp, OtDoc, InternalDoc, DiskReset, the
   runs above, type correctness and HistoryAgreement proved.
2. *Done*: World with its theorems, Binding, DocLife, resets in the run of
   InternalDoc.
3. *Done*: the refinement of `OrderedLog`; `SequencedOnce`, `AcksFit`, `NoOpForgotten` and
   `NoSelfConcurrency` with the conditions under which they hold; the four properties of
   steady connections; the safety properties of Binding and DocLife.
4. *Done*: the transformation functions for every pair of ops; convergence and
   acknowledgements of the engines; the ranges and cursors of InternalDoc.
5. *Later*: the undo queue; that the ranges of InternalDoc stand for the right text; the relay of the
   signaling server between two hosts, with its queues of one message; what moving and
   deleting a document tells its subscribers.

## Not modelled

- SDP and candidates, which only ICE reads, and the queues of capacity 1 they pass
  through at the signaling server: a hazard without a property so far.
- ICE, DTLS and SCTP, among them the wrap of stream ids: `webrtc_sctp` and its kin
  are not part of the source. The first steps of an SSH connection.
- Listing files, `make_directory` and declaring projects: they
  change no document; JSON framing, the receptors, `main.rs`.
- The Emacs user interface, of which DocSync has only when it sends SendOps, and the
  Cloudflare worker, which repeats the signaling server.
