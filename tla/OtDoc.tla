-------------------------------- MODULE OtDoc --------------------------------
(***************************************************************************)
(* The text of one shared document: the control algorithm of the client    *)
(* and server engines with real ops, and undo.                             *)
(*                                                                         *)
(* DocSync shows that whatever a client has processed is a stretch of the  *)
(* owner's history; here a client takes the next ops of that history       *)
(* directly, any number at a time, and the one batch it may have in flight *)
(* is handled by the owner at any later time.  OpKind is left out: only    *)
(* print_history reads it.                                                 *)
(***************************************************************************)
EXTENDS TextOp, FiniteSets

CONSTANTS
    Clients,    \* sites with the document open; numbers, as sites are compared
    LateJoin,   \* clients whose snapshot is taken later than the others'
    InitLen,    \* characters of the file when it is opened first
    Kinds,      \* what each user does: subsets of {"Ins", "Del", "Undo", "Redo"}
    MaxEdits,   \* bound: editor ops of each client
    MaxTotal,   \* bound: editor ops over all clients
    MaxIns,     \* bound: characters in one insertion
    MaxDel,     \* bound: characters in one deletion
    MaxGroup    \* bound: undo groups of one client

ASSUME ClientAssumption ==
    /\ Clients \subseteq Nat \ {0} /\ IsFiniteSet(Clients)
    /\ LateJoin \subseteq Clients
    /\ Kinds \in [Clients -> SUBSET {"Ins", "Del", "Undo", "Redo"}]
    /\ MaxEdits \in [Clients -> Nat]
    /\ InitLen \in Nat /\ MaxTotal \in Nat /\ MaxIns \in Nat /\ MaxDel \in Nat
    /\ MaxGroup \in Nat \ {0}

VARIABLES
    history,   \* ServerEngine.gh.global
    doc,       \* ServerEngine.internal_doc with Doc.buffer
    joined,    \* the client has its snapshot
    base,      \* ClientEngine.current_seq at the start
    global,    \* ClientEngine.gh.global
    local,     \* ClientEngine.gh.local
    text,      \* ClientEngine.internal_doc with RemoteDoc.buffer
    siteSeq,   \* ClientEngine.current_site_seq
    lastSent,  \* ClientEngine.last_site_seq_sent_out
    queue,     \* ClientEngine.gh.undo_queue
    tip,       \* ClientEngine.gh.undo_tip: a number of entries, or NoTip
    group,     \* the editor's group seq
    inFlight,  \* the batch on its way to the owner, if any
    done,      \* history variable: what the user has done and can undo
    undone     \* history variable: what the user has undone and can redo

vars == <<history, doc, joined, base, global, local, text, siteSeq, lastSent,
          queue, tip, group, inFlight, done, undone>>

NoTip == -1
InitDoc == [i \in 1..InitLen |-> Cell(<<0, i>>, TRUE)]

Init ==
    /\ history = << >>
    /\ doc = InitDoc
    /\ joined = [c \in Clients |-> c \notin LateJoin]
    /\ base = [c \in Clients |-> 0]
    /\ global = [c \in Clients |-> << >>]
    /\ local = [c \in Clients |-> << >>]
    /\ text = [c \in Clients |-> InitDoc]
    /\ siteSeq = [c \in Clients |-> 0]
    /\ lastSent = [c \in Clients |-> 0]
    /\ queue = [c \in Clients |-> << >>]
    /\ tip = [c \in Clients |-> NoTip]
    /\ group = [c \in Clients |-> 1]
    /\ inFlight = [c \in Clients |-> << >>]
    /\ done = [c \in Clients |-> << >>]
    /\ undone = [c \in Clients |-> << >>]

\* A FatOp: the op with its site seq and group seq.
FatOp(op, seq, grp) == [op |-> op, seq |-> seq, group |-> grp]
Plain(fatOps) == [i \in DOMAIN fatOps |-> fatOps[i].op]
\* fatOps with their ops replaced.
Carry(fatOps, ops) == [i \in DOMAIN fatOps |-> [fatOps[i] EXCEPT !.op = ops[i]]]

CurrentSeq(c) == base[c] + Len(global[c])

-----------------------------------------------------------------------------
(* One round of the engine: a record of the client's fields that SendOps    *)
(* changes, passed through process_local_op and process_remote_op.          *)

Engine(c) == [seq |-> CurrentSeq(c), global |-> global[c], local |-> local[c],
              text |-> text[c], queue |-> queue[c], tip |-> tip[c]]

\* process_opkind with "Original": what was undone can no longer be redone.
PushOriginal(e) ==
    LET kept == IF e.tip = NoTip THEN e.queue ELSE SubSeq(e.queue, 1, e.tip)
    IN  [e EXCEPT !.queue = Append(kept, Len(e.global) + Len(e.local) + 1),
                  !.tip = NoTip]

\* process_opkind with "Undo" and "Redo": the entry now points to the new op.
MoveTip(e, redo) ==
    LET at == IF redo THEN e.tip
              ELSE (IF e.tip = NoTip THEN Len(e.queue) ELSE e.tip) - 1
        moved == IF redo THEN at + 1 ELSE at
    IN  [e EXCEPT !.queue[at + 1] = Len(e.global) + Len(e.local) + 1,
                  !.tip = IF moved = Len(e.queue) THEN NoTip ELSE moved]

\* An op of ours goes to the end of the local history.
PushLocal(e, op, seq, grp) == [e EXCEPT !.local = Append(@, FatOp(op, seq, grp))]

\* process_local_op for Ins and Del: one op, applied to the document.
LocalEdit(e, op, seq, grp) ==
    PushLocal(PushOriginal([e EXCEPT !.text = ApplyOp(@, op)]), op, seq, grp)

\* nth_in_undo_queue: entry k points into global and then into local.
Pointed(e, k) == (e.global \o e.local)[e.queue[k]]

\* The entries one undo or redo covers, in the order they are undone: from
\* the tip on, as long as the group seq is the one of the first.
UndoEntries(e, redo) ==
    LET from == IF e.tip = NoTip THEN Len(e.queue) ELSE e.tip
        all  == IF redo
                THEN IF e.tip = NoTip THEN << >>
                     ELSE [k \in 1..(Len(e.queue) - e.tip) |-> e.tip + k]
                ELSE [k \in 1..from |-> from - k + 1]
        same == {n \in 0..Len(all) :
                   \A k \in 1..n : Pointed(e, all[k]).group = Pointed(e, all[1]).group}
    IN  SubSeq(all, 1, CHOOSE n \in same : \A m \in same : m <= n)

\* generate_undo_op_1: the inverse of each op, transformed past all that
\* comes after it in the history and past the inverses already made (marks,
\* which move nothing).
UndoOps(e, redo) ==
    LET entries == UndoEntries(e, redo)
        all     == Plain(e.global \o e.local)
    IN  [k \in DOMAIN entries |->
            BatchTransform(Inverted(Pointed(e, entries[k]).op),
                           SubSeq(all, e.queue[entries[k]] + 1, Len(all)))]

\* process_local_op for Undo and Redo: every op of the group is applied and
\* appended, all with the same site seq.
LocalUndo(e, redo, seq, grp) ==
    LET ops     == UndoOps(e, redo)
        applied == [e EXCEPT !.text = ApplyOps(@, ops)]
    IN  FoldLeft(LAMBDA f, op : PushLocal(MoveTip(f, redo), op, seq, grp), applied, ops)

Bug_ShiftOnlyBeyondTip(e) ==
    [k \in DOMAIN e.queue |->
        IF e.queue[k] > e.seq /\ (e.tip # NoTip => k > e.tip)
        THEN e.queue[k] + 1 ELSE e.queue[k]]

\* Pointers to local ops move when an op enters the global part before them.
\* The bound is the global seq, not the length of the client's own history.
ShiftQueue(e) ==
    [k \in DOMAIN e.queue |-> IF e.queue[k] > e.seq THEN e.queue[k] + 1 ELSE e.queue[k]]

Bug_ApplyUntransformed(e, op) == ApplyOp(e.text, op)

\* What the client's document becomes when a remote op arrives.
ApplyRemote(e, op) == ApplyOp(e.text, BatchTransform(op, Plain(e.local)))

Bug_LocalNotTransformed(e, op) == e.local

\* The local ops once the remote op comes before them.
LocalAfter(e, op) ==
    Carry(e.local, SymmetricTransform(op, Plain(e.local)).ops)

\* process_remote_op on an op of ours: popped from local.
Acknowledge(e, fat) ==
    [e EXCEPT !.seq = @ + 1, !.global = Append(@, fat), !.local = Tail(@)]

\* process_remote_op: an acknowledgement, or an op of another site that is
\* transformed against the local ops and they against it.  The op stored in
\* the global part is the transformed one, as symmetric_transform changes
\* it in place.
RemoteOp(e, c, fat) ==
    IF fat.op.site = c
    THEN Acknowledge(e, fat)
    ELSE [e EXCEPT !.seq = @ + 1,
                   !.text = ApplyRemote(e, fat.op),
                   !.local = LocalAfter(e, fat.op),
                   !.queue = ShiftQueue(e),
                   !.global = Append(@, [fat EXCEPT !.op =
                                  BatchTransform(fat.op, Plain(e.local))])]

-----------------------------------------------------------------------------
(* What the editor sends *)

\* Internal positions of the live characters, in order.
LivePositions(d) ==
    FoldLeft(LAMBDA ps, i : IF d[i].live THEN Append(ps, i - 1) ELSE ps,
             << >>, [i \in 1..Len(d) |-> i])

\* convert_pos from editor to internal: before the first character for 0;
\* else right after the p-th live character, or, when the cached cursor is
\* there, at the end of the dead range that follows it.
InternalPos(d, p) ==
    LET live == LivePositions(d)
    IN  IF p = 0 THEN {0}
        ELSE {live[p] + 1} \cup (IF p < Len(live) THEN {live[p + 1]} ELSE {})

\* Maximal runs of consecutive positions in an ascending sequence, as
\* segments (flipped_ranges of apply_mark_dead).
Runs(ps) ==
    FoldLeft(LAMBDA segs, q :
                IF segs # << >> /\ Last(segs).pos + Last(segs).len = q
                THEN [segs EXCEPT ![Len(segs)].len = @ + 1]
                ELSE Append(segs, Seg(q, 1)),
             << >>, ps)

\* Deletion of n characters from editor position p on: the op marks only
\* what is live, the dead ranges in between are skipped.
DelOp(d, p, n, site) == Mark(Runs(SubSeq(LivePositions(d), p + 1, p + n)), FALSE, site)

NewChars(c, seq, n) == [k \in 1..n |-> <<c, seq, k>>]

-----------------------------------------------------------------------------
(* Reference for undo: a stack of what the user has done and a stack of     *)
(* what the user has undone.                                                *)

\* Entry of a stack: the editor op that put it there, and its group.
Entry(seq, grp) == [seq |-> seq, group |-> grp]

\* The entries on top of a stack (its end) that share a group.
TopGroup(stack) ==
    LET same == {n \in 0..Len(stack) :
                   \A k \in 1..n : stack[Len(stack) - k + 1].group = stack[Len(stack)].group}
    IN  CHOOSE n \in same : \A m \in same : m <= n

\* n entries move from the top of one stack to the top of the other; they
\* are the work of editor op "seq" now.
Moved(stack, n, entry) == stack \o [k \in 1..n |-> entry]
Popped(stack, n) == SubSeq(stack, 1, Len(stack) - n)

-----------------------------------------------------------------------------
(* Actions *)

\* process_remote_op for the next k ops of the owner's history.
Receive(e, c, k) ==
    FoldLeft(LAMBDA f, fat : RemoteOp(f, c, fat), e, SubSeq(history, e.seq + 1, e.seq + k))

\* prev_op_acked.
PrevOpAcked(c, fatOps) == fatOps # << >> /\ fatOps[1].seq = lastSent[c] + 1

\* The second half of handle_send_ops_from_editor: k ops that have arrived
\* are processed after the editor's, then the local ops are sent if none is
\* in flight.
Finish(c, engine, k) ==
    LET e    == Receive(engine, c, k)
        send == PrevOpAcked(c, e.local)
    IN  /\ global' = [global EXCEPT ![c] = e.global]
        /\ local' = [local EXCEPT ![c] = e.local]
        /\ text' = [text EXCEPT ![c] = e.text]
        /\ queue' = [queue EXCEPT ![c] = e.queue]
        /\ tip' = [tip EXCEPT ![c] = e.tip]
        /\ lastSent' = [lastSent EXCEPT ![c] = IF send THEN Last(e.local).seq ELSE @]
        /\ inFlight' = [inFlight EXCEPT ![c] =
               IF send THEN Append(@, [context |-> e.seq, ops |-> e.local]) ELSE @]
        /\ UNCHANGED <<history, doc, joined, base>>

\* The number of ops that may have arrived.
Arrived(c) == 0..(Len(history) - CurrentSeq(c))

Total == FoldFunction(+, 0, siteSeq)

\* The editor sends an op of group g: it gets the next site seq.
NewEditorOp(c, kind, g) ==
    /\ joined[c] /\ kind \in Kinds[c]
    /\ siteSeq[c] < MaxEdits[c] /\ Total < MaxTotal
    /\ siteSeq' = [siteSeq EXCEPT ![c] = @ + 1]
    /\ g \in {group[c], group[c] + 1} /\ g <= MaxGroup
    /\ group' = [group EXCEPT ![c] = g]

\* A new edit enters the reference stacks.
NewEdit(c, g) ==
    /\ done' = [done EXCEPT ![c] = Append(@, Entry(siteSeq[c] + 1, g))]
    /\ undone' = [undone EXCEPT ![c] = << >>]

\* SendOps with an insertion.
SendIns(c, g, k) ==
    /\ NewEditorOp(c, "Ins", g)
    /\ \E p \in 0..Len(LivePositions(text[c])), n \in 1..MaxIns :
       \E q \in InternalPos(text[c], p) :
         Finish(c, LocalEdit(Engine(c), Ins(q, NewChars(c, siteSeq[c] + 1, n), c),
                             siteSeq[c] + 1, g), k)
    /\ NewEdit(c, g)

\* SendOps with a deletion.
SendDel(c, g, k) ==
    /\ NewEditorOp(c, "Del", g)
    /\ \E p \in 0..(Len(LivePositions(text[c])) - 1) :
       \E n \in 1..MaxDel :
         /\ p + n <= Len(LivePositions(text[c]))
         /\ Finish(c, LocalEdit(Engine(c), DelOp(text[c], p, n, c), siteSeq[c] + 1, g), k)
    /\ NewEdit(c, g)

\* Undo (or Redo) and the SendOps that reports it.  The editor blocks in
\* between, and sends nothing when there is nothing to undo.
SendUndo(c, g, k, redo) ==
    LET e     == Engine(c)
        entry == Entry(siteSeq[c] + 1, g)
        from  == IF redo THEN undone[c] ELSE done[c]
        n     == TopGroup(from)
    IN  /\ NewEditorOp(c, IF redo THEN "Redo" ELSE "Undo", g)
        /\ UndoOps(e, redo) # << >>
        /\ Finish(c, LocalUndo(e, redo, siteSeq[c] + 1, g), k)
        /\ done' = [done EXCEPT ![c] = IF redo THEN Moved(@, n, entry) ELSE Popped(@, n)]
        /\ undone' = [undone EXCEPT ![c] = IF redo THEN Popped(@, n) ELSE Moved(@, n, entry)]

\* SendOps with no ops of the editor's.
Fetch(c, k) ==
    /\ joined[c] /\ k > 0
    /\ Finish(c, Engine(c), k)
    /\ UNCHANGED <<siteSeq, group, done, undone>>

\* The snapshot of a client that opens the document now.
Join(c) ==
    /\ ~joined[c]
    /\ joined' = [joined EXCEPT ![c] = TRUE]
    /\ base' = [base EXCEPT ![c] = Len(history)]
    /\ text' = [text EXCEPT ![c] = doc]
    /\ UNCHANGED <<history, doc, global, local, siteSeq, lastSent, queue, tip, group,
                   inFlight, done, undone>>

\* process_ops: the batch transformed past what its sender had not seen.
ProcessOps(batch) ==
    QuatradicTransform(Plain(SubSeq(history, batch.context + 1, Len(history))),
                       Plain(batch.ops))

\* The owner handles the batch of c: it is sequenced and applied.
HandleOpFromClient(c) ==
    LET batch == Head(inFlight[c])
        ops   == ProcessOps(batch)
    IN  /\ inFlight[c] # << >>
        /\ inFlight' = [inFlight EXCEPT ![c] = Tail(@)]
        /\ history' = history \o Carry(batch.ops, ops)
        /\ doc' = ApplyOps(doc, ops)
        /\ UNCHANGED <<joined, base, global, local, text, siteSeq, lastSent, queue, tip,
                       group, done, undone>>

Next == \E c \in Clients :
    \/ Join(c)
    \/ HandleOpFromClient(c)
    \/ \E k \in Arrived(c) :
         \/ Fetch(c, k)
         \/ \E g \in 1..MaxGroup :
              \/ SendIns(c, g, k)
              \/ SendDel(c, g, k)
              \/ \E redo \in BOOLEAN : SendUndo(c, g, k, redo)

Spec == Init /\ [][Next]_vars

-----------------------------------------------------------------------------
(* Properties *)

\* Nothing the client made is pending and it has processed all ops.
Synced(c) == joined[c] /\ local[c] = << >> /\ CurrentSeq(c) = Len(history)

\* Convergence: a client that has processed all ops and has none pending
\* shows the owner's document, and has the same tombstones: the transforms
\* of process_remote_op and of process_ops bring every order of arrival to
\* the same text.
Converged == \A c \in Clients : Synced(c) => text[c] = doc

\* When the next op a client will process is its own, it is the head of the
\* local history, transformed by the client exactly as the owner did: the
\* engine may pop it without looking at its content.
AckIsLocalHead ==
    \A c \in Clients :
        LET next == CurrentSeq(c) + 1
        IN  (joined[c] /\ next <= Len(history) /\ history[next].op.site = c) =>
                local[c] # << >> /\ Head(local[c]) = history[next]

\* The undo queue and the undo tip implement two stacks: entry k points to
\* the op of the client that did, or undid, what the k-th undoable edit of
\* the user is, and the tip separates what can be undone from what can be
\* redone, while remote ops shift the ops that are pointed to.
UndoQueueIsTwoStacks ==
    \A c \in Clients :
        LET stacks == done[c] \o Reverse(undone[c])
            e      == Engine(c)
        IN  /\ Len(queue[c]) = Len(stacks)
            /\ tip[c] = (IF undone[c] = << >> THEN NoTip ELSE Len(done[c]))
            /\ \A k \in DOMAIN stacks :
                 /\ queue[c][k] \in 1..Len(global[c] \o local[c])
                 /\ LET fat == Pointed(e, k)
                    IN  /\ fat.op.site = c
                        /\ Entry(fat.seq, fat.group) = stacks[k]

\* "everyone can only undo their own edits": where nobody deletes, the text
\* of a user who undoes nothing is visible in every copy.
OnlyOwnUndone ==
    \A c, d \in Clients :
        "Undo" \notin Kinds[d] =>
            \A i \in DOMAIN text[c] : text[c][i].ch[1] = d => text[c][i].live
=============================================================================
