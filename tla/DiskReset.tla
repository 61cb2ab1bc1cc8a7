----------------------------- MODULE DiskReset -----------------------------
(***************************************************************************)
(* reset_doc_from_disk: the file of a shared document is changed by another *)
(* process, or the editor asks for what is on disk.  The owner compares its *)
(* buffer with the file and turns the difference into ops of an external    *)
(* site that go through the engine like ops of a client.                    *)
(***************************************************************************)
EXTENDS InternalDoc

CONSTANTS
    External,   \* EXTERNAL_PROCESS_SITE_ID
    MaxChunks   \* bound: chunks of one difference

ASSUME ResetAssumption == External \in Sites /\ MaxChunks \in Nat

\* A chunk of dissimilar::diff: text that stays, goes or comes.
Chunks == [kind : {"Equal", "Delete", "Insert"}, len : 1..MaxLen]

\* What the chunks take of the old text and add to the document.
Taken(chunks) ==
    FoldLeft(LAMBDA n, c : IF c.kind = "Insert" THEN n ELSE n + c.len, 0, chunks)
Added(chunks) ==
    FoldLeft(LAMBDA n, c : IF c.kind = "Insert" THEN n + c.len ELSE n, 0, chunks)

\* Differences between the buffer and a file: consecutive chunks differ in
\* kind, and together they cover the buffer.
Diffs ==
    {d \in UNION {[1..n -> Chunks] : n \in 1..MaxChunks} :
       /\ \A i \in 1..(Len(d) - 1) : d[i].kind # d[i + 1].kind
       /\ Taken(d) = EditorLen
       /\ InternalLen + Added(d) <= MaxLen}

NewChunk(i, len) == [k \in 1..len |-> <<External, i, k>>]

\* The text of the file.
FileText(diff) ==
    FlattenSeq([i \in DOMAIN diff |->
        LET at == Taken(SubSeq(diff, 1, i - 1))
        IN  CASE diff[i].kind = "Equal"  -> SubSeq(Buffer(Cells(ranges)), at + 1, at + diff[i].len)
              [] diff[i].kind = "Delete" -> << >>
              [] diff[i].kind = "Insert" -> NewChunk(i, diff[i].len)])

\* Mutation: the ops are applied in the order of the chunks.
Bug_BackToFront(ops) == ops

\* The last op comes first, so that no op moves the place of the next.
BackToFront(ops) == Reverse(ops)

\* chunks_to_ops: an op for every chunk that changes something, at the
\* number of characters of the old buffer before it.
ChunksToOps(diff) ==
    LET OpOf(i) == LET at == Taken(SubSeq(diff, 1, i - 1))
                   IN  IF diff[i].kind = "Insert"
                       THEN Ins(at, NewChunk(i, diff[i].len), External)
                       ELSE Mark(<<Seg(at, diff[i].len)>>, FALSE, External)
    IN  BackToFront(FoldLeft(LAMBDA ops, i : IF diff[i].kind = "Equal" THEN ops
                                             ELSE Append(ops, OpOf(i)),
                             << >>, [i \in DOMAIN diff |-> i]))

\* process_ops leaves the ops as they are, their context being the current
\* seq; apply_op applies each to the document and to the buffer.
Reset(diff) ==
    FoldLeft(LAMBDA acc, op :
                LET result == ConvertInternalOp(acc.doc, op)
                IN  [doc |-> result.doc,
                     buffer |-> ApplyEdits(acc.buffer, result.live, result.edits)],
             [doc |-> Doc, buffer |-> Buffer(Cells(ranges))], ChunksToOps(diff))

ResetDocFromDisk == \E diff \in Diffs : Becomes(Reset(diff).doc)

ResetNext == Next \/ ResetDocFromDisk

ResetSpec == Init /\ [][ResetNext]_vars

-----------------------------------------------------------------------------
(* Properties *)

\* "Reset a doc to the on-disk content": after the ops of the difference the
\* owner's buffer is the text of the file, as long as nothing has been
\* deleted from the document.  (Places are counted in the buffer and taken
\* for places in the document, which keeps what was deleted.)
ResetShowsFile ==
    (\A i \in DOMAIN ranges : ranges[i].live) =>
        \A diff \in Diffs : Reset(diff).buffer = FileText(diff)

=============================================================================
