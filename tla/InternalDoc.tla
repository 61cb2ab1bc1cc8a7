---------------------------- MODULE InternalDoc ----------------------------
(***************************************************************************)
(* InternalDoc of engine.rs: the document as alternating live and dead     *)
(* ranges, a cached cursor for every site, and the conversion between      *)
(* editor positions (live text only) and internal positions.               *)
(*                                                                         *)
(* Text is left out but for its length: an op names the internal positions *)
(* it covers.  TextOp, where the document is a sequence of characters, is  *)
(* the reference the ranges and the instructions for the editor are        *)
(* compared with.                                                          *)
(***************************************************************************)
EXTENDS TextOp, FiniteSets, FiniteSetsExt

CONSTANTS
    Sites,        \* sites whose ops reach the document; numbers, as in TextOp
    EditorSites,  \* the site of the editor, or {} for the owner's copy
    InitLen,      \* length of the file
    MaxLen,       \* bound: internal length of the document
    MaxStr,       \* bound: characters in one insertion
    MaxSegs       \* bound: segments of one mark

ASSUME DocAssumption ==
    /\ Sites \subseteq Nat \ {0} /\ IsFiniteSet(Sites) /\ EditorSites \subseteq Sites
    /\ MaxLen \in Nat /\ InitLen \in 0..MaxLen /\ MaxStr \in Nat /\ MaxSegs \in Nat

VARIABLES
    ranges,    \* InternalDoc.ranges
    cursors,   \* InternalDoc.cursors
    panicked   \* an assertion has failed or an index was out of bounds

vars == <<ranges, cursors, panicked>>

\* Range::Live and Range::Dead.
RangeOf(live, len) == [live |-> live, len |-> len]

\* A Cursor: both positions of the beginning of range idx.  None: no range.
None == 0
Cursor(editor, internal, idx) ==
    [editor |-> editor, internal |-> internal, idx |-> idx]

Init ==
    /\ ranges = IF InitLen > 0 THEN <<RangeOf(TRUE, InitLen)>> ELSE << >>
    /\ cursors = [s \in Sites |-> Cursor(0, 0, None)]
    /\ panicked = FALSE

Doc == [ranges |-> ranges, cursors |-> cursors, panicked |-> panicked]

-----------------------------------------------------------------------------
(* Ranges seen from a cursor (RangeIterator) *)

\* The editor's position if "editor", the internal one otherwise.
Pos(cur, editor) == IF editor THEN cur.editor ELSE cur.internal

\* What a range adds to either position (len, live_len).
Extent(r, editor) == IF editor /\ ~r.live THEN 0 ELSE r.len

Extents(rs, editor) == FoldLeft(LAMBDA n, r : n + Extent(r, editor), 0, rs)

\* Either position of the beginning of range i.
Start(rs, i, editor) == Extents(SubSeq(rs, 1, i - 1), editor)

\* The same as the iterator counts it, to the left or right from a cursor.
BegOf(rs, cur, i, editor) ==
    Pos(cur, editor) + Start(rs, i, editor) - Start(rs, cur.idx, editor)
EndOf(rs, cur, i, editor) == BegOf(rs, cur, i, editor) + Extent(rs[i], editor)

\* move_to_beg: the cursor at range i.
MovedTo(rs, cur, i) == Cursor(BegOf(rs, cur, i, TRUE), BegOf(rs, cur, i, FALSE), i)

\* The editor position of an internal position in the range the cursor is
\* at, or the other way round.
Within(rs, cur, pos, editor) ==
    Pos(cur, ~editor) + IF editor \/ rs[cur.idx].live THEN pos - Pos(cur, editor) ELSE 0

\* The range that holds pos, looked for from a cursor.  To the right, the
\* first range that ends at pos or later; to the left, the first that begins
\* at pos or before, and never a live range beginning at pos when a dead one
\* ends there.
RangeAt(rs, pos, from, editor) ==
    LET Beg(i) == BegOf(rs, from, i, editor)
    IN  IF pos > Pos(from, editor)
        THEN Min({i \in from.idx..Len(rs) : pos <= EndOf(rs, from, i, editor)})
        ELSE Max({i \in 1..(from.idx - 1) :
                    pos >= Beg(i) /\ ~(editor /\ pos = Beg(i) /\ rs[i].live /\ i > 1)})

\* convert_pos: the other position of pos, and the cursor of its range.
ConvertPos(rs, pos, cur, editor) ==
    LET from == IF cur.idx \in {None, 1} THEN Cursor(0, 0, 1) ELSE cur
        At(to) == [pos |-> Within(rs, to, pos, editor), cur |-> to]
    IN  IF pos = 0
        THEN [pos |-> 0, cur |-> IF rs = << >> THEN cur ELSE Cursor(0, 0, 1)]
        ELSE IF pos = Pos(cur, editor)
        THEN [pos |-> Pos(cur, ~editor), cur |-> cur]
        ELSE IF rs = << >>
        THEN [pos |-> 0, cur |-> cur]
        ELSE At(MovedTo(rs, from, RangeAt(rs, pos, from, editor)))

-----------------------------------------------------------------------------
(* Insertion *)

Bug_IndexByLength(cur, len, by) ==
    Cursor(cur.editor + len, cur.internal + len, cur.idx + len)

Shifted(cur, len, by) == Cursor(cur.editor + len, cur.internal + len, cur.idx + by)

Bug_ShiftBehindOnly(cs, idx, len, by) ==
    [s \in DOMAIN cs |-> IF cs[s].idx # None /\ cs[s].idx > idx
                         THEN Shifted(cs[s], len, by) ELSE cs[s]]

\* shift_cursors_right.
ShiftCursorsRight(cs, idx, len, by) ==
    [s \in DOMAIN cs |-> IF cs[s].idx # None /\ cs[s].idx >= idx
                         THEN Shifted(cs[s], len, by) ELSE cs[s]]

Longer(rs, i, len) == [rs EXCEPT ![i].len = @ + len]

\* apply_ins; the arms are (a) to (g) of the code.
ApplyIns(d, pos, len, cur) ==
    LET rs  == d.ranges
        i   == cur.idx
        beg == cur.internal
        end == beg + rs[i].len
        Result(newRanges, from, by, newCur, ok) ==
            [doc |-> [ranges   |-> newRanges,
                      cursors  |-> ShiftCursorsRight(d.cursors, from, len, by),
                      panicked |-> d.panicked \/ ~ok \/ pos < beg \/ pos > end],
             cur |-> newCur]
        split == <<RangeOf(FALSE, pos - beg), RangeOf(TRUE, len), RangeOf(FALSE, end - pos)>>
    IN  CASE rs = << >> ->
               [doc |-> [d EXCEPT !.ranges = <<RangeOf(TRUE, len)>>], cur |-> cur]
          [] rs # << >> /\ rs[i].live ->
               Result(Longer(rs, i, len), i + 1, 0, cur, TRUE)
          [] rs # << >> /\ ~rs[i].live /\ pos = beg /\ i > 1 ->
               Result(Longer(rs, i - 1, len), i, 0, Shifted(cur, len, 0), rs[i - 1].live)
          [] rs # << >> /\ ~rs[i].live /\ pos = beg /\ i = 1 ->
               Result(<<RangeOf(TRUE, len)>> \o rs, i, 1, Shifted(cur, len, 1), TRUE)
          [] rs # << >> /\ ~rs[i].live /\ pos = end /\ i < Len(rs) ->
               Result(Longer(rs, i + 1, len), i + 2, 0, cur, rs[i + 1].live)
          [] rs # << >> /\ ~rs[i].live /\ pos = end /\ i = Len(rs) ->
               Result(Append(rs, RangeOf(TRUE, len)), i + 1, 0, cur, TRUE)
          [] OTHER ->
               Result(SubSeq(rs, 1, i - 1) \o split \o SubSeq(rs, i + 1, Len(rs)),
                      i + 1, 2, Cursor(cur.editor, pos, i + 1), TRUE)

-----------------------------------------------------------------------------
(* Marks *)

Bug_NeverJoinRight(rs, i, live) == i

\* A mark that ends with range i also takes the next one if it has the
\* liveness of the mark already.
JoinedRight(rs, i, live) ==
    IF i < Len(rs) /\ rs[i + 1].live = live THEN i + 1 ELSE i

\* Internal positions of the bounds of the ranges, counted from a cursor:
\* range i is between bounds i and i + 1.
Bounds(rs, cur) == [i \in 1..(Len(rs) + 1) |-> BegOf(rs, cur, i, FALSE)]

\* The ranges lo..hi that a mark covers, partly covers or joins up with;
\* "last" is the one in which the mark ends.  The loop starts one range to
\* the left of the cursor when the mark begins in the cursor's range.
Affected(rs, at, cur, pos, end, live) ==
    LET first == IF at[cur.idx + 1] > pos /\ cur.idx > 1 THEN cur.idx - 1 ELSE cur.idx
        last  == Min({i \in first..Len(rs) : at[i + 1] >= end})
        Touched(i) == at[i + 1] > pos \/ (at[i + 1] = pos /\ rs[i].live = live)
    IN  [lo   |-> Min({i \in first..last : Touched(i)}),
         last |-> last,
         hi   |-> IF at[last + 1] = end THEN JoinedRight(rs, last, live) ELSE last]

\* What a mark changes of ranges lo..hi: the part of every range that does
\* not have the liveness of the mark yet.
Flipped(rs, at, lo, hi, pos, end, live) ==
    LET Part(i) == LET b == Max({at[i], pos}) IN Seg(b, Min({at[i + 1], end}) - b)
    IN  FoldLeft(LAMBDA parts, i :
                    IF rs[i].live # live /\ at[i] < end /\ at[i + 1] > pos
                    THEN Append(parts, Part(i)) ELSE parts,
                 << >>, [k \in 1..(hi - lo + 1) |-> lo + k - 1])

\* The affected ranges are replaced by one range of the new liveness, with
\* what is left of the first and the last before and after it.  Cursors of
\* the replaced ranges move to the cursor of the mark, which moves left with
\* the beginning of the new range.
Replace(d, at, cur, pos, end, live, lo, last, hi, flipped) ==
    LET rs     == d.ranges
        left   == rs[lo].live = live /\ at[lo] < pos
        before == IF rs[lo].live # live /\ at[lo] < pos
                  THEN <<RangeOf(~live, pos - at[lo])>> ELSE << >>
        after  == IF rs[last].live # live /\ at[last + 1] > end
                  THEN <<RangeOf(~live, at[last + 1] - end)>> ELSE << >>
        newBeg == IF left THEN at[lo] ELSE pos
        newEnd == IF rs[hi].live = live THEN Max({at[hi + 1], end}) ELSE end
        final  == before \o <<RangeOf(live, newEnd - newBeg)>> \o after
        delta  == FoldLeft(LAMBDA n, s : n + s.len, 0, flipped)
        newCur == IF left THEN MovedTo(rs, cur, lo) ELSE cur
        Other(c) == IF c.idx \in lo..hi THEN newCur
                    ELSE IF c.idx > hi
                    THEN Cursor(IF live THEN c.editor + delta ELSE c.editor - delta,
                                c.internal, c.idx + Len(final) - (hi - lo + 1))
                    ELSE c
        touch  == \E k \in 1..(Len(flipped) - 1) :
                     flipped[k].pos + flipped[k].len >= flipped[k + 1].pos
    IN  [doc |-> [ranges   |-> SubSeq(rs, 1, lo - 1) \o final \o SubSeq(rs, hi + 1, Len(rs)),
                  cursors  |-> [s \in DOMAIN d.cursors |-> Other(d.cursors[s])],
                  panicked |-> d.panicked \/ touch],
         cur |-> newCur, flipped |-> flipped]

\* The loop of apply_mark_dead and of apply_mark_live; it fails when the
\* cursor is behind pos or the ranges end before the mark.
ApplyMark(d, pos, len, cur, live) ==
    LET end == pos + len
        Done(at, a) == Replace(d, at, cur, pos, end, live, a.lo, a.last, a.hi,
                               Flipped(d.ranges, at, a.lo, a.last, pos, end, live))
        Try(at) == IF at[cur.idx] > pos \/ at[Len(at)] < end
                   THEN [doc |-> [d EXCEPT !.panicked = TRUE], cur |-> cur,
                         flipped |-> << >>]
                   ELSE Done(at, Affected(d.ranges, at, cur, pos, end, live))
    IN  Try(Bounds(d.ranges, cur))

ApplyMarkDead(d, pos, len, cur) == ApplyMark(d, pos, len, cur, FALSE)
ApplyMarkLive(d, pos, len, cur) == ApplyMark(d, pos, len, cur, TRUE)

\* An edit for the editor: a position and the internal positions of its text.
Edit(pos, from, len) == [pos |-> pos, text |-> [k \in 1..len |-> from + k - 1]]

Bug_FromRangeBeg(editorBeg, r, offset) == editorBeg

\* Where in the editor a change begins: dead text has no extent there.
EditorBeg(editorBeg, r, offset) == editorBeg + IF r.live THEN offset ELSE 0

\* mark_to_ins_or_del: what the mark changes, range by range.
MarkToInsOrDel(rs, seg, cur, live) ==
    LET end     == seg.pos + seg.len
        Beg(i)  == BegOf(rs, cur, i, FALSE)
        End(i)  == EndOf(rs, cur, i, FALSE)
        changed == SelectSeq([k \in 1..(Len(rs) - cur.idx + 1) |-> cur.idx + k - 1],
                      LAMBDA i : rs[i].live # live /\ Beg(i) < end /\ End(i) > seg.pos)
        Change(i, b) == Edit(EditorBeg(BegOf(rs, cur, i, TRUE), rs[i], b - Beg(i)),
                             b, Min({End(i), end}) - b)
    IN  [k \in DOMAIN changed |-> Change(changed[k], Max({Beg(changed[k]), seg.pos}))]

-----------------------------------------------------------------------------
(* Conversions *)

\* convert_internal_op_and_apply: all segments are converted on the
\* document as it was, then applied one after the other.
ConvertInternalOp(d, op) ==
    LET cur == d.cursors[op.site]
        ins == ConvertPos(d.ranges, op.pos, cur, FALSE)
        applied == ApplyIns(d, op.pos, Len(op.str), ins.cur)
        converted == FoldLeft(LAMBDA acc, seg :
            LET c == ConvertPos(d.ranges, seg.pos, acc.cur, FALSE).cur
            IN  [cur |-> c, edits |-> acc.edits \o MarkToInsOrDel(d.ranges, seg, c, op.live)],
            [cur |-> cur, edits |-> << >>], op.segs)
        marked == FoldLeft(LAMBDA acc, seg :
            LET c == ConvertPos(acc.doc.ranges, seg.pos, acc.cur, FALSE).cur
            IN  IF op.live THEN ApplyMarkLive(acc.doc, seg.pos, seg.len, c)
                           ELSE ApplyMarkDead(acc.doc, seg.pos, seg.len, c),
            [doc |-> d, cur |-> converted.cur], op.segs)
    IN  IF op.type = "Ins"
        THEN [doc |-> [applied.doc EXCEPT !.cursors[op.site] = applied.cur],
              live |-> TRUE, edits |-> <<[pos |-> ins.pos, text |-> op.str]>>]
        ELSE [doc |-> [marked.doc EXCEPT !.cursors[op.site] = marked.cur],
              live |-> op.live, edits |-> converted.edits]

\* convert_editor_op_and_apply, for an insertion and for a deletion.
ConvertEditorIns(d, pos, str, site) ==
    LET at      == ConvertPos(d.ranges, pos, d.cursors[site], TRUE)
        applied == ApplyIns(d, at.pos, Len(str), at.cur)
    IN  [doc |-> [applied.doc EXCEPT !.cursors[site] = applied.cur],
         op  |-> Ins(at.pos, str, site)]

Bug_DelByEditorLength(d, pos, len, site) ==
    LET at     == ConvertPos(d.ranges, pos, d.cursors[site], TRUE)
        marked == ApplyMarkDead(d, at.pos, len, at.cur)
    IN  [doc |-> [marked.doc EXCEPT !.cursors[site] = marked.cur],
         op  |-> Mark(marked.flipped, FALSE, site)]

ConvertEditorDel(d, pos, len, site) ==
    LET at     == ConvertPos(d.ranges, pos, d.cursors[site], TRUE)
        end    == ConvertPos(d.ranges, pos + len, at.cur, TRUE).pos
        marked == ApplyMarkDead(d, at.pos, end - at.pos, at.cur)
    IN  [doc |-> [marked.doc EXCEPT !.cursors[site] = marked.cur],
         op  |-> Mark(marked.flipped, FALSE, site)]

-----------------------------------------------------------------------------
(* Actions *)

InternalLen == Extents(ranges, FALSE)
EditorLen   == Extents(ranges, TRUE)

NewText(site, n) == [k \in 1..n |-> <<site, k>>]
Insertable == 1..Min({MaxStr, MaxLen - InternalLen})

\* Segments of a mark that arrives: in order, and apart from each other.
SegLists(len) ==
    LET lists == UNION {[1..n -> [pos : 0..(len - 1), len : 1..len]] : n \in 1..MaxSegs}
    IN  {s \in lists : \A k \in DOMAIN s :
            IF k = Len(s) THEN s[k].pos + s[k].len <= len
                          ELSE s[k].pos + s[k].len < s[k + 1].pos}

InternalOps(site) ==
    {Ins(p, NewText(site, n), site) : p \in 0..InternalLen, n \in Insertable}
      \cup {Mark(segs, live, site) : segs \in SegLists(InternalLen), live \in BOOLEAN}

Becomes(d) ==
    /\ ~panicked
    /\ ranges' = d.ranges /\ cursors' = d.cursors /\ panicked' = d.panicked

\* An op of the history is applied: a remote one, or an undo of our own.
ApplyInternalOp(site) ==
    \E op \in InternalOps(site) : Becomes(ConvertInternalOp(Doc, op).doc)

\* The editor inserts or deletes text.
ApplyEditorIns(site) ==
    \E p \in 0..EditorLen, n \in Insertable :
        Becomes(ConvertEditorIns(Doc, p, NewText(site, n), site).doc)

ApplyEditorDel(site) ==
    \E p \in 0..(EditorLen - 1) : \E n \in 1..(EditorLen - p) :
        Becomes(ConvertEditorDel(Doc, p, n, site).doc)

Next ==
    \/ \E s \in Sites : ApplyInternalOp(s)
    \/ \E s \in EditorSites : ApplyEditorIns(s) \/ ApplyEditorDel(s)

Spec == Init /\ [][Next]_vars
-----------------------------------------------------------------------------
(* Reference: the document as cells, and the editor's buffer *)

\* The cells the ranges stand for; a character is called by its position.
Cells(rs) ==
    LET liveness == FlattenSeq([i \in DOMAIN rs |-> [k \in 1..rs[i].len |-> rs[i].live]])
    IN  [q \in DOMAIN liveness |-> Cell(<<0, q - 1>>, liveness[q])]

Liveness(cells) == [q \in DOMAIN cells |-> cells[q].live]
Chars(cells) == [q \in DOMAIN cells |-> cells[q].ch]

\* apply_op of Doc and apply_edit_instruction of RemoteDoc: the edits of an
\* instruction are made on the buffer from the last to the first.
ApplyEdits(buffer, live, edits) ==
    FoldLeft(LAMBDA b, e :
                IF live
                THEN SubSeq(b, 1, e.pos) \o e.text \o SubSeq(b, e.pos + 1, Len(b))
                ELSE SubSeq(b, 1, e.pos) \o SubSeq(b, e.pos + Len(e.text) + 1, Len(b)),
             buffer, Reverse(edits))

Buffer(cells) == Chars(EditorText(cells))

-----------------------------------------------------------------------------
(* Properties *)

\* Positions, range indices and liveness have the shape the code assumes.
TypeOK ==
    /\ ranges \in Seq([live : BOOLEAN, len : 1..MaxLen])
    /\ cursors \in [Sites -> [editor : 0..MaxLen, internal : 0..MaxLen, idx : 0..Len(ranges)]]
    /\ panicked \in BOOLEAN

\* "The ranges are coalesced after every insertion and deletion, so there
\* should never be two consecutive ranges that has the same liveness";
\* apply_ins asserts it of the neighbours of a dead range.
Coalesced ==
    \A i \in 1..(Len(ranges) - 1) : ranges[i].live # ranges[i + 1].live

\* Every cached cursor is at the beginning of its range in both documents,
\* however the ops of all sites split, joined and shifted the ranges below
\* it.  (check_cursor_positions ends the process when it is not.)
CursorsExact ==
    \A s \in Sites : cursors[s].idx # None =>
        cursors[s] = Cursor(Start(ranges, cursors[s].idx, TRUE),
                            Start(ranges, cursors[s].idx, FALSE), cursors[s].idx)

\* No assertion of apply_ins, apply_mark_dead and apply_mark_live fails and
\* the range iterator stays within the ranges.
NoPanic == ~panicked

\* What an op of the history does to the ranges is what it does to the
\* cells, and the instruction computed for the editor, from the cursor of
\* the op's site, changes the editor's buffer to the new live text.
InternalOpShown ==
    \A s \in Sites : \A op \in InternalOps(s) :
        LET result == ConvertInternalOp(Doc, op)
            before == Cells(ranges)
            after  == ApplyOp(before, op)
            Text(e) == [e EXCEPT !.text = IF op.type = "Ins" THEN @
                                          ELSE [k \in DOMAIN @ |-> <<0, @[k]>>]]
        IN  /\ Liveness(Cells(result.doc.ranges)) = Liveness(after)
            /\ ApplyEdits(Buffer(before), result.live,
                          [k \in DOMAIN result.edits |-> Text(result.edits[k])])
                 = Buffer(after)

\* The op made of an edit does to the cells what it did to the ranges, and
\* gives every other copy the text the editor shows: the deletion covers
\* exactly what the editor deleted, the insertion is where it was typed.
EditorOpMeant ==
    LET before == Cells(ranges)
        Meant(result, live, pos, text) ==
            LET after == ApplyOp(before, result.op)
            IN  /\ Liveness(Cells(result.doc.ranges)) = Liveness(after)
                /\ ApplyEdits(Buffer(before), live, <<[pos |-> pos, text |-> text]>>)
                     = Buffer(after)
    IN  \A s \in EditorSites :
          /\ \A p \in 0..EditorLen, n \in Insertable :
               Meant(ConvertEditorIns(Doc, p, NewText(s, n), s), TRUE, p, NewText(s, n))
          /\ \A p \in 0..(EditorLen - 1) : \A n \in 1..(EditorLen - p) :
               Meant(ConvertEditorDel(Doc, p, n, s), FALSE, p, NewText(s, n))
=============================================================================
