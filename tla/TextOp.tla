------------------------------- MODULE TextOp -------------------------------
(***************************************************************************)
(* Ops on a document with tombstones, their transformation and inverse     *)
(* (op.rs), and what they do to the internal document (engine.rs).         *)
(*                                                                         *)
(* A document is the sequence of all characters ever inserted, each with   *)
(* its liveness; the editor sees the live ones.  A character is a value    *)
(* that no other character equals, so texts that read the same by accident *)
(* are told apart.  The text a mark carries is left out but for its        *)
(* length: it only serves to show the change in the editor.                *)
(***************************************************************************)
EXTENDS Integers, Sequences, SequencesExt

\* Op::Ins and Op::Mark; positions are internal and count from 0.
Ins(pos, str, site) == [type |-> "Ins", pos |-> pos, str |-> str, site |-> site]
Mark(segs, live, site) ==
    [type |-> "Mark", segs |-> segs, live |-> live, site |-> site]
Seg(pos, len) == [pos |-> pos, len |-> len]

Bug_TieBothMove(pos1, pos2, site1, site2) == pos1 < pos2

\* pos_less_than: ties are broken by the site.
PosLessThan(pos1, pos2, site1, site2) ==
    pos1 < pos2 \/ (pos1 = pos2 /\ site1 < site2)

\* transform_ii.
TransformII(op, base) ==
    IF PosLessThan(op.pos, base.pos, op.site, base.site)
    THEN op
    ELSE [op EXCEPT !.pos = @ + Len(base.str)]

\* transform_di for one segment of a mark: it stays, moves, or is split
\* around the insertion, empty parts left out.
SplitPart(pos, len) == IF len > 0 THEN <<Seg(pos, len)>> ELSE << >>

Bug_TailAtInsertion(seg, site, base) ==
    LET mid == base.pos - seg.pos
    IN  IF PosLessThan(seg.pos + seg.len, base.pos, site, base.site)
        THEN <<seg>>
        ELSE IF PosLessThan(base.pos, seg.pos, base.site, site)
        THEN <<Seg(seg.pos + Len(base.str), seg.len)>>
        ELSE SplitPart(seg.pos, mid) \o SplitPart(base.pos, seg.len - mid)

TransformDI(seg, site, base) ==
    LET mid == base.pos - seg.pos
    IN  IF PosLessThan(seg.pos + seg.len, base.pos, site, base.site)
        THEN <<seg>>
        ELSE IF PosLessThan(base.pos, seg.pos, base.site, site)
        THEN <<Seg(seg.pos + Len(base.str), seg.len)>>
        ELSE SplitPart(seg.pos, mid) \o SplitPart(base.pos + Len(base.str), seg.len - mid)

\* Operation::transform: only insertions move anything.
Transform(op, base) ==
    CASE base.type = "Mark" -> op
      [] base.type = "Ins" /\ op.type = "Ins" -> TransformII(op, base)
      [] base.type = "Ins" /\ op.type = "Mark" ->
           [op EXCEPT !.segs = FlattenSeq(
               [i \in DOMAIN op.segs |-> TransformDI(op.segs[i], op.site, base)])]

\* Operation::inverse.
Inverted(op) ==
    IF op.type = "Ins"
    THEN Mark(<<Seg(op.pos, Len(op.str))>>, FALSE, op.site)
    ELSE [op EXCEPT !.live = ~@]

\* batch_transform.
BatchTransform(op, bases) == FoldLeft(Transform, op, bases)

\* symmetric_transform of one op with a sequence of ops: element i is
\* transformed against the op after it passed the elements before i.
SymmetricTransform(op, ops) ==
    [op  |-> BatchTransform(op, ops),
     ops |-> [i \in DOMAIN ops |->
                Transform(ops[i], BatchTransform(op, SubSeq(ops, 1, i - 1)))]]

\* quatradic_transform, its second result: every op of ops2 is transformed
\* against ops1, which is carried along each op passed.
QuatradicTransform(ops1, ops2) ==
    FoldLeft(LAMBDA acc, op2 :
                LET t == SymmetricTransform(op2, acc.ops1)
                IN  [ops1 |-> t.ops, ops2 |-> Append(acc.ops2, t.op)],
             [ops1 |-> ops1, ops2 |-> << >>], ops2).ops2

-----------------------------------------------------------------------------
(* The internal document *)

Cell(ch, live) == [ch |-> ch, live |-> live]

\* Internal positions a mark covers.
Positions(op) == UNION {op.segs[i].pos .. (op.segs[i].pos + op.segs[i].len - 1) :
                          i \in DOMAIN op.segs}

\* convert_internal_op_and_apply, apply_ins, apply_mark_dead and
\* apply_mark_live: an insertion is live; a mark sets the liveness of what
\* it covers, whatever it was.
ApplyOp(doc, op) ==
    IF op.type = "Ins"
    THEN SubSeq(doc, 1, op.pos)
           \o [k \in DOMAIN op.str |-> Cell(op.str[k], TRUE)]
           \o SubSeq(doc, op.pos + 1, Len(doc))
    ELSE [i \in DOMAIN doc |->
            IF i - 1 \in Positions(op) THEN [doc[i] EXCEPT !.live = op.live]
                                       ELSE doc[i]]

ApplyOps(doc, ops) == FoldLeft(ApplyOp, doc, ops)

\* What the editor shows.
EditorText(doc) == SelectSeq(doc, LAMBDA cell : cell.live)
=============================================================================
