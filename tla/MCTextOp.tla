------------------------------ MODULE MCTextOp ------------------------------
(***************************************************************************)
(* The transformation functions over all pairs of concurrent ops of two    *)
(* sites on a small document with tombstones.                              *)
(***************************************************************************)
EXTENDS TextOp, FiniteSets

CONSTANTS
    DocLen,   \* characters of the document the ops are made on
    MaxStr,   \* longest insertion
    MaxSegs,  \* most segments of a mark
    Sites     \* sites that make ops; numbers, because sites are compared

\* Sites are compared and lengths counted.
ASSUME TextOpAssumption == Sites \subseteq Int /\ DocLen \in Nat

VARIABLES
    op1, op2,   \* two concurrent ops
    before      \* the document they were made on

\* Marks made on a document: disjoint segments in ascending order that do
\* not touch (flipped ranges of apply_mark_dead).
SegLists == {s \in UNION {[1..n -> [pos : 0..(DocLen - 1), len : 1..DocLen]] :
                            n \in 1..MaxSegs} :
               /\ \A i \in DOMAIN s : s[i].pos + s[i].len <= DocLen
               /\ \A i \in 1..(Len(s) - 1) : s[i].pos + s[i].len < s[i + 1].pos}

OpsOf(site) ==
    {Ins(p, [k \in 1..n |-> <<site, k>>], site) : p \in 0..DocLen, n \in 1..MaxStr}
      \cup {Mark(s, live, site) : s \in SegLists, live \in BOOLEAN}

Docs == {[i \in 1..DocLen |-> Cell(<<0, i>>, f[i])] : f \in [1..DocLen -> BOOLEAN]}

Pairs == {p \in Sites \X Sites : p[1] # p[2]}

pairVars == <<op1, op2, before>>

PairInit ==
    /\ before \in Docs
    /\ \E p \in Pairs : op1 \in OpsOf(p[1]) /\ op2 \in OpsOf(p[2])

\* The other order of the two ops.
OtherOrder == op1' = op2 /\ op2' = op1 /\ UNCHANGED before

PairSpec == PairInit /\ [][OtherOrder]_pairVars

Opposite ==
    /\ op1.type = "Mark" /\ op2.type = "Mark" /\ op1.live # op2.live
    /\ Positions(op1) \cap Positions(op2) # {}

\* TP1: two concurrent ops give the same document in either order, the
\* tombstones included, unless one makes live what the other makes dead.
TP1 == ~Opposite =>
    ApplyOps(before, <<op1, Transform(op2, op1)>>)
      = ApplyOps(before, <<op2, Transform(op1, op2)>>)

\* IP3: the inverse of an op, transformed past a concurrent op, is the
\* inverse of the transformed op; undo relies on it when it transforms the
\* inverse of an old op past everything after it.
IP3 == Transform(Inverted(op1), Transform(op2, op1)) = Inverted(Transform(op1, op2))

\* A transformed mark covers the characters the mark covered and no other,
\* as disjoint, non-empty segments in ascending order: transform_di does
\* not lose the tail of a split segment or take in the inserted text.
MarkFollowsText ==
    (op1.type = "Mark" /\ op2.type = "Ins") =>
        LET t     == Transform(op1, op2)
            after == ApplyOp(before, op2)
        IN  /\ {after[q + 1].ch : q \in Positions(t)}
                 = {before[q + 1].ch : q \in Positions(op1)}
            /\ \A i \in DOMAIN t.segs : t.segs[i].len > 0
            /\ \A i \in 1..(Len(t.segs) - 1) :
                 t.segs[i].pos + t.segs[i].len <= t.segs[i + 1].pos
=============================================================================
