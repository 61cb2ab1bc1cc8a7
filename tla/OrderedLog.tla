----------------------------- MODULE OrderedLog -----------------------------
(***************************************************************************)
(* What a shared document promises, whatever the network does: there is    *)
(* one log of ops; an op enters it once, at the end; a host that joins     *)
(* reads a stretch of the log without holes from the place it joined at,   *)
(* until it leaves.                                                         *)
(***************************************************************************)
EXTENDS Integers, Sequences

CONSTANT Readers, Entry

VARIABLES
    log,     \* the ops in the order the owner gave them
    joined,  \* hosts that have the document open
    from,    \* place in the log at which each host joined
    seen     \* what each host has read since

vars == <<log, joined, from, seen>>

Init ==
    /\ log = << >>
    /\ joined = [r \in Readers |-> FALSE]
    /\ from = [r \in Readers |-> 0]
    /\ seen = [r \in Readers |-> << >>]

\* Ops enter at the end of the log; none of them is in it already.
Commit ==
    /\ log # log'
    /\ SubSeq(log', 1, Len(log)) = log
    /\ \A i \in (Len(log) + 1)..Len(log') :
         /\ log'[i] \in Entry
         /\ \A j \in 1..(i - 1) : log'[j] # log'[i]
    /\ UNCHANGED <<joined, from, seen>>

\* The copy of the log a host has from place p on when it has read n entries.
Stretch(p, n) == SubSeq(log, p + 1, p + n)

Join(r) ==
    /\ ~joined[r]
    /\ joined' = [joined EXCEPT ![r] = TRUE]
    /\ \E p \in 0..Len(log) : from' = [from EXCEPT ![r] = p]
    /\ UNCHANGED <<log, seen>>

Read(r) ==
    /\ joined[r]
    /\ \E n \in Len(seen[r])..(Len(log) - from[r]) :
         seen' = [seen EXCEPT ![r] = Stretch(from[r], n)]
    /\ UNCHANGED <<log, joined, from>>

Leave(r) ==
    /\ joined[r]
    /\ joined' = [joined EXCEPT ![r] = FALSE]
    /\ from' = [from EXCEPT ![r] = 0]
    /\ seen' = [seen EXCEPT ![r] = << >>]
    /\ UNCHANGED log

Next ==
    \/ Commit
    \/ \E r \in Readers : Join(r) \/ Read(r) \/ Leave(r)

Spec == Init /\ [][Next]_vars
=============================================================================
