------------------------------- MODULE UserAreas -------------------------------
(***************************************************************************)
(* The map of a user address space: src/src/process/user_space/range_map.rs *)
(* with the areas of user_area.rs as its values.  Addresses are page       *)
(* numbers.  A map is a set of nodes; the BTreeMap orders them by start.   *)
(***************************************************************************)
EXTENDS Integers

\* An area [start, end): what it is backed by, whether it may be written, and
\* for a file mapping the page of the file at start.
Node(start, end, kind, w, off) ==
    [start |-> start, end |-> end, kind |-> kind, w |-> w, off |-> off]

Covers(n, v) == n.start <= v /\ v < n.end

\* range(..x).next_back(): the node with the largest start below x.
Before(M, x) == {n \in M : n.start < x /\ \A o \in M : o.start < x => o.start <= n.start}

\* RangeMap::get, as a set of at most one node.
Get(M, v) == {n \in Before(M, v + 1) : v < n.end}

\* RangeMap::try_insert succeeds.
CanInsert(M, a, b) == a < b /\ \A n \in Before(M, b) : n.end <= a

\* RangeMap::range_is_free.
IsFree(M, a, b) ==
    /\ a < b
    /\ \A n \in Before(M, a) : n.end <= a
    /\ ~\E n \in M : a <= n.start /\ n.start < b

\* extend_back and reduce_back of node n to the end b, and when they succeed.
CanExtend(M, n, b) == n.end < b /\ IsFree(M, n.end, b)
ExtendBack(M, n, b) == (M \ {n}) \cup {Node(n.start, b, n.kind, n.w, n.off)}
CanReduce(n, b) == n.start <= b /\ b < n.end
ReduceBack(M, n, b) ==
    (M \ {n}) \cup (IF b = n.start THEN {} ELSE {Node(n.start, b, n.kind, n.w, n.off)})

\* split_and_make_left and split_and_make_right with the ranges they get.
LeftPart(n, at) == Node(n.start, at, n.kind, n.w, n.off)
RightPart(n, at) ==
    Node(at, n.end, n.kind, n.w, IF n.kind = "file" THEN n.off + (at - n.start) ELSE n.off)

\* RangeMap::remove: first the node that begins before a, then the one that
\* ends after b, then the nodes that begin in between.
CutLeft(M, a, b) ==
    LET hit == {n \in Before(M, a) : a < n.end}
    IN (M \ hit) \cup {LeftPart(n, a) : n \in hit}
                 \cup {RightPart(n, b) : n \in {h \in hit : b < h.end}}

CutRight(M, b) ==
    LET hit == {n \in Before(M, b) : b < n.end}
    IN (M \ hit) \cup {RightPart(n, b) : n \in hit}

\* The areas that lie inside the range stay.
RemoveEdges(M, a, b) == IF a >= b THEN M ELSE CutRight(CutLeft(M, a, b), b)

Remove(M, a, b) ==
    IF a >= b THEN M
    ELSE LET M2 == CutRight(CutLeft(M, a, b), b)
         IN {n \in M2 : ~(a <= n.start /\ n.start < b)}

\* The pages remove() hands to release().
Released(M, a, b) == {v \in a..(b - 1) : \E n \in M : Covers(n, v)}

\* find_free_range, as a set of at most one place: behind the last node that
\* begins in the region or before it.  The loop never stops at a gap, because
\* it compares the end of a node with the start of the same node.
FreeStart(M, lo, hi, size) ==
    {s \in {lo} \cup {n.end : n \in M} :
        /\ s >= lo /\ s + size <= hi
        /\ \A n \in M : n.start < hi => n.end <= s
        /\ s = lo \/ \E n \in M : n.start < hi /\ n.end = s}

\* "保证区间不重合 否则panic / 禁止区间长度为0" (range_map.rs 13 and 15): the
\* areas of a map are not empty and do not overlap.
WellFormed(M) ==
    /\ \A n \in M : n.start < n.end
    /\ \A n, o \in M : n # o => n.end <= o.start \/ o.end <= n.start
===============================================================================
