---------------------------- MODULE BoundedChannel ----------------------------
(***************************************************************************)
(* What the pipes of src/src/fs/npipe.rs promise their ends: the bytes     *)
(* written to a pipe come out once each and in order, at most Capacity of  *)
(* them are under way, and nothing is written after an end is closed.      *)
(* The bytes of a pipe are numbered in the order in which they are written. *)
(***************************************************************************)
EXTENDS Naturals, Sequences

CONSTANTS Pipes, Capacity

VARIABLES
    sent,       \* how many bytes were written to each pipe
    received,   \* the bytes read from it so far
    closed      \* one of its ends is gone

chanVars == <<sent, received, closed>>

InFlight(p) == sent[p] - Len(received[p])

Init ==
    /\ sent = [p \in Pipes |-> 0]
    /\ received = [p \in Pipes |-> <<>>]
    /\ closed = [p \in Pipes |-> FALSE]

Send(p, k) ==
    /\ ~closed[p] /\ InFlight(p) + k <= Capacity
    /\ sent' = [sent EXCEPT ![p] = @ + k]
    /\ UNCHANGED <<received, closed>>

Receive(p, k) ==
    /\ k <= InFlight(p)
    /\ received' = [received EXCEPT ![p] = @ \o [i \in 1..k |-> Len(@) + i]]
    /\ UNCHANGED <<sent, closed>>

Close(p) ==
    /\ closed' = [closed EXCEPT ![p] = TRUE]
    /\ UNCHANGED <<sent, received>>

Next == \E p \in Pipes : Close(p) \/ \E k \in 1..Capacity : Send(p, k) \/ Receive(p, k)
Spec == Init /\ [][Next]_chanVars
===============================================================================
