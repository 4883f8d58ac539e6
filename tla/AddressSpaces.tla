----------------------------- MODULE AddressSpaces -----------------------------
(***************************************************************************)
(* What the memory of user processes promises: a store changes one page of *)
(* the process that makes it, and pages of others only where both are      *)
(* attached to the same shared segment; fork gives the child a copy; a     *)
(* change of its mappings concerns the pages it names and no other process; *)
(* exec starts afresh.  Demand paging and copy on write do not show.       *)
(***************************************************************************)
CONSTANTS Procs, Pages, Segs,
          FreshView, FreshMap   \* what exec leaves

VARIABLES
    alive,   \* the processes whose memory can be read
    view,    \* what a process reads from each page
    map      \* what backs each page: nothing, memory, a page of a file, a segment

spaceVars == <<alive, view, map>>

Init ==
    /\ \E p \in Procs : alive = {p}
    /\ \A p \in alive : view[p] = FreshView /\ map[p] = FreshMap

Shared(q, u, p, v) == map[p][v][1] \in Segs /\ map[q][u] = map[p][v]

OthersKeep(p) == \A q \in alive \ {p} : view'[q] = view[q] /\ map'[q] = map[q]

Store(p, v) ==
    /\ p \in alive /\ UNCHANGED alive
    /\ view'[p][v] = <<p, 0>>
    /\ \A q \in alive : map'[q] = map[q]
    /\ \A q \in alive, u \in Pages :
        IF Shared(q, u, p, v) THEN view'[q][u] = <<p, 0>>
        ELSE (q = p /\ u = v) \/ view'[q][u] = view[q][u]

Fork(p, q) ==
    /\ p \in alive /\ q \notin alive
    /\ alive' = alive \cup {q}
    /\ OthersKeep(q)
    /\ view'[q] = view[p] /\ map'[q] = map[p]

\* mmap, munmap, brk, mprotect, shmat, shmdt.
Remap(p) ==
    /\ p \in alive /\ UNCHANGED alive
    /\ OthersKeep(p)
    /\ \A v \in Pages : view'[p][v] = view[p][v] \/ map'[p][v] # map[p][v]

Exec(p) ==
    /\ p \in alive /\ UNCHANGED alive
    /\ view'[p] = FreshView /\ map'[p] = FreshMap
    /\ OthersKeep(p)

End(p) ==
    /\ alive' = alive \ {p}
    /\ OthersKeep(p)

Next == \E p \in Procs :
    \/ Remap(p) \/ Exec(p) \/ End(p)
    \/ \E v \in Pages : Store(p, v)
    \/ \E q \in Procs : Fork(p, q)

Spec == Init /\ [][Next]_spaceVars
===============================================================================
