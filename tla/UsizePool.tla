------------------------------- MODULE UsizePool -------------------------------
(***************************************************************************)
(* The number pool of src/src/tools/handler_pool.rs, from which file       *)
(* descriptors, pids and event ids are drawn: recycled numbers last in,    *)
(* first out, then fresh ones.                                             *)
(***************************************************************************)
EXTENDS Naturals, Sequences

\* UsizePool::new.
NewPool(start) == [next |-> start, recycled |-> <<>>]

\* UsizePool::get: the number, and the pool it leaves.
Got(pool) ==
    IF pool.recycled = <<>> THEN pool.next ELSE pool.recycled[Len(pool.recycled)]

AfterGet(pool) ==
    IF pool.recycled = <<>>
    THEN [pool EXCEPT !.next = @ + 1]
    ELSE [pool EXCEPT !.recycled = SubSeq(@, 1, Len(@) - 1)]

IsRecycled(pool, n) == \E i \in 1..Len(pool.recycled) : pool.recycled[i] = n

\* UsizePool::release; its debug_assert is the caller's ~IsRecycled(pool, n).
AfterRelease(pool, n) == [pool EXCEPT !.recycled = Append(@, n)]
===============================================================================
