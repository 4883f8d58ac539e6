------------------------------- MODULE UserMemory -------------------------------
(***************************************************************************)
(* User memory: frames and their reference counts (src/src/memory/frame.rs, *)
(* frame_ref_cnt.rs), page tables (pagetable.rs), areas, page faults with  *)
(* copy on write (process/user_space), and the calls that change them:     *)
(* clone, execve, exit, brk, mmap, munmap, mprotect, shmget, shmat, shmdt, *)
(* shmctl (syscall/memory.rs).  Each runs under the lock of the address    *)
(* space and is one step.  A process is one thread with one address space; *)
(* what it does in user mode is a store to a page, and what a system call  *)
(* does through a pointer of the user (memory/user_ptr.rs) is to make the  *)
(* pages of the argument accessible, one by one, and then to load or store. *)
(*                                                                         *)
(* Frames of the page tables themselves, the stack and the program image   *)
(* are left out.  A shared segment has one page.  The address space of an  *)
(* ended process is never dropped, because its thread group keeps the      *)
(* LightProcess alive.                                                     *)
(***************************************************************************)
EXTENDS UserAreas, FiniteSets

CONSTANTS
    Procs,     \* the processes
    First,     \* the one that runs at the start
    Frames,    \* physical frames for user pages
    NoFrame,   \* an invalid page table entry
    Segs,      \* the shared segments
    Maps,      \* what mmap is asked for: <<size, "anon" or "file", writable>>
    MaxCalls,  \* bound: how many calls change mappings or segments
    HeapBeg, HeapEnd, MmapBeg, MmapEnd, ShareBeg, ShareEnd   \* the user segments

ASSUME Layout ==
    /\ {HeapBeg, HeapEnd, MmapBeg, MmapEnd, ShareBeg, ShareEnd} \subseteq Nat
    /\ HeapBeg < HeapEnd /\ HeapEnd <= MmapBeg /\ MmapBeg <= MmapEnd
    /\ MmapEnd <= ShareBeg /\ ShareBeg <= ShareEnd
ASSUME Names ==
    /\ First \in Procs /\ NoFrame \notin Frames
    /\ IsFiniteSet(Procs) /\ IsFiniteSet(Segs)
    /\ Segs \cap {"anon", "file", "none"} = {}
ASSUME MapCalls == \A m \in Maps : m[1] \in Nat \ {0} /\ m[2] \in {"anon", "file"}

VARIABLES
    areas,      \* per process: UserAreaManager::map
    pte,        \* per process: the leaf entries of its page table
    rc,         \* the reference count of each frame
    allocated,  \* the frames the bitmap allocator has handed out
    mem,        \* what is in each frame
    life,       \* "none", "run" or "dead"
    segFrame,   \* Shm::frames of each segment, NoFrame while it does not exist
    tables,     \* per process: the segments in its ShmTable
    keyed,      \* the segments in the global ShmManager
    panic,      \* the panic or failed assertion that stopped the kernel, or
                \* "count lost", where the counts are wrong and the model ends
    calls       \* the calls so far that change mappings or segments

space == <<areas, pte>>
phys == <<rc, allocated, mem>>
shm == <<segFrame, tables, keyed>>
vars == <<space, phys, life, shm, panic, calls>>

Pages == HeapBeg..(ShareEnd - 1)
InShare(v) == ShareBeg <= v /\ v < ShareEnd

Entry(f, w, s) == [frame |-> f, w |-> w, shared |-> s]
Invalid == Entry(NoFrame, FALSE, FALSE)
Valid(e) == e.frame # NoFrame

Zero == <<"zero", 0>>
Junk == <<"junk", 0>>

Heap == Node(HeapBeg, HeapBeg + 1, "anon", TRUE, 0)

Init ==
    /\ areas = [p \in Procs |-> IF p = First THEN {Heap} ELSE {}]
    /\ pte = [p \in Procs |-> [v \in Pages |-> Invalid]]
    /\ rc = [f \in Frames |-> 0]
    /\ allocated = {}
    /\ mem = [f \in Frames |-> Junk]
    /\ life = [p \in Procs |-> IF p = First THEN "run" ELSE "none"]
    /\ segFrame = [s \in Segs |-> NoFrame]
    /\ tables = [p \in Procs |-> {}]
    /\ keyed = {}
    /\ panic = "no"
    /\ calls = 0

Runs(p) == panic = "no" /\ life[p] = "run"

Panic(what) ==
    /\ panic' = what
    /\ UNCHANGED <<space, phys, life, shm>>

Kill(p) ==
    /\ life' = [life EXCEPT ![p] = "dead"]
    /\ UNCHANGED <<space, allocated, mem, shm, panic>>

\* The page fault of p cannot be handled: the process is killed if it trapped in
\* user mode; a system call returns EFAULT, which changes nothing: not a step.
FaultFails(p, kernel) == ~kernel /\ Kill(p) /\ UNCHANGED rc

-------------------------------------------------------------------------------
(* Frames. *)

\* How often a page table refers to f from the pages of S.
RefsFrom(table, S, f) == Cardinality({v \in S : table[v].frame = f})

\* release_range over the pages of S of p, decrease_and_try_dealloc for each:
\* the counts it leaves.
CountsAfter(p, S) == [f \in Frames |-> rc[f] - RefsFrom(pte[p], S, f)]

\* The counts drop but a frame that nobody uses is not given back.
DeallocUnusedNever(counts) ==
    /\ rc' = counts
    /\ UNCHANGED <<allocated, mem>>

\* Frames whose count drops to 0 go back to the allocator, filled with junk.
DeallocUnused(counts) ==
    /\ rc' = counts
    /\ allocated' = {f \in allocated : counts[f] > 0}
    /\ mem' = [f \in Frames |-> IF f \in allocated /\ counts[f] = 0 THEN Junk ELSE mem[f]]

\* alloc_frame, with what the caller puts into the frame; counts is rc before.
AllocFrame(f, counts, content) ==
    /\ f \notin allocated
    /\ allocated' = allocated \cup {f}
    /\ rc' = [counts EXCEPT ![f] = @ + 1]
    /\ mem' = [mem EXCEPT ![f] = content]

-------------------------------------------------------------------------------
(* Page faults. *)

SetEntry(p, v, e) == pte' = [pte EXCEPT ![p][v] = e]

\* A fault on a page with no entry: lazy allocation or lazy load.
FaultIn(p, v, n, kernel) ==
    \/ \E f \in Frames :
        /\ AllocFrame(f, rc, IF n.kind = "file" THEN <<"file", n.off + (v - n.start)>> ELSE Zero)
        /\ SetEntry(p, v, Entry(f, n.w, FALSE))
        /\ UNCHANGED <<areas, life, shm, panic>>
    \/ /\ allocated = Frames
       /\ IF n.kind = "file" THEN Panic("read file failed") ELSE FaultFails(p, kernel)

\* The new frame is not filled.
CopyOnWriteEmpty(p, v, n, kernel) ==
    LET f == pte[p][v].frame
    IN \/ /\ rc[f] <= 1
          /\ SetEntry(p, v, Entry(f, n.w, FALSE))
          /\ UNCHANGED <<areas, phys, life, shm, panic>>
       \/ /\ rc[f] > 1
          /\ \E g \in Frames :
              /\ AllocFrame(g, [rc EXCEPT ![f] = @ - 1], Junk)
              /\ SetEntry(p, v, Entry(g, n.w, FALSE))
              /\ UNCHANGED <<areas, life, shm, panic>>

\* The old frame keeps its count.
CopyOnWriteKeepsCount(p, v, n, kernel) ==
    LET f == pte[p][v].frame
    IN \/ /\ rc[f] <= 1
          /\ SetEntry(p, v, Entry(f, n.w, FALSE))
          /\ UNCHANGED <<areas, phys, life, shm, panic>>
       \/ /\ rc[f] > 1
          /\ \E g \in Frames :
              /\ AllocFrame(g, rc, mem[f])
              /\ SetEntry(p, v, Entry(g, n.w, FALSE))
              /\ UNCHANGED <<areas, life, shm, panic>>

\* A fault on an entry that is not writable in a writable area.  The count of
\* a shared frame is decreased before the new frame is asked for.  Without one,
\* a process that goes on maps a frame that no longer counts it.
CopyOnWrite(p, v, n, kernel) ==
    LET f == pte[p][v].frame
        counts == [rc EXCEPT ![f] = @ - 1]
    IN \/ /\ rc[f] <= 1
          /\ SetEntry(p, v, Entry(f, n.w, FALSE))
          /\ UNCHANGED <<areas, phys, life, shm, panic>>
       \/ /\ rc[f] > 1
          /\ \E g \in Frames :
              /\ AllocFrame(g, counts, mem[f])
              /\ SetEntry(p, v, Entry(g, n.w, FALSE))
              /\ UNCHANGED <<areas, life, shm, panic>>
       \/ /\ rc[f] > 1 /\ allocated = Frames
          /\ rc' = counts
          /\ IF kernel THEN panic' = "count lost" /\ UNCHANGED <<space, allocated, mem, life, shm>>
             ELSE Kill(p)

\* The MMU faults on a read without an entry and on a write without W.
Traps(e, write) == IF write THEN ~e.w ELSE ~Valid(e)

CanAccess(n, write) == write => n.w

\* handle_pagefault: it fails where the area does not allow the access.
HandlePagefault(p, v, write, kernel) ==
    LET e == pte[p][v] IN
    \/ /\ \A n \in Get(areas[p], v) : ~CanAccess(n, write)
       /\ FaultFails(p, kernel)
    \/ \E n \in Get(areas[p], v) :
       /\ CanAccess(n, write)
       /\ \/ ~Valid(e) /\ n.kind \notin Segs /\ FaultIn(p, v, n, kernel)
          \/ ~Valid(e) /\ n.kind \in Segs /\ Panic("shm page fault")
          \/ Valid(e) /\ e.shared /\ CopyOnWrite(p, v, n, kernel)
          \/ Valid(e) /\ ~e.shared /\ Panic("must be CoW")

\* A trap from user mode.
PageFault(p, v, write) ==
    /\ Runs(p) /\ Traps(pte[p][v], write)
    /\ HandlePagefault(p, v, write, FALSE)

\* ensure_user_area on one page of an argument: the page is probed, and the fault
\* of the probe handled.  A page that does not fault is left as it is.
EnsureUserArea(p, v, write) ==
    /\ Runs(p) /\ Traps(pte[p][v], write)
    /\ HandlePagefault(p, v, write, TRUE)

\* UserPtr::read and read_array: all that changes is what ensure_user_area does.
KernelRead(p, v) == EnsureUserArea(p, v, FALSE)

\* UserPtr::write and write_array up to the store itself, which is Store.
KernelWrite(p, v) == EnsureUserArea(p, v, TRUE)

\* A store through a writable entry, in user mode or through a UserPtr.
Store(p, v) ==
    /\ Runs(p) /\ Valid(pte[p][v]) /\ pte[p][v].w
    /\ mem' = [mem EXCEPT ![pte[p][v].frame] = <<p, 0>>]
    /\ UNCHANGED <<space, rc, allocated, life, shm, panic>>

-------------------------------------------------------------------------------
(* Shared segments are reference counted (Arc<Shm>): by the tables, by the *)
(* areas and by the manager.                                               *)

Held(s, as, ts) ==
    s \in keyed \/ \E q \in Procs : s \in ts[q] \/ \E n \in as[q] : n.kind = s

\* The segments that lose their last reference.
Orphans(as, ts) == {s \in Segs : segFrame[s] # NoFrame /\ ~Held(s, as, ts)}

OrphanFrame(f, as, ts) == \E s \in Orphans(as, ts) : segFrame[s] = f

\* Shm::drop: decrease_and_must_dealloc panics unless the count is 1.
MustDeallocFails(counts, as, ts) ==
    \E f \in Frames : OrphanFrame(f, as, ts) /\ counts[f] # 1

\* Pages of p are released and then areas or table entries dropped.
ReleaseAndDrop(p, S, as, ts) ==
    LET counts == CountsAfter(p, S) IN
    IF MustDeallocFails(counts, as, ts) THEN Panic("must_dealloc")
    ELSE /\ DeallocUnused([f \in Frames |-> counts[f] - IF OrphanFrame(f, as, ts) THEN 1 ELSE 0])
         /\ areas' = as
         /\ pte' = [pte EXCEPT ![p] = [v \in Pages |-> IF v \in S THEN Invalid ELSE pte[p][v]]]
         /\ tables' = ts
         /\ segFrame' = [s \in Segs |-> IF s \in Orphans(as, ts) THEN NoFrame ELSE segFrame[s]]
         /\ UNCHANGED <<keyed, life, panic>>

-------------------------------------------------------------------------------
(* Processes. *)

\* The entries stay writable.
CowEntryWritable(e, v) == IF Valid(e) THEN [e EXCEPT !.shared = TRUE] ELSE e

\* The shared segment is copied on write as well.
CowEntryAll(e, v) == IF Valid(e) THEN Entry(e.frame, FALSE, TRUE) ELSE e

\* copy_table_and_mark_self_cow on one entry.
CowEntry(e, v) == IF Valid(e) /\ ~InShare(v) THEN Entry(e.frame, FALSE, TRUE) ELSE e

\* do_clone without CLONE_VM: clone_cow; the child's ShmTable is empty.
Fork(p, q) ==
    /\ Runs(p) /\ life[q] = "none"
    /\ life' = [life EXCEPT ![q] = "run"]
    /\ areas' = [areas EXCEPT ![q] = areas[p]]
    /\ pte' = [r \in Procs |-> IF r \in {p, q} THEN [v \in Pages |-> CowEntry(pte[p][v], v)]
                               ELSE pte[r]]
    /\ rc' = [f \in Frames |-> rc[f] + RefsFrom(pte[p], Pages, f)]
    /\ UNCHANGED <<allocated, mem, shm, panic>>

AreaPages(p) == {v \in Pages : \E n \in areas[p] : Covers(n, v)}

\* do_exec: the old UserSpace is dropped, which releases the pages of its areas,
\* and a PageTable that still has user pages panics; then a new heap.
Exec(p) ==
    /\ Runs(p)
    /\ IF \E v \in Pages \ AreaPages(p) : Valid(pte[p][v])
       THEN Panic("Pagetable page should not be valid")
       ELSE ReleaseAndDrop(p, AreaPages(p), [areas EXCEPT ![p] = {Heap}], tables)

\* exit, or death by a signal: nothing of the memory is released.
Exit(p) == Runs(p) /\ Kill(p) /\ UNCHANGED rc

-------------------------------------------------------------------------------
(* System calls. *)

\* reset_heap_break; the pages beyond a smaller break stay mapped.
ResetHeapBreak(p, b) ==
    \/ Get(areas[p], HeapBeg) = {} /\ Panic("brk without heap")
    \/ \E n \in Get(areas[p], HeapBeg) :
       /\ \/ CanExtend(areas[p], n, b) /\ areas' = [areas EXCEPT ![p] = ExtendBack(@, n, b)]
          \/ CanReduce(n, b) /\ areas' = [areas EXCEPT ![p] = ReduceBack(@, n, b)]
       /\ UNCHANGED <<pte, phys, life, shm, panic>>

Brk(p, b) == Runs(p) /\ ResetHeapBreak(p, b)

\* find_free_mmap_area and find_free_share_area.
FindFreeArea(p, kind, size) ==
    IF kind \in Segs THEN FreeStart(areas[p], ShareBeg, ShareEnd, size)
    ELSE FreeStart(areas[p], MmapBeg, MmapEnd, size)

InsertAt(p, a, size, kind, w) ==
    /\ CanInsert(areas[p], a, a + size)
    /\ areas' = [areas EXCEPT ![p] = @ \cup {Node(a, a + size, kind, w, 0)}]

\* insert_mmap_anonymous and insert_mmap_private.
InsertMmap(p, size, kind, w) ==
    \E a \in FindFreeArea(p, kind, size) : InsertAt(p, a, size, kind, w)

\* sys_mmap, which places every mapping itself.
Mmap(p, size, kind, w) ==
    /\ Runs(p)
    /\ InsertMmap(p, size, kind, w)
    /\ UNCHANGED <<pte, phys, life, shm, panic>>

\* A length of 0 fails debug_assert!(start < end) of try_insert, in mmap and,
\* at a mapped address, in mprotect.
EmptyRange(p) == Runs(p) /\ Panic("start < end")

UnmapRange(p, a, b) ==
    ReleaseAndDrop(p, Released(areas[p], a, b), [areas EXCEPT ![p] = Remove(@, a, b)], tables)

Munmap(p, a, b) == Runs(p) /\ UnmapRange(p, a, b)

\* new_with_same_kind: what backs n, and its offset, for a range [a, b).
WithSameKind(n, a, b, w) == Node(a, b, n.kind, w, n.off)

\* remap_range: the new area takes the place of all of [a, b) and has the
\* backing of the old area that holds a.  No page table entry changes.
RemapRange(M, n, a, b, w) == Remove(M, a, b) \cup {WithSameKind(n, a, b, w)}

\* sys_mprotect: set_perm for the whole of an area, else remap_range.
Mprotect(p, a, b, w) ==
    /\ Runs(p)
    /\ \E n \in Get(areas[p], a) :
        LET new == IF a = n.start /\ b = n.end THEN (areas[p] \ {n}) \cup {WithSameKind(n, a, b, w)}
                   ELSE RemapRange(areas[p], n, a, b, w)
        IN ReleaseAndDrop(p, {}, [areas EXCEPT ![p] = new], tables)

\* ShmManager::create, Shm::alloc.
CreateShm(s, private) ==
    /\ \E f \in Frames :
        /\ AllocFrame(f, rc, Junk)
        /\ segFrame' = [segFrame EXCEPT ![s] = f]
    /\ keyed' = IF private THEN keyed ELSE keyed \cup {s}

\* sys_shmget: the segment of a key, or a new one, which may be private.
Shmget(p, s, private) ==
    /\ Runs(p)
    /\ \/ segFrame[s] = NoFrame /\ CreateShm(s, private)
       \/ /\ s \in keyed /\ s \notin tables[p] /\ ~private
          /\ UNCHANGED <<phys, segFrame, keyed>>
    /\ tables' = [tables EXCEPT ![p] = @ \cup {s}]
    /\ UNCHANGED <<space, life, panic>>

\* attach_shm: the area is inserted at a and its page mapped.
AttachShm(p, s, a, w) ==
    IF Valid(pte[p][a]) /\ CanInsert(areas[p], a, a + 1) THEN Panic("Remapping a valid page table entry")
    ELSE /\ InsertAt(p, a, 1, s, w)
         /\ rc' = [rc EXCEPT ![segFrame[s]] = @ + 1]
         /\ SetEntry(p, a, Entry(segFrame[s], w, FALSE))
         /\ UNCHANGED <<allocated, mem, life, shm, panic>>

\* sys_shmat at a place of the kernel's choice, and at the caller's address.
Shmat(p, s, w) ==
    /\ Runs(p) /\ s \in tables[p]
    /\ \E a \in FindFreeArea(p, s, 1) : AttachShm(p, s, a, w)

ShmatAt(p, s, a, w) ==
    /\ Runs(p) /\ s \in tables[p]
    /\ IF InShare(a) THEN AttachShm(p, s, a, w) ELSE Panic("shm must be in share range")

\* sys_shmdt: the area at v, of whatever kind, is removed, which may drop the
\* segment, and only then are its pages unmapped.
Shmdt(p, v) ==
    /\ Runs(p)
    /\ \E n \in Get(areas[p], v) :
        LET as == [areas EXCEPT ![p] = @ \ {n}]
            S == n.start..(n.end - 1)
        IN IF MustDeallocFails(rc, as, tables) THEN Panic("must_dealloc")
           ELSE IF \E u \in S : ~Valid(pte[p][u]) THEN Panic("Unmapping a invalid page table entry")
           ELSE ReleaseAndDrop(p, S, as, tables)

\* sys_shmctl(IPC_RMID): the entry of the own table is removed.
Shmrm(p, s) ==
    /\ Runs(p) /\ s \in tables[p]
    /\ ReleaseAndDrop(p, {}, areas, [tables EXCEPT ![p] = @ \ {s}])

-------------------------------------------------------------------------------
Ranges(lo, hi) == {r \in (lo..hi) \X (lo..hi) : r[1] < r[2]}

Call(p) ==
    /\ calls < MaxCalls
    /\ calls' = calls + 1
    /\ \/ \E b \in HeapBeg..HeapEnd : Brk(p, b)
       \/ \E m \in Maps : Mmap(p, m[1], m[2], m[3])
       \/ \E r \in Ranges(HeapBeg, ShareEnd) : Munmap(p, r[1], r[2])
       \/ \E r \in Ranges(MmapBeg, MmapEnd), w \in BOOLEAN : Mprotect(p, r[1], r[2], w)
       \/ \E s \in Segs, private \in BOOLEAN : Shmget(p, s, private)
       \/ EmptyRange(p)
       \/ \E s \in Segs, w \in BOOLEAN : Shmat(p, s, w) \/ \E a \in Pages : ShmatAt(p, s, a, w)
       \/ \E v \in Pages : Shmdt(p, v)
       \/ \E s \in Segs : Shmrm(p, s)

Step(p) ==
    /\ \/ \E v \in Pages, write \in BOOLEAN : PageFault(p, v, write)
       \/ \E v \in Pages : KernelRead(p, v) \/ KernelWrite(p, v)
       \/ \E v \in Pages : Store(p, v)
       \/ \E q \in Procs : Fork(p, q)
       \/ Exec(p)
       \/ Exit(p)
    /\ UNCHANGED calls

Next == \E p \in Procs : Call(p) \/ Step(p)

Spec == Init /\ [][Next]_vars

-------------------------------------------------------------------------------
(* Properties. *)

Running == {p \in Procs : life[p] = "run"}

\* A panic concerns no variable but panic, so the properties below also say
\* what the state is when the kernel stops.

\* The entries of the processes in P that refer to f.
RefsOf(P, f) == {x \in P \X Pages : pte[x[1]][x[2]].frame = f}

SegsOn(f) == {s \in Segs : segFrame[s] = f}

\* No use after free: every frame that a running process maps or a segment owns
\* is counted once for each of them, and the allocator holds exactly the frames
\* whose count is 0 (frame_ref_cnt.rs, with every path that maps, copies,
\* unmaps or shares a page, and the fault that runs out of memory half way; but
\* not after such a fault of a system call, which the process survives).
CountCoversRefs ==
    /\ panic # "count lost" => \A f \in Frames : Cardinality(RefsOf(Running, f)) + Cardinality(SegsOn(f)) <= rc[f]
    /\ allocated = {f \in Frames : rc[f] > 0}

\* No frame is lost while its owners run: a count is never higher than the
\* entries, those of ended processes included, and segments that refer to it.
NoFrameLost ==
    \A f \in Frames : rc[f] <= Cardinality(RefsOf(Procs, f)) + Cardinality(SegsOn(f))

\* Copy on write is exclusive: a page outside the shared segment that a running
\* process may write is mapped nowhere else (pagetable.rs 260-275 and
\* user_area.rs 264-291).
CowExclusive ==
    \A p \in Running, v \in Pages :
        LET e == pte[p][v] IN
        e.w /\ ~InShare(v) =>
            RefsOf(Running, e.frame) = {<<p, v>>} /\ SegsOn(e.frame) = {}

\* Areas are not empty and never overlap ("保证区间不重合", range_map.rs:13),
\* whatever mmap, munmap, mprotect, brk, shmat and shmdt did before.
AreasWellFormed == \A p \in Procs : WellFormed(areas[p])

\* An attached segment is what its processes see: the page of an area of a
\* segment is mapped, to the frame the segment owns (attach_shm, clone_cow and
\* every call that drops the last Arc<Shm>).
AttachedShowsSegment ==
    \A p \in Procs : \A n \in areas[p] :
        n.kind \in Segs => Valid(pte[p][n.start]) /\ pte[p][n.start].frame = segFrame[n.kind]

\* What backs page v, and what a process reads there.
Backing(p, v) ==
    LET S == {n \in areas[p] : Covers(n, v)} IN
    IF S = {} THEN <<"none", 0>>
    ELSE LET n == CHOOSE m \in S : TRUE
         IN <<n.kind, IF n.kind = "file" THEN n.off + (v - n.start) ELSE 0>>

Reads(p, v) ==
    IF Valid(pte[p][v]) THEN mem[pte[p][v].frame]
    ELSE LET b == Backing(p, v) IN IF b[1] = "anon" THEN Zero ELSE b

Abstract == INSTANCE AddressSpaces WITH
    alive <- Running,
    view <- [p \in Procs |-> [v \in Pages |-> Reads(p, v)]],
    map <- [p \in Procs |-> [v \in Pages |-> Backing(p, v)]],
    FreshView <- [v \in Pages |-> IF v = HeapBeg THEN Zero ELSE <<"none", 0>>],
    FreshMap <- [v \in Pages |-> IF v = HeapBeg THEN <<"anon", 0>> ELSE <<"none", 0>>]

\* The address spaces behave as AddressSpaces says: a store shows where it was
\* made and through shared segments only, a page fault never changes what any
\* process reads, fork copies, exec starts afresh.
IsolatedMemory == Abstract!Spec
===============================================================================
