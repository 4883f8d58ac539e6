-------------------------------- MODULE FdTable --------------------------------
(***************************************************************************)
(* The file descriptor table of a process (src/src/process/lproc.rs,       *)
(* FdTable) with the system calls that change it: openat, pipe, dup, dup3, *)
(* fcntl(F_DUPFD_CLOEXEC), close, prlimit(NOFILE) and exit.  Threads that  *)
(* share the table call under its lock, so that each call is one step.     *)
(* What a descriptor refers to is left out.                                *)
(***************************************************************************)
EXTENDS UsizePool, FiniteSets, Functions

CONSTANTS
    MaxFd,         \* bound: the largest descriptor handed out
    MaxOpenFiles,  \* MAX_OPEN_FILES, also the first limit
    Limits,        \* the values prlimit sets
    LowerBounds    \* the arguments of F_DUPFD_CLOEXEC

ASSUME FdBounds ==
    /\ MaxFd \in Nat /\ MaxFd >= 3
    /\ MaxOpenFiles \in Nat /\ Limits \subseteq Nat
    /\ LowerBounds \subseteq Nat

VARIABLES
    pool,       \* FdTable::pool
    table,      \* the keys of FdTable::table
    limit,      \* FdTable::limit
    allocated,  \* the descriptors the last call took from the pool
    named,      \* history: descriptors dup3 opened without asking the pool
    panicked    \* a debug_assert of UsizePool::release has failed

fdVars == <<pool, table, limit, allocated, named, panicked>>

Fds == 0..MaxFd

\* FdTable::new_with_std.
FdInit ==
    /\ pool = NewPool(3)
    /\ table = {0, 1, 2}
    /\ limit = MaxOpenFiles
    /\ allocated = {}
    /\ named = {}
    /\ panicked = FALSE

\* The check compares one too late.
HasRoomLate == Cardinality(table) <= limit

\* check_whether_alloc_will_exceeded_limit.
HasRoom == Cardinality(table) < limit

\* The first recycled number, or else a fresh one, that is at least lower: the
\* loop of dup(GreaterThan) draws from the pool and gives back what it skipped.
Suitable(lower) == {i \in 1..Len(pool.recycled) : pool.recycled[i] >= lower}
LastOf(I) == CHOOSE i \in I : \A j \in I : j <= i

GotAtLeast(lower) ==
    IF Suitable(lower) # {} THEN pool.recycled[LastOf(Suitable(lower))]
    ELSE IF pool.next >= lower THEN pool.next ELSE lower

\* The skipped numbers are not given back.
AfterGetAtLeastLoses(lower) ==
    [next |-> IF Suitable(lower) = {} THEN GotAtLeast(lower) + 1 ELSE pool.next,
     recycled |-> <<>>]

AfterGetAtLeast(lower) ==
    LET r == pool.recycled
        i == IF Suitable(lower) = {} THEN 0 ELSE LastOf(Suitable(lower))
        fd == GotAtLeast(lower)
        skipped == [k \in 1..(Len(r) - i) |-> r[Len(r) - k + 1]]
    IN IF i > 0
       THEN [pool EXCEPT !.recycled = SubSeq(r, 1, i - 1) \o skipped]
       ELSE [next |-> fd + 1,
             recycled |-> skipped \o [k \in 1..(fd - pool.next) |-> pool.next + k - 1]]

\* The table takes fds from the pool, which becomes p.
Take(fds, p) ==
    /\ ~panicked /\ fds \subseteq Fds
    /\ table' = table \cup fds
    /\ pool' = p
    /\ allocated' = fds
    /\ UNCHANGED <<limit, named, panicked>>

\* sys_openat, when the path is good: its own check, then FdTable::alloc.
Open ==
    /\ Cardinality(table) < MaxOpenFiles /\ HasRoom
    /\ Take({Got(pool)}, AfterGet(pool))

\* sys_pipe: two calls of alloc; when only the second one fails, the read end
\* stays in the table.
MakePipe ==
    /\ HasRoom
    /\ IF Cardinality(table \cup {Got(pool)}) < limit
       THEN Take({Got(pool), Got(AfterGet(pool))}, AfterGet(AfterGet(pool)))
       ELSE Take({Got(pool)}, AfterGet(pool))

\* sys_dup: dup(None).
Dup(old) ==
    /\ old \in table /\ Cardinality(table) < MaxOpenFiles /\ HasRoom
    /\ Take({Got(pool)}, AfterGet(pool))

\* sys_fcntl with F_DUPFD_CLOEXEC: dup(GreaterThan(lower)).  Where dup3 and
\* close put a number into the pool that the pool had not reached, it can skip
\* the number twice, and the second release panics before the insert.
DupAtLeast(old, lower) ==
    /\ ~panicked /\ old \in table /\ HasRoom
    /\ IF IsInjective(AfterGetAtLeast(lower).recycled)
       THEN Take({GotAtLeast(lower)}, AfterGetAtLeast(lower))
       ELSE panicked' = TRUE /\ allocated' = {} /\ UNCHANGED <<pool, table, limit, named>>

\* sys_dup3: dup(Exactly(new)), which leaves the pool alone.
Dup3(old, new) ==
    /\ ~panicked /\ old \in table
    /\ \/ new \in table
       \/ Cardinality(table) < MaxOpenFiles /\ HasRoom
    /\ table' = table \cup {new}
    /\ named' = named \cup ({new} \ table)
    /\ allocated' = {}
    /\ UNCHANGED <<pool, limit, panicked>>

\* The number is given back at every close, also by a call that fails.
CloseAny(fd) ==
    /\ ~panicked
    /\ table' = table \ {fd}
    /\ pool' = AfterRelease(pool, fd)
    /\ panicked' = FALSE
    /\ allocated' = {}
    /\ UNCHANGED <<limit, named>>

\* sys_close: FdTable::remove.
Close(fd) ==
    /\ ~panicked /\ fd \in table
    /\ table' = table \ {fd}
    /\ pool' = AfterRelease(pool, fd)
    /\ panicked' = IsRecycled(pool, fd)
    /\ allocated' = {}
    /\ UNCHANGED <<limit, named>>

\* The keys of a BTreeMap in their order: each comes after those below it.
Rank(S, n) == Cardinality({m \in S : m < n})
InKeyOrder(S) == [k \in 1..Cardinality(S) |-> CHOOSE n \in S : Rank(S, n) = k - 1]

\* do_exit: FdTable::release_all, in the order of the keys.
ReleaseAll ==
    /\ ~panicked /\ table # {}
    /\ table' = {}
    /\ pool' = [pool EXCEPT !.recycled = @ \o InKeyOrder(table)]
    /\ panicked' = \E fd \in table : IsRecycled(pool, fd)
    /\ allocated' = {}
    /\ UNCHANGED <<limit, named>>

\* sys_prlimit(NOFILE): FdTable::set_limit.
SetLimit(n) ==
    /\ ~panicked
    /\ limit' = n
    /\ allocated' = {}
    /\ UNCHANGED <<pool, table, named, panicked>>

FdNext ==
    \/ Open \/ MakePipe \/ ReleaseAll
    \/ \E fd \in Fds : Dup(fd) \/ Close(fd)
    \/ \E fd \in Fds, lower \in LowerBounds : DupAtLeast(fd, lower)
    \/ \E old, new \in Fds : Dup3(old, new)
    \/ \E n \in Limits : SetLimit(n)

FdSpec == FdInit /\ [][FdNext]_fdVars

-------------------------------------------------------------------------------
\* alloc and dup insert at the number they draw: it is never that of an open
\* file, which the insert would silently replace, unless dup3 had opened that
\* file behind the pool's back (lproc.rs 674-675 and 704-707).
NeverReplacesOpenFile == [][allocated' \cap table \subseteq named]_fdVars

\* Every number below pool.next that dup3 has not named is open or in the pool
\* exactly once, although dup(GreaterThan) empties the pool in search of a large
\* number and puts the rest back: no descriptor gets lost (lproc.rs 691-703).
NoDescriptorLost ==
    \A n \in (0..(pool.next - 1)) \ named :
        \/ n \in table /\ ~IsRecycled(pool, n)
        \/ n \notin table /\ Cardinality({i \in 1..Len(pool.recycled) : pool.recycled[i] = n}) = 1

\* No call that opens descriptors goes beyond the limit in force, whatever mix
\* of calls filled the table and however prlimit moved the limit (lproc.rs 663-688).
LimitHonoured ==
    [][Cardinality(table') > Cardinality(table) => Cardinality(table') <= limit]_fdVars
===============================================================================
