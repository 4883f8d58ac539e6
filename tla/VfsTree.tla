------------------------------ MODULE VfsTree ------------------------------
(* The directory tree a process sees: PathCacheDir over a concrete file     *)
(* system, TmpDir mounted in it, and the system calls that walk and change  *)
(* it (syscall/fs.rs, sys_openat).                                          *)
(*                                                                          *)
(* A VfsFileRef is a node: an Arc<dyn VfsFile> held by a directory's map or *)
(* by a file descriptor and dropped with its last holder. Several nodes can *)
(* stand for one file of the disk (an inode here, FATFile in the code). The *)
(* concrete file system is its contract, the trait ConcreteFile; FatDir and *)
(* FatFile model the one the kernel has. Block I/O never pends, so a system *)
(* call runs from its first lookup to its last drop in one poll.            *)
EXTENDS VfsPath, FiniteSets

CONSTANTS
    Names,     \* component names; numbers, so that a BTreeMap's order is <
    Mnt,       \* where tmpfs is mounted in the root
    Paths,     \* the strings calls are made with
    Fds,       \* file descriptors
    Image,     \* entries of the concrete directories at boot, by inode
    Kinds,     \* kind of every inode at boot
    MaxNodes,  \* nodes alive at one time
    MaxCalls   \* system calls made

ASSUME TreeBounds == Names \subseteq Nat \ {Skip} /\ Mnt \in Names /\ MaxCalls \in Nat

VARIABLES
    vfs,     \* node, dirs and kind, see Init
    fd,      \* fd -> node and dents_progress
    cwd,     \* FsInfo::cwd of the process, a path and not a handle
    dents,   \* fd -> what the current pass over the directory returned
    spoilt,  \* "twin" and "dup" once they have occurred
    died,    \* "no", "panic" or "hang"
    calls

vars == <<vfs, fd, cwd, dents, spoilt, died, calls>>

Inodes == DOMAIN Kinds
Nodes == 1 .. MaxNodes
Root == 1
NoNames == [n \in Names |-> 0]

\* A node: t its kind, ino its inode or 0 in memory, del is_deleted, all is_all.
Node(t, i) == [t |-> t, ino |-> i, del |-> FALSE, all |-> FALSE, map |-> NoNames]
NoNode == Node("none", 0)

IsDir(s, o) == s.node[o].t = "dir"
OnDisk(s, o) == s.node[o].ino # 0
Fresh(s) == CHOOSE o \in Nodes : s.node[o] = NoNode /\ \A p \in 1 .. o - 1 : s.node[p] # NoNode

\* Results of an operation: the state it leaves, its value and its SysError.
Done(s, o) == [s |-> s, o |-> o, e |-> "ok"]
Fail(s, e) == [s |-> s, o |-> 0, e |-> e]
Then(r, Op(_, _)) == IF r.e = "ok" THEN Op(r.s, r.o) ELSE r

-----------------------------------------------------------------------------
(* The concrete file system.                                                *)

ConcreteLookup(s, i, n) ==
    LET hit == SelectSeq(s.dirs[i], LAMBDA e : e.name = n)
    IN  IF hit = <<>> THEN 0 ELSE hit[1].ino
ConcreteDetach(s, i, j) == [s EXCEPT !.dirs[i] = SelectSeq(@, LAMBDA e : e.ino # j)]
ConcreteAttach(s, i, j, n) == [s EXCEPT !.dirs[i] = Append(@, [name |-> n, ino |-> j])]
ConcreteCreate(s, i, n, k) ==
    LET j == CHOOSE j \in Inodes : s.kind[j] = "free" /\ \A h \in 1 .. j - 1 : s.kind[h] # "free"
    IN  Done(ConcreteAttach([s EXCEPT !.kind[j] = k], i, j, n), j)

-----------------------------------------------------------------------------
(* PathCacheDir and TmpDir. A memory directory is a map and nothing else.   *)

\* pack_concrete_file: a new node for inode i.
Pack(s, i) == Done([s EXCEPT !.node[Fresh(s)] = Node(s.kind[i], i)], Fresh(s))
Put(s, d, n, o) == Done([s EXCEPT !.node[d].map[n] = o], o)

Cached(s, d, n) == IF n = Skip THEN 0 ELSE s.node[d].map[n]
Listing(s, d) == SetToSortSeq({n \in Names : Cached(s, d, n) # 0}, <)

CacheLookup(s, d, n) ==
    IF Cached(s, d, n) # 0 THEN Done(s, Cached(s, d, n))
    ELSE LET i == IF s.node[d].all THEN 0 ELSE ConcreteLookup(s, s.node[d].ino, n)
         IN  IF i = 0 THEN Fail(s, "ENOENT")
             ELSE Then(Pack(s, i), LAMBDA t, o : Put(t, d, n, o))

\* list: every entry of the disk gets a new node, whatever the map held.
CacheList(s, d) ==
    IF s.node[d].all THEN Done(s, d)
    ELSE LET Add(t, e) == Then(Pack(t, e.ino), LAMBDA u, o : Put(u, d, e.name, o)).s
             full == FoldLeft(Add, s, s.dirs[s.node[d].ino])
         IN  Done([full EXCEPT !.node[d].all = TRUE], d)

\* Only the map is asked whether the name exists.
CacheCreate(s, d, n, k) ==
    IF Cached(s, d, n) # 0 THEN Fail(s, "EEXIST")
    ELSE Then(ConcreteCreate(s, s.node[d].ino, n, k),
              LAMBDA t, i : Then(Pack(t, i), LAMBDA u, o : Put(u, d, n, o)))

\* Variant: the entry stays in the concrete directory.
CacheDetachMapOnly(s, d, n) ==
    IF Cached(s, d, n) # 0 THEN Done(Put(s, d, n, 0).s, Cached(s, d, n)) ELSE Fail(s, "ENOENT")

CacheDetach(s, d, n) ==
    LET Unlink(t, o) ==
            Done(IF OnDisk(t, o) THEN ConcreteDetach(t, t.node[d].ino, t.node[o].ino) ELSE t, o)
        i == ConcreteLookup(s, s.node[d].ino, n)
    IN  IF Cached(s, d, n) # 0 THEN Unlink(Put(s, d, n, 0).s, Cached(s, d, n))
        ELSE IF s.node[d].all \/ i = 0 THEN Fail(s, "ENOENT")
        ELSE Then(Pack(s, i), Unlink)

\* remove: detach, and mark_deleted what belongs to the same file system.
CacheRemove(s, d, n) ==
    Then(CacheDetach(s, d, n), LAMBDA t, o : Done([t EXCEPT !.node[o].del = OnDisk(t, o)], o))

\* The two SyncAttrFile locks are taken, of one file twice if a directory is
\* attached to itself.
CacheAttach(s, d, n, o) ==
    IF Cached(s, d, n) # 0 THEN Fail(s, "EEXIST")
    ELSE IF ~ OnDisk(s, o) THEN Put(s, d, n, o)
    ELSE IF o = d THEN Fail(s, "hang")
    ELSE Put(ConcreteAttach(s, s.node[d].ino, s.node[o].ino, n), d, n, o)

TmpLookup(s, d, n) ==
    IF Cached(s, d, n) = 0 THEN Fail(s, "ENOENT") ELSE Done(s, Cached(s, d, n))
TmpCreate(s, d, n, k) ==
    IF Cached(s, d, n) # 0 THEN Fail(s, "EEXIST")
    ELSE Put([s EXCEPT !.node[Fresh(s)] = Node(k, 0)], d, n, Fresh(s))
TmpDetach(s, d, n) == Then(TmpLookup(s, d, n), LAMBDA t, o : Done(Put(t, d, n, 0).s, o))

\* The name is taken over before EEXIST is returned.
TmpAttach(s, d, n, o) ==
    LET t == Put(s, d, n, o).s IN IF Cached(s, d, n) # 0 THEN Fail(t, "EEXIST") ELSE Done(t, o)

\* A call on a VfsFileRef: of a file that is no directory, unimplemented!().
Calls(s, d, cache, tmp) ==
    IF ~ IsDir(s, d) THEN Fail(s, "panic") ELSE IF OnDisk(s, d) THEN cache ELSE tmp

Lookup(s, d, n) == Calls(s, d, CacheLookup(s, d, n), TmpLookup(s, d, n))
List(s, d) == Calls(s, d, CacheList(s, d), Done(s, d))
Create(s, d, n, k) == Calls(s, d, CacheCreate(s, d, n, k), TmpCreate(s, d, n, k))
Detach(s, d, n) == Calls(s, d, CacheDetach(s, d, n), TmpDetach(s, d, n))
RemoveName(s, d, n) == Calls(s, d, CacheRemove(s, d, n), TmpDetach(s, d, n))
Attach(s, d, n, o) == Calls(s, d, CacheAttach(s, d, n, o), TmpAttach(s, d, n, o))

-----------------------------------------------------------------------------
(* Dropping handles.                                                        *)

Held(f) == {f[x].node : x \in Fds} \ {0}
Below(s, os) == os \cup ({s.node[o].map[n] : o \in os, n \in Names} \ {0})

\* Nodes some holder keeps alive: the root's, an fd's, or a live directory's.
Alive(s, f) ==
    LET R[k \in Nat] == IF k = 0 THEN {Root} \cup Held(f) ELSE Below(s, R[k - 1])
    IN  R[MaxNodes]

\* SyncAttrFile::drop, for every node whose last holder is gone.
DropAll(s, dead) ==
    LET freed == {s.node[o].ino : o \in {o \in dead : s.node[o].del}}
    IN  [node |-> [o \in Nodes |-> IF o \in dead THEN NoNode ELSE s.node[o]],
         dirs |-> [i \in Inodes |-> IF i \in freed THEN <<>> ELSE s.dirs[i]],
         kind |-> [i \in Inodes |-> IF i \in freed THEN "freed" ELSE s.kind[i]]]

\* Variant: the clusters are freed with the name, not with the last handle.
SettleAtOnce(s, f) ==
    LET t == DropAll(s, Nodes \ Alive(s, f))
        freed == {t.node[o].ino : o \in {o \in Nodes : t.node[o].del}}
    IN  [t EXCEPT !.kind = [i \in Inodes |-> IF i \in freed THEN "freed" ELSE @[i]]]

Settle(s, f) == DropAll(s, Nodes \ Alive(s, f))

-----------------------------------------------------------------------------
Twin(s) ==
    LET disk == {o \in Nodes : OnDisk(s, o)}
    IN  Cardinality({s.node[o].ino : o \in disk}) # Cardinality(disk)
Dup(s) == \E i \in Inodes : \E j, k \in DOMAIN s.dirs[i] :
              j # k /\ s.dirs[i][j].name = s.dirs[i][k].name

Init ==
    /\ vfs = [node |-> [o \in Nodes |->
                  CASE o = Root -> [Node("dir", 1) EXCEPT !.map[Mnt] = 2]
                    [] o = 2 -> Node("dir", 0)
                    [] OTHER -> NoNode],
              dirs |-> Image, kind |-> Kinds]
    /\ fd = [f \in Fds |-> [node |-> 0, at |-> 0]]
    /\ cwd = Normal(TRUE, <<>>)
    /\ dents = [f \in Fds |-> [got |-> <<>>, list |-> <<>>, same |-> TRUE, end |-> FALSE]]
    /\ spoilt = {}
    /\ died = "no"
    /\ calls = 0

\* A system call ends with r: its handles are dropped, a panic stops the kernel.
Return(r, f) ==
    /\ died = "no" /\ calls < MaxCalls
    /\ calls' = calls + 1
    /\ fd' = f
    /\ died' = IF r.e \in {"panic", "hang"} THEN r.e ELSE "no"
    /\ vfs' = Settle(r.s, f)
    /\ spoilt' = spoilt \cup (IF Twin(r.s) THEN {"twin"} ELSE {})
                        \cup (IF Dup(r.s) THEN {"dup"} ELSE {})

\* What a call is given: AT_FDCWD (0) or a descriptor's file, and a string.
Places == [dir : {0}, raw : Paths]
          \cup [dir : Held(fd), raw : {Raw(FALSE, <<n>>) : n \in Names}]

Resolve(s, d, p) == FoldLeft(
    LAMBDA r, n : Then(r, LAMBDA t, o : Lookup(t, o, n)), Done(s, d), p.comps)

\* The directory and the name that a string stands for.
NameOf(at) == FileName(FromString(at.raw))
AtHelper(s, at) ==
    LET p == FromString(at.raw)
        base == IF p.abs THEN Done(s, Root)
                ELSE IF at.dir = 0 THEN Resolve(s, Root, cwd) ELSE Done(s, at.dir)
    IN  Then(base, LAMBDA t, d : Resolve(t, d, RemoveTail(p)))

LookupHelper(s, d, n) == IF n = Skip THEN Done(s, d) ELSE Lookup(s, d, n)
LookupAt(s, at) == Then(AtHelper(s, at), LAMBDA t, d : LookupHelper(t, d, NameOf(at)))

Openat(at, creat) ==
    LET d == AtHelper(vfs, at)
        l == LookupAt(vfs, at)
        r == IF d.e = "ok" /\ l.e = "ENOENT" /\ creat
             THEN Create(l.s, d.o, NameOf(at), "file") ELSE l
    IN  \E f \in Fds :
            /\ fd[f].node = 0 /\ \A g \in Fds : g < f => fd[g].node # 0
            /\ Return(r, IF r.e = "ok" THEN [fd EXCEPT ![f] = [node |-> r.o, at |-> 0]] ELSE fd)
            /\ UNCHANGED <<cwd, dents>>

Close(f) ==
    /\ fd[f].node # 0
    /\ Return(Done(vfs, 0), [fd EXCEPT ![f] = [node |-> 0, at |-> 0]])
    /\ dents' = [dents EXCEPT ![f] = [got |-> <<>>, list |-> <<>>, same |-> TRUE, end |-> FALSE]]
    /\ UNCHANGED cwd

\* A path is taken from the root, even a relative one, and kept as it is.
Chdir(raw) ==
    LET p == FromString(raw)
        r == Then(Resolve(vfs, Root, p), LAMBDA t, o :
                 IF IsDir(t, o) THEN Done(t, o) ELSE Fail(t, "ENOTDIR"))
    IN  Return(r, fd) /\ cwd' = (IF r.e = "ok" THEN p ELSE cwd) /\ UNCHANGED dents

\* Path::last() panics for the root and for "."; the file is an ELF file, and
\* reading a directory is unimplemented!().
Execve(raw) ==
    LET q == FromString(raw)
        p == IF q.abs THEN q ELSE AppendPath(cwd, q)
        r == IF IsCurrent(p) THEN Fail(vfs, "panic")
             ELSE Then(Resolve(vfs, Root, p), LAMBDA t, o :
                      IF IsDir(t, o) THEN Fail(t, "panic") ELSE Done(t, o))
    IN  Return(r, fd) /\ UNCHANGED <<cwd, dents>>

\* fstatat and faccessat change the caches only; the second one looks "" up.
Faccessat(at) ==
    /\ Return(Then(AtHelper(vfs, at), LAMBDA t, d : Lookup(t, d, NameOf(at))), fd)
    /\ UNCHANGED <<cwd, dents>>

Fstatat(at) == Return(LookupAt(vfs, at), fd) /\ UNCHANGED <<cwd, dents>>

\* utimensat: update_time is todo!() except in TmpFile.
Utimensat(at) ==
    LET d == AtHelper(vfs, at)
        r == IF d.e = "ok" /\ ~ IsDir(d.s, d.o) THEN Fail(d.s, "ENOTDIR") ELSE LookupAt(vfs, at)
        Update(s, o) ==
            IF s.node[o].t = "file" /\ ~ OnDisk(s, o) THEN Done(s, o) ELSE Fail(s, "panic")
    IN  Return(Then(r, Update), fd) /\ UNCHANGED <<cwd, dents>>

\* Not of the root or ".", for which FAT32 is given an entry without a name.
Mkdir(at) ==
    /\ NameOf(at) # Skip
    /\ Return(Then(AtHelper(vfs, at), LAMBDA t, d : Create(t, d, NameOf(at), "dir")), fd)
    /\ UNCHANGED <<cwd, dents>>

Unlinkat(at, removedir) ==
    LET d == AtHelper(vfs, at)
        r == Then(Then(d, LAMBDA t, o : Lookup(t, o, NameOf(at))), LAMBDA t, o :
                 IF removedir # IsDir(t, o) THEN Fail(t, IF removedir THEN "ENOTDIR" ELSE "EISDIR")
                 ELSE RemoveName(t, d.o, NameOf(at)))
    IN  Return(r, fd) /\ UNCHANGED <<cwd, dents>>

\* renameat2 onto a file does nothing; onto an empty directory it replaces it.
Renameat2(old, new) ==
    LET od == AtHelper(vfs, old)
        nd == Then(od, LAMBDA t, o : AtHelper(t, new))
        ok == nd.e = "ok" /\ IsDir(nd.s, od.o) /\ IsDir(nd.s, nd.o)
        to == LookupHelper(nd.s, nd.o, NameOf(new))
        Move(s) == Then(Detach(s, od.o, NameOf(old)),
                        LAMBDA t, o : Attach(t, nd.o, NameOf(new), o))
        Replace(s) == Then(Detach(s, od.o, NameOf(old)), LAMBDA t, o :
                          Then(RemoveName(t, nd.o, NameOf(new)),
                               LAMBDA u, p : Attach(u, nd.o, NameOf(new), o)))
        Onto(s, p) ==
            IF ~ IsDir(s, p) THEN Done(s, p)
            ELSE LET l == List(s, p) IN
                 IF Listing(l.s, p) # <<>> THEN Fail(l.s, "ENOTEMPTY") ELSE Replace(l.s)
        r == IF nd.e # "ok" THEN nd
             ELSE IF ~ ok THEN Fail(nd.s, "ENOTDIR")
             ELSE IF to.e = "ENOENT" THEN Move(to.s)
             ELSE Then(to, Onto)
    IN  Return(r, fd) /\ UNCHANGED <<cwd, dents>>

\* sys_mount attaches a ZeroDev to a directory it has looked up or made, so that
\* attach finds the name taken. An absolute path is taken from cwd as well.
Mount(raw) ==
    LET q == FromString(raw)
        p == IF IsRoot(q) THEN q ELSE Joined(cwd, q.comps)
        d == Resolve(vfs, Root, RemoveTail(p))
        l == Then(d, LAMBDA t, o : Lookup(t, o, FileName(p)))
        m == IF d.e = "ok" /\ l.e = "ENOENT" THEN Create(l.s, d.o, FileName(p), "dir") ELSE l
        r == Then(m, LAMBDA t, o : Attach([t EXCEPT !.node[Fresh(t)] = Node("dev", 0)],
                                          d.o, FileName(p), Fresh(t)))
    IN  /\ Return(IF ~ p.abs \/ IsCurrent(p) THEN Fail(vfs, "panic") ELSE r, fd)
        /\ UNCHANGED <<cwd, dents>>

Umount(raw) ==
    LET p == Joined(cwd, raw.parts)
        r == Then(Resolve(vfs, Root, RemoveTail(p)), LAMBDA t, d : Detach(t, d, FileName(p)))
    IN  Return(IF IsCurrent(p) THEN Fail(vfs, "panic") ELSE r, fd) /\ UNCHANGED <<cwd, dents>>

\* Variant: the pass is over when one entry is left.
EndOfDirEarly(total, at) == total <= at + 1

EndOfDir(total, at) == total = at

\* getdents with room for k entries. files[progress..] panics past the end.
Getdents(f, k) ==
    LET l == List(vfs, fd[f].node)
        files == Listing(l.s, fd[f].node)
        at == fd[f].at
        end == EndOfDir(Len(files), at)
        upto == IF end THEN 0 ELSE IF at + k < Len(files) THEN at + k ELSE Len(files)
        was == IF at = 0 THEN [got |-> <<>>, list |-> files, same |-> TRUE, end |-> FALSE]
               ELSE dents[f]
    IN  /\ fd[f].node # 0
        /\ IF l.e = "panic" \/ (~ end /\ at > Len(files))
           THEN Return(Fail(l.s, "panic"), fd) /\ UNCHANGED <<cwd, dents>>
           ELSE /\ Return(l, [fd EXCEPT ![f].at = upto]) /\ UNCHANGED cwd
                /\ dents' = [dents EXCEPT ![f] =
                       [got |-> was.got \o SubSeq(files, at + 1, upto), list |-> was.list,
                        same |-> was.same /\ files = was.list, end |-> end]]

Next ==
    \/ \E at \in Places :
           \/ \E creat \in BOOLEAN : Openat(at, creat)
           \/ Fstatat(at) \/ Faccessat(at)
           \/ Utimensat(at)
           \/ Mkdir(at)
           \/ \E removedir \in BOOLEAN : Unlinkat(at, removedir)
           \/ \E raw \in Paths : Renameat2(at, [dir |-> 0, raw |-> raw])
    \/ \E raw \in Paths : Chdir(raw) \/ Execve(raw) \/ Mount(raw) \/ Umount(raw)
    \/ \E f \in Fds : Close(f) \/ \E k \in 1 .. 2 : Getdents(f, k)

Spec == Init /\ [][Next]_vars

-----------------------------------------------------------------------------
(* Properties.                                                              *)

\* While no file has two nodes and no name two entries, what a directory has
\* cached is what the disk has: each cached file of the disk is the entry of its
\* name, and a directory that is_all lists every entry. Lookups answered by the
\* map alone, ENOENT included, rest on this (PathCacheDir::lookup).
CacheExact ==
    spoilt = {} => \A d \in Nodes : IsDir(vfs, d) /\ OnDisk(vfs, d) =>
        LET es == Range(vfs.dirs[vfs.node[d].ino]) IN
        /\ \A n \in Names : LET o == Cached(vfs, d, n) IN
               o # 0 /\ OnDisk(vfs, o) => [name |-> n, ino |-> vfs.node[o].ino] \in es
        /\ vfs.node[d].all => \A e \in es : LET o == Cached(vfs, d, e.name) IN
               o # 0 /\ vfs.node[o].ino \in {e.ino, 0}

\* While no file has two nodes, the clusters of a file are not given back while a
\* descriptor or a directory still holds it: mark_deleted leaves the freeing to
\* the drop of the last handle (SyncAttrFile::drop).
FreedUnheld ==
    spoilt = {} => \A o \in Nodes : OnDisk(vfs, o) => vfs.kind[vfs.node[o].ino] # "freed"

\* A directory that did not change between the calls of a pass of getdents is
\* returned entry by entry, each once, and completely when the pass ends: the
\* progress kept in the descriptor indexes a list built anew by every call.
DentsOnce ==
    \A f \in Fds : dents[f].same =>
        /\ IsPrefix(dents[f].got, dents[f].list)
        /\ dents[f].end => dents[f].got = dents[f].list
=============================================================================
