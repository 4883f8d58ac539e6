------------------------------- MODULE FatDir -------------------------------
(***************************************************************************)
(* One FAT32 directory: the sliding window over its entries and the group  *)
(* iterator (src/src/fs/nfat32/dir.rs), and the directory operations of    *)
(* FATFile that use them (src/src/fs/nfat32/file.rs).  The directory's     *)
(* file is locked for the whole of an operation, so operations do not      *)
(* interleave; an operation is taken one entry at a time.                  *)
(*                                                                         *)
(* Positions count entries (AtomDEntry), not bytes.  An entry is its first *)
(* byte, the name bytes after it, whether its attribute is 0x0F (a long    *)
(* name part), its cluster, its size and whether it is a directory.  Name  *)
(* lengths are scaled: ShortLen stands for 8 and LfnLen for 13.            *)
(***************************************************************************)
EXTENDS FatTable, SequencesExt

CONSTANTS
    Ades,       \* BLK_ADE_CNT: entries in a sector
    ShortLen,   \* characters of a short name
    LfnLen,     \* characters of a long name part
    Names,      \* sequences of characters (numbers above 0)
    Images,     \* initial contents of the directory: sequences of entries
    Handles,    \* FATFile objects held by callers
    MaxOps      \* bound: operations started

ASSUME DirBounds == Ades \in Nat \ {0} /\ ShortLen \in Nat \ {0} /\ LfnLen \in Nat \ {0}

VARIABLES
    fat,    \* FATTableManager::fat
    img,    \* the entries in each sector, as the block cache holds them
    chain,  \* FATFile::chain of the directory
    it,     \* the GroupDEntryIter and its AtomDEntryWindow
    op,     \* the operation in progress and where it is
    obj,    \* the FATFile objects made by lookup and create
    made,   \* history: names created or found, and not removed since
    ops     \* operations started

vars == <<fat, img, chain, it, op, obj, made, ops>>

Zero == 0
Blank == 32
Unused == 229   \* 0xE5
Offsets == 0..(Ades - 1)
Sectors == FirstSector(2)..(FirstSector(FatLen) - 1)
RootCluster == 2

\* FatDEntryData::lfn_needed.
LfnNeeded(name) ==
    IF Len(name) <= ShortLen THEN 0 ELSE (Len(name) + LfnLen - 1) \div LfnLen

\* Bytes after the first that a short name and a long name part share.
RestLen == IF ShortLen - 1 > LfnLen THEN ShortLen - 1 ELSE LfnLen
EmptyEntry == [b0 |-> Zero, rest |-> [k \in 1..RestLen |-> Zero], lfn |-> FALSE,
               cls |-> 0, size |-> 0, dir |-> FALSE]

-----------------------------------------------------------------------------
(* The window: AtomDEntryWindow.  bufs are the loaded sectors.             *)

NewIter == [start |-> TRUE, bufs |-> <<>>, next |-> FirstSector(chain[1]), append |-> FALSE,
            deleted |-> FALSE, begin |-> 0, left |-> 0, right |-> 0]

\* new_middle: round_down_sct divides a byte offset, a multiple of 32, by
\* BLK_ADE_CNT = 16, and so rounds nothing: begin_pos is the group itself.
NewMiddle(sct, gde) == [NewIter EXCEPT !.start = FALSE, !.next = sct,
                                       !.begin = gde, !.left = gde, !.right = gde]

BufIdx(i, p) == (p - i.begin) \div Ades

\* get_in_buf: where the n-th entry of the loaded sectors is.
InBuf(i, n) == <<i.bufs[n \div Ades + 1], n % Ades>>
InDir(i, p) == InBuf(i, p - i.begin)
At(loc) == img[loc[1]][loc[2]]

WindowLen(i) == i.right - i.left
WindowLocs(i) == {InDir(i, p) : p \in i.left..(i.right - 1)}

\* Variants: begin_pos or the loaded sectors are left as they are.
MoveLeftBegin(i, n) ==
    [i EXCEPT !.left = @ + n, !.bufs = SubSeq(@, BufIdx(i, i.left + n) + 1, Len(@))]
MoveLeftBufs(i, n) == [i EXCEPT !.left = @ + n, !.begin = @ + BufIdx(i, i.left + n) * Ades]

\* move_left: the sectors that the window has passed are dropped.
MoveLeft(i, n) ==
    LET k == BufIdx(i, i.left + n)
    IN  [i EXCEPT !.left = @ + n, !.begin = @ + k * Ades,
                  !.bufs = SubSeq(@, k + 1, Len(@))]

\* Variant: the last entry of the group stays in the window.
LeaveNextLate(i) == MoveLeft(i, WindowLen(i) - 1)

LeaveNext(i) == MoveLeft(i, WindowLen(i))

-----------------------------------------------------------------------------
(* Groups: GroupDEntryIter.                                                *)

NameChars(cs) == SelectSeq(cs, LAMBDA c : c \notin {Zero, Blank})
ShortName(e) == NameChars(<<e.b0>> \o SubSeq(e.rest, 1, ShortLen - 1))

\* collect_name: the parts of a long name are joined last part first, up to
\* the first NUL.
LongName(parts) ==
    LET cs == FlattenSeq(Reverse(parts))
        ends == {k \in 1..Len(cs) : cs[k] = Zero}
    IN  IF ends = {} THEN cs
        ELSE SubSeq(cs, 1, (CHOOSE k \in ends : \A m \in ends : k <= m) - 1)

CollectName(es) ==
    IF Len(es) = 1 THEN ShortName(es[1])
    ELSE LongName([k \in 1..(Len(es) - 1) |-> SubSeq(es[k].rest, 1, LfnLen)])

Group(i) == [k \in 1..WindowLen(i) |-> At(InDir(i, i.left + k - 1))]

\* A short name that starts with 0xE5 is not UTF-8: collect_name panics.
NamePanics(es) == Len(es) = 1 /\ es[1].b0 = Unused

\* can_create looks at the first entry of the loaded sectors, not of the window.
CanCreate(i, name) ==
    /\ At(InBuf(i, 0)).b0 = Unused \/ i.deleted \/ i.append
    /\ LfnNeeded(name) < WindowLen(i)

\* The n-th entry that create_entry writes for d over an old entry e.
NewEntry(e, d, n) ==
    LET k == LfnNeeded(d.name)
        char(j) == IF j <= Len(d.name) THEN d.name[j] ELSE Zero
        part == [j \in 1..RestLen |-> IF j <= LfnLen THEN char(n * LfnLen + j) ELSE e.rest[j]]
        short == [j \in 1..RestLen |->
                     IF j >= ShortLen \/ (k = 0 /\ j + 1 > Len(d.name)) THEN e.rest[j]
                     ELSE IF k = 0 THEN d.name[j + 1] ELSE Blank]
    IN  IF n < k THEN [e EXCEPT !.b0 = n + 1, !.rest = part, !.lfn = TRUE]
        ELSE [b0 |-> IF k = 0 THEN d.name[1] ELSE Blank, rest |-> short, lfn |-> FALSE,
              cls |-> d.cls, size |-> d.size, dir |-> d.dir]

\* create_entry: it writes from the start of the loaded sectors, then moves
\* the left end of the window past as many entries as it wrote.
EntryWritten(i, d) ==
    LET locs == [n \in 0..LfnNeeded(d.name) |-> InBuf(i, n)]
    IN  [s \in Sectors |-> [k \in Offsets |->
            IF \E n \in DOMAIN locs : locs[n] = <<s, k>>
            THEN NewEntry(img[s][k], d, CHOOSE n \in DOMAIN locs : locs[n] = <<s, k>>)
            ELSE img[s][k]]]
AfterCreate(i, d) == MoveLeft(i, LfnNeeded(d.name) + 1)

\* The image with the first byte of the entries at locs set to b.
FirstByteSet(locs, b) ==
    [s \in Sectors |-> [k \in Offsets |->
        IF <<s, k>> \in locs THEN [img[s][k] EXCEPT !.b0 = b] ELSE img[s][k]]]

\* into_de_pos: the group and the place of its standard entry.
Placed(o, i) ==
    [o EXCEPT !.free = FALSE, !.gde = i.left,
              !.sct = SectorAt(chain, (i.right - 1) \div Ades), !.off = (i.right - 1) % Ades]

-----------------------------------------------------------------------------
NoOp == [k |-> "none", pc |-> "idle", h |-> 0, d |-> <<>>, need |-> 0, res |-> <<>>]
NoObj == [on |-> FALSE, free |-> TRUE, gde |-> 0, sct |-> 0, off |-> 0, cls |-> 0,
          std |-> EmptyEntry, dirty |-> FALSE]

\* The volume: the directory image fills the sectors of its chain, which is
\* as long as the image needs; other clusters hold a file's or nothing.
ClusterAdes == Ades * SctPerCls
DirClusters(im) == (Len(im) + ClusterAdes - 1) \div ClusterAdes
Init ==
    \E im \in Images :
        LET n == DirClusters(im)
            ours == 2..(n + 1)
            files == {im[k].cls : k \in 1..Len(im)} \ {0}
            slot(s, k) == s * Ades + k + 1
        IN  /\ fat = [c \in Ids |-> IF c \in 2..n THEN c + 1
                                   ELSE IF c \in ours \cup files \cup {0, 1} THEN EndMark
                                   ELSE FreeMark]
            /\ img = [s \in Sectors |-> [k \in Offsets |->
                        IF slot(s, k) <= Len(im) THEN im[slot(s, k)] ELSE EmptyEntry]]
            /\ chain = [k \in 1..n |-> k + 1]
            /\ it = [start |-> TRUE, bufs |-> <<>>, next |-> None, append |-> FALSE,
                     deleted |-> FALSE, begin |-> 0, left |-> 0, right |-> 0]
            /\ op = NoOp /\ made = {} /\ ops = 0
            /\ obj = [h \in Handles |-> NoObj]

Begins == op.pc = "idle" /\ ops < MaxOps /\ ops' = ops + 1

Scan(k, h, d) == op' = [NoOp EXCEPT !.k = k, !.pc = "scan", !.h = h, !.d = d]

Lookup(h, name) ==
    /\ Begins /\ ~obj[h].on
    /\ it' = NewIter /\ Scan("lookup", h, [name |-> name])
    /\ UNCHANGED <<fat, img, chain, obj, made>>

List ==
    /\ Begins
    /\ it' = NewIter /\ Scan("list", 0, <<>>)
    /\ UNCHANGED <<fat, img, chain, obj, made>>

\* create: a cluster is allocated and the new file, with an empty standard
\* entry and no place in the directory, is attached.
Create(h, name, dir) ==
    /\ Begins /\ ~obj[h].on /\ ~IsFull(fat)
    /\ LET c == FirstFree(fat)
       IN  /\ obj' = [obj EXCEPT ![h] = [NoObj EXCEPT !.on = TRUE, !.cls = c,
                                              !.std = [EmptyEntry EXCEPT !.dir = dir]]]
           /\ Scan("attach", h, [name |-> name, cls |-> c, size |-> 0, dir |-> dir])
    /\ fat' = AfterAlloc(fat)
    /\ it' = NewIter
    /\ UNCHANGED <<img, chain, made>>

DataOf(o, name) == [name |-> name, cls |-> o.cls, size |-> o.std.size, dir |-> o.std.dir]

Attach(h, name) ==
    /\ Begins /\ obj[h].on /\ obj[h].free
    /\ it' = NewIter /\ Scan("attach", h, DataOf(obj[h], name))
    /\ UNCHANGED <<fat, img, chain, obj, made>>

\* detach and rename begin with detach_impl.
Detach(h) ==
    /\ Begins /\ obj[h].on /\ ~obj[h].free
    /\ it' = NewMiddle(obj[h].sct, obj[h].gde) /\ Scan("detach", h, <<>>)
    /\ made' = {m \in made : m[2] # obj[h].cls}
    /\ UNCHANGED <<fat, img, chain, obj>>

Rename(h, name) ==
    /\ Begins /\ obj[h].on /\ ~obj[h].free
    /\ it' = NewMiddle(obj[h].sct, obj[h].gde) /\ Scan("rename", h, DataOf(obj[h], name))
    /\ made' = {m \in made : m[2] # obj[h].cls}
    /\ UNCHANGED <<fat, img, chain, obj>>

\* truncate: the size in the editor's copy of the standard entry.
SetSize(h, n) ==
    /\ Begins /\ obj[h].on
    /\ obj' = [obj EXCEPT ![h].std.size = n, ![h].dirty = TRUE]
    /\ UNCHANGED <<fat, img, chain, it, op, made>>

\* Drop for FATFile: sync_metadata writes a dirty standard entry to its place.
Drop(h) ==
    /\ Begins /\ obj[h].on
    /\ obj' = [obj EXCEPT ![h] = NoObj]
    /\ img' = IF obj[h].dirty /\ ~obj[h].free
              THEN [img EXCEPT ![obj[h].sct][obj[h].off] = obj[h].std] ELSE img
    /\ UNCHANGED <<fat, chain, it, op, made>>

-----------------------------------------------------------------------------
(* move_right_one: load a sector if the right end is past the loaded ones,  *)
(* then advance over one entry.                                             *)

Moves == op.pc \in {"scan", "append", "close"} /\ ~(op.pc = "append" /\ op.need = 0)
WantsSector == Moves /\ BufIdx(it, it.right) >= Len(it.bufs)

LoadNext ==
    /\ WantsSector /\ it.next # None
    /\ it' = [it EXCEPT !.bufs = Append(@, it.next), !.next = NextSector(fat, it.next)]
    /\ UNCHANGED <<fat, img, chain, op, obj, made, ops>>

\* In append mode a cluster is linked to the directory's last one.
GrowDirectory ==
    /\ WantsSector /\ it.next = None /\ it.append /\ ~IsFull(fat)
    /\ LET c == FirstFree(fat)
           s == FirstSector(c)
       IN  /\ fat' = AfterAllocNext(fat, chain[Len(chain)])
           /\ chain' = Append(chain, c)
           /\ it' = [it EXCEPT !.bufs = Append(@, s), !.next = NextSector(fat', s)]
    /\ UNCHANGED <<img, op, obj, made, ops>>

NoMoreSectors ==
    /\ WantsSector /\ it.next = None /\ ~it.append
    /\ op' = [op EXCEPT !.pc = "end"]
    /\ UNCHANGED <<fat, img, chain, it, obj, made, ops>>

\* find_first_free panics.
NoFreeCluster ==
    /\ IsFull(fat)
    /\ \/ WantsSector /\ it.next = None /\ it.append
       \/ op.pc = "idle" /\ ops < MaxOps /\ \E h \in Handles : ~obj[h].on
    /\ op' = [op EXCEPT !.pc = "panic"]
    /\ UNCHANGED <<fat, img, chain, it, obj, made, ops>>

\* mark_next stops at a standard entry or at the end mark, both included in
\* the window; append counts its moves; append_end makes one.
Advance ==
    /\ Moves /\ ~WantsSector
    /\ it' = [it EXCEPT !.right = @ + 1]
    /\ LET e == At(InDir(it, it.right))
       IN  op' = CASE op.pc = "append" -> [op EXCEPT !.need = @ - 1]
                   [] op.pc = "close" -> [op EXCEPT !.pc = "mark"]
                   [] op.pc = "scan" -> [op EXCEPT !.pc = IF e.b0 = Zero THEN "end"
                                                          ELSE IF e.lfn THEN "scan" ELSE "group"]
    /\ UNCHANGED <<fat, img, chain, obj, made, ops>>

-----------------------------------------------------------------------------
(* What the operations do with a group and at the end.                      *)

AtGroup(k) == op.k = k /\ op.pc = "group"
Leave == it' = LeaveNext(it)
Finish == op' = [op EXCEPT !.pc = "idle"]
Becomes(o, e) == [o EXCEPT !.on = TRUE, !.cls = e.cls, !.std = e]

CollectPanics ==
    /\ AtGroup("lookup") \/ AtGroup("list")
    /\ NamePanics(Group(it))
    /\ op' = [op EXCEPT !.pc = "panic"]
    /\ UNCHANGED <<fat, img, chain, it, obj, made, ops>>

\* lookup compares the name of every group, deleted ones included.
LookupGroup ==
    /\ AtGroup("lookup") /\ ~NamePanics(Group(it))
    /\ \/ /\ CollectName(Group(it)) = op.d.name
          /\ obj' = [obj EXCEPT ![op.h] = Becomes(Placed(@, it), Last(Group(it)))]
          /\ Finish /\ UNCHANGED it
       \/ /\ CollectName(Group(it)) # op.d.name
          /\ op' = [op EXCEPT !.pc = "scan"]
          /\ Leave /\ UNCHANGED obj
    /\ UNCHANGED <<fat, img, chain, made, ops>>

ListGroup ==
    /\ AtGroup("list") /\ ~NamePanics(Group(it))
    /\ LET o == Placed(NoObj, it)
       IN  op' = [op EXCEPT !.pc = "scan",
                            !.res = Append(@, <<CollectName(Group(it)), o.sct, o.off>>)]
    /\ Leave
    /\ UNCHANGED <<fat, img, chain, obj, made, ops>>

ScanEnds ==
    /\ op.pc = "end" /\ op.k \in {"lookup", "list"}
    /\ Finish
    /\ UNCHANGED <<fat, img, chain, it, obj, made, ops>>

\* attach_impl: every group that can_create accepts takes the entry, and the
\* search goes on.
AttachGroup ==
    /\ AtGroup("attach")
    /\ op' = [op EXCEPT !.pc = "scan"]
    /\ \/ /\ CanCreate(it, op.d.name)
          /\ img' = EntryWritten(it, op.d)
          /\ obj' = [obj EXCEPT ![op.h] = Placed(@, AfterCreate(it, op.d))]
          /\ it' = LeaveNext(AfterCreate(it, op.d))
       \/ ~CanCreate(it, op.d.name) /\ Leave /\ UNCHANGED <<img, obj>>
    /\ UNCHANGED <<fat, chain, made, ops>>

\* append_enter, with the entries that append will need.
AppendEnter ==
    /\ op.k = "attach" /\ op.pc = "end"
    /\ it' = [it EXCEPT !.append = TRUE]
    /\ op' = [op EXCEPT !.pc = "append", !.need = LfnNeeded(op.d.name) + 1]
    /\ UNCHANGED <<fat, img, chain, obj, made, ops>>

AppendEntry ==
    /\ op.pc = "append" /\ op.need = 0
    /\ img' = EntryWritten(it, op.d)
    /\ it' = AfterCreate(it, op.d)
    /\ obj' = [obj EXCEPT ![op.h] = Placed(@, it')]
    /\ op' = [op EXCEPT !.pc = "close"]
    /\ UNCHANGED <<fat, chain, made, ops>>

\* append_end: the entry after the new one becomes the end mark.
AppendEnd ==
    /\ op.pc = "mark"
    /\ img' = FirstByteSet({InDir(it, it.right - 1)}, Zero)
    /\ it' = [LeaveNext(it) EXCEPT !.append = FALSE]
    /\ made' = made \cup {<<op.d.name, op.d.cls>>}
    /\ Finish
    /\ UNCHANGED <<fat, chain, obj, ops>>

\* detach_impl deletes whatever group mark_next stopped at, if any.
DeleteGroup ==
    /\ op.k \in {"detach", "rename"} /\ op.pc \in {"group", "end"}
    /\ img' = FirstByteSet(WindowLocs(it), Unused)
    /\ obj' = [obj EXCEPT ![op.h].free = TRUE]
    /\ \/ op.k = "detach" /\ Finish /\ Leave
       \/ op.k = "rename" /\ op' = [op EXCEPT !.pc = "place"] /\ it' = [it EXCEPT !.deleted = TRUE]
    /\ UNCHANGED <<fat, chain, made, ops>>

\* rename: in the place just freed if it is long enough, or as attach does.
\* offset_sct panics on a place past the end of the chain.
PlaceInChain == (it.right - 1) \div ClusterAdes < Len(chain)
RenameInPlace ==
    /\ op.pc = "place" /\ CanCreate(it, op.d.name) /\ PlaceInChain
    /\ img' = EntryWritten(it, op.d)
    /\ it' = AfterCreate(it, op.d)
    /\ obj' = [obj EXCEPT ![op.h] = Placed(@, it')]
    /\ made' = made \cup {<<op.d.name, op.d.cls>>}
    /\ Finish
    /\ UNCHANGED <<fat, chain, ops>>

RenamePanics ==
    /\ op.pc = "place" /\ CanCreate(it, op.d.name) /\ ~PlaceInChain
    /\ img' = EntryWritten(it, op.d)
    /\ op' = [op EXCEPT !.pc = "panic"]
    /\ UNCHANGED <<fat, chain, it, obj, made, ops>>

RenameElsewhere ==
    /\ op.pc = "place" /\ ~CanCreate(it, op.d.name)
    /\ it' = NewIter
    /\ op' = [op EXCEPT !.k = "attach", !.pc = "scan"]
    /\ UNCHANGED <<fat, img, chain, obj, made, ops>>

Starts ==
    \/ List
    \/ \E h \in Handles :
          \/ Detach(h) \/ Drop(h) \/ SetSize(h, 1)
          \/ \E name \in Names : Lookup(h, name) \/ Attach(h, name) \/ Rename(h, name)
          \/ \E name \in Names, dir \in BOOLEAN : Create(h, name, dir)

Next ==
    \/ Starts
    \/ LoadNext \/ GrowDirectory \/ NoMoreSectors \/ NoFreeCluster \/ Advance
    \/ CollectPanics \/ LookupGroup \/ ListGroup \/ ScanEnds
    \/ AttachGroup \/ AppendEnter \/ AppendEntry \/ AppendEnd
    \/ DeleteGroup \/ RenameInPlace \/ RenamePanics \/ RenameElsewhere

Spec == Init /\ [][Next]_vars

-----------------------------------------------------------------------------
(* The directory as a sequence of slots, read through its chain.            *)

Slot(p) == img[SectorAt(chain, p \div Ades)][p % Ades]
SlotEnd ==
    LET all == 0..(Len(chain) * ClusterAdes)
    IN  CHOOSE p \in all : /\ p = Len(chain) * ClusterAdes \/ Slot(p).b0 = Zero
                           /\ \A q \in 0..(p - 1) : Slot(q).b0 # Zero
StdSlots == {p \in 0..(SlotEnd - 1) : ~Slot(p).lfn}
GroupStart(q) ==
    CHOOSE b \in 0..q : (\A p \in b..(q - 1) : Slot(p).lfn) /\ (b = 0 \/ ~Slot(b - 1).lfn)
GroupAt(q) == [k \in 1..(q - GroupStart(q) + 1) |-> Slot(GroupStart(q) + k - 1)]
Decoded ==
    LET qs == SetToSortSeq(StdSlots, <)
    IN  [k \in 1..Len(qs) |-> <<CollectName(GroupAt(qs[k])),
                                SectorAt(chain, qs[k] \div Ades), qs[k] % Ades>>]

Working == op.pc \notin {"idle", "panic"}

\* The window never leaves the loaded sectors: its ends are in order and the
\* next entry is in a loaded sector or the first of the next one, so that
\* move_left does not panic ("out of range") and the two debug_asserts of
\* move_right_one hold, for every iterator and across growth and append.
WindowLoaded ==
    Working => /\ it.begin <= it.left /\ it.left <= it.right
               /\ it.right <= it.begin + Ades * Len(it.bufs)
               /\ it.left < it.begin + Ades

\* An iterator started at the beginning of the directory sees the directory:
\* the entry it reads at a position is the entry at that place of the chain,
\* although passed sectors are dropped and clusters are appended meanwhile.
ViewIsDirectory ==
    (Working /\ it.start) =>
        \A p \in it.left..(it.right - 1) :
            InDir(it, p) = <<SectorAt(chain, p \div Ades), p % Ades>>

\* list returns every group of the directory up to the end mark, in order,
\* each once, with the place of its standard entry.
ListIsDecoded == (op.k = "list" /\ op.pc = "end") => op.res = Decoded

\* The directory's chain in memory is the chain in the table, and no cluster
\* is in it twice: a cluster appended to the directory is linked behind the
\* last one and was free.
ChainMatchesFat ==
    /\ chain = ChainFrom(fat, RootCluster)
    /\ \A h \in Handles : obj[h].on => ~\E k \in 1..Len(chain) : chain[k] = obj[h].cls

\* create makes a "name -> file" entry in the directory (top.rs:225): a name
\* created and neither removed nor renamed since is found by a later scan.
EntriesKept ==
    op.pc = "idle" =>
        \A m \in made : \E q \in StdSlots : CollectName(GroupAt(q)) = m[1]
=============================================================================
