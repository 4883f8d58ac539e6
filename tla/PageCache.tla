------------------------------ MODULE PageCache ------------------------------
(***************************************************************************)
(* The page cache over FAT32 files (src/src/fs/new_vfs/page_cache.rs) and  *)
(* the system calls that read and write open files through it              *)
(* (src/src/syscall/io.rs, sys_fturncate of fs.rs).  A call holds the      *)
(* file's SleepLocks and block I/O never pends, so a call is one action.   *)
(* Pages are never written back and never evicted.                         *)
(***************************************************************************)
EXTENDS FatFile

CONSTANTS
    Page,       \* PAGE_SIZE
    MaxPages,   \* bound: pages of a file
    Offsets,    \* offsets that callers use
    Bufs,       \* the lengths of the two buffers of a call
    Sizes,      \* sizes given to ftruncate
    Vals,       \* bytes that callers write
    MaxCalls    \* bound: system calls

ASSUME PageBounds == Page \in Nat \ {0} /\ Page % Block = 0 /\ MaxPages \in Nat

VARIABLES
    pages,    \* PageManager::cached_pages, per file
    curr,     \* FileDescriptor::curr, one descriptor per file
    want,     \* history: the bytes the file should hold
    written,  \* history: positions written and not truncated away since
    lost,     \* history: pages of the file that a write made without reading them
    cut,      \* history: the file was truncated, not to 0, since it was last empty
    calls

cacheVars == <<pages, curr, want, written, lost, cut>>
vars == <<fatVars, cacheVars, calls>>

PageIds == 0..(MaxPages - 1)
Bytes == 0..(MaxPages * Page - 1)
NoPage == [in |-> FALSE, len |-> 0, bytes |-> [k \in 0..(Page - 1) |-> 0]]
NoPages == [p \in PageIds |-> NoPage]
PageOf(x) == x \div Page
LastPage(off, n) == (off + n - 1) \div Page
Fits(off, n) == off + n <= MaxPages * Page

-----------------------------------------------------------------------------
\* perpare_range over the pages b..e: pages that are not cached are read until
\* one of them comes up short.
LoadBytes(f, p) == ReadBytes(f, p * Page, Page)

\* Variant: pages in the cache are read again.
LoadedAgain(f, pg, b, e) ==
    {p \in b..e : \A q \in b..(p - 1) : Len(LoadBytes(f, q)) = Page}

Loaded(f, pg, b, e) ==
    {p \in b..e : ~pg[p].in /\ \A q \in b..(p - 1) : pg[q].in \/ Len(LoadBytes(f, q)) = Page}
LoadPanics(f, pg, b, e) == \E p \in Loaded(f, pg, b, e) : ReadPanics(f, p * Page, Page)
Prepared(f, pg, b, e) ==
    LET ld == Loaded(f, pg, b, e)
        fresh(s) == [in |-> TRUE, len |-> Len(s),
                     bytes |-> [k \in 0..(Page - 1) |-> IF k < Len(s) THEN s[k + 1] ELSE 0]]
    IN  [p \in PageIds |-> IF p \in ld THEN fresh(LoadBytes(f, p)) ELSE pg[p]]

\* cached_read: the bytes from off on, up to the first that no cached page has.
HasByte(pg, x) == pg[PageOf(x)].in /\ x % Page < pg[PageOf(x)].len
CachedRead(pg, off, n) ==
    LET k == CHOOSE m \in 0..n : /\ \A x \in off..(off + m - 1) : HasByte(pg, x)
                                 /\ m = n \/ ~HasByte(pg, off + m)
    IN  [j \in 1..k |-> pg[PageOf(off + j - 1)].bytes[(off + j - 1) % Page]]

\* cached_write: get_or_alloc, try_update_len and copy, page by page.
CachedWrite(pg, off, data) ==
    LET n == Len(data)
        end(p) == Lesser(Page, off + n - p * Page)
        put(p) == [in |-> TRUE,
                   len |-> IF end(p) > pg[p].len THEN end(p) ELSE pg[p].len,
                   bytes |-> [k \in 0..(Page - 1) |->
                       IF p * Page + k \in off..(off + n - 1) THEN data[p * Page + k - off + 1]
                       ELSE pg[p].bytes[k]]]
    IN  [p \in PageIds |-> IF p \in PageOf(off)..LastPage(off, n) THEN put(p) ELSE pg[p]]

\* write_at prepares buf.len() bytes from the start of the page of offset.
WritePrepEnd(off, n) == LastPage(PageOf(off) * Page, n)
WriteAt(f, pg, off, data) ==
    IF data = <<>> THEN pg
    ELSE CachedWrite(Prepared(f, pg, PageOf(off), WritePrepEnd(off, Len(data))), off, data)
WritePanics(f, pg, off, n) == n > 0 /\ LoadPanics(f, pg, PageOf(off), WritePrepEnd(off, n))

\* read_at.
ReadAt(f, pg, off, n) == IF n = 0 THEN pg ELSE Prepared(f, pg, PageOf(off), LastPage(off, n))
ReadAtPanics(f, pg, off, n) == n > 0 /\ LoadPanics(f, pg, PageOf(off), LastPage(off, n))

\* attr_size: the file's size, or the end of the last cached page if larger.
AttrSize(f) ==
    LET ends == {p * Page + pages[f][p].len : p \in {q \in PageIds : pages[f][q].in}} \cup {size[f]}
    IN  CHOOSE m \in ends : \A x \in ends : x <= m

-----------------------------------------------------------------------------
Init ==
    /\ FatInit
    /\ pages = [f \in Files |-> NoPages]
    /\ curr = [f \in Files |-> 0]
    /\ want = [f \in Files |-> [x \in Bytes |-> IF x < InitSize[f] THEN f ELSE 0]]
    /\ written = [f \in Files |-> {}]
    /\ lost = [f \in Files |-> {}]
    /\ cut = [f \in Files |-> FALSE]
    /\ calls = 0

Calls(f) == ~dead /\ live[f] /\ calls < MaxCalls /\ calls' = calls + 1

\* Two buffers read one after the other, the second from where the first ended
\* (sys_readv, sys_preadv; sys_read and sys_pread if the second is empty).
ReadTwo(f, off, n1, n2) ==
    LET pg1 == ReadAt(f, pages[f], off, n1)
        r1 == CachedRead(pg1, off, n1)
        o2 == off + Len(r1)
        pg2 == ReadAt(f, pg1, o2, n2)
    IN  [panics |-> ReadAtPanics(f, pages[f], off, n1) \/ ReadAtPanics(f, pg1, o2, n2),
         pages |-> pg2, bytes |-> r1 \o CachedRead(pg2, o2, n2)]

\* Pages that a write touches, that hold bytes of the file on the disk and
\* that write_at has not prepared.
Unprepared(f, pg, off, n) ==
    LET ready == Prepared(f, pg, PageOf(off), WritePrepEnd(off, n))
    IN  {p \in PageOf(off)..LastPage(off, n) : n > 0 /\ ~ready[p].in /\ p * Page < size[f]}

\* Two buffers written one after the other (sys_writev, sys_pwritev; sys_write
\* and sys_pwrite if the second is empty).
WriteTwo(f, off, d1, d2) ==
    LET pg1 == WriteAt(f, pages[f], off, d1)
        o2 == off + Len(d1)
    IN  [panics |-> WritePanics(f, pages[f], off, Len(d1)) \/ WritePanics(f, pg1, o2, Len(d2)),
         pages |-> WriteAt(f, pg1, o2, d2),
         lost |-> Unprepared(f, pages[f], off, Len(d1)) \cup Unprepared(f, pg1, o2, Len(d2))]

\* What a write of d1 and d2 at off changes, pgs being the pages of the others.
Put(f, off, d1, d2, pgs) ==
    LET w == WriteTwo(f, off, d1, d2)
        d == d1 \o d2
        range == off..(off + Len(d) - 1)
    IN  /\ ~w.panics
        /\ pages' = [pgs EXCEPT ![f] = w.pages]
        /\ lost' = [lost EXCEPT ![f] = @ \cup w.lost]
        /\ want' = [want EXCEPT ![f] = [x \in Bytes |-> IF x \in range THEN d[x - off + 1] ELSE @[x]]]
        /\ written' = [written EXCEPT ![f] = @ \cup range]

Fill(n, v) == [k \in 1..n |-> v]

Write(f, n1, n2, v) ==
    /\ Calls(f) /\ Fits(curr[f], n1 + n2)
    /\ Put(f, curr[f], Fill(n1, v), Fill(n2, v), pages)
    /\ curr' = [curr EXCEPT ![f] = @ + n1 + n2]
    /\ UNCHANGED <<fatVars, cut>>

Pwrite(f, off, n1, n2, v) ==
    /\ Calls(f) /\ Fits(off, n1 + n2)
    /\ Put(f, off, Fill(n1, v), Fill(n2, v), pages)
    /\ UNCHANGED <<fatVars, curr, cut>>

Read(f, n1, n2) ==
    /\ Calls(f) /\ Fits(curr[f], n1 + n2)
    /\ LET r == ReadTwo(f, curr[f], n1, n2)
       IN  /\ ~r.panics
           /\ pages' = [pages EXCEPT ![f] = r.pages]
           /\ curr' = [curr EXCEPT ![f] = @ + Len(r.bytes)]
    /\ UNCHANGED <<fatVars, want, written, lost, cut>>

Pread(f, off, n1, n2) ==
    /\ Calls(f) /\ Fits(off, n1 + n2)
    /\ LET r == ReadTwo(f, off, n1, n2)
       IN  ~r.panics /\ pages' = [pages EXCEPT ![f] = r.pages]
    /\ UNCHANGED <<fatVars, curr, want, written, lost, cut>>

\* sys_lseek: SEEK_SET and SEEK_CUR reach any offset; SEEK_END the size.
Seek(f, off) ==
    /\ Calls(f)
    /\ curr' = [curr EXCEPT ![f] = off]
    /\ UNCHANGED <<fatVars, pages, want, written, lost, cut>>

\* sys_copy_file_range with null offsets: the bytes read are written.
CopyRange(f, g, n) ==
    /\ f # g /\ live[g] /\ Calls(f) /\ Fits(curr[f], n)
    /\ LET r == ReadTwo(f, curr[f], n, 0)
       IN  /\ ~r.panics /\ Fits(curr[g], Len(r.bytes))
           /\ Put(g, curr[g], r.bytes, <<>>, [pages EXCEPT ![f] = r.pages])
           /\ curr' = [curr EXCEPT ![f] = @ + Len(r.bytes), ![g] = @ + Len(r.bytes)]
    /\ UNCHANGED <<fatVars, cut>>

\* sys_mmap of a private page and a poll of the descriptor: one page is read.
Touch(f, off) ==
    /\ Calls(f) /\ Fits(off, 1)
    /\ ~ReadAtPanics(f, pages[f], off, 1)
    /\ pages' = [pages EXCEPT ![f] = ReadAt(f, @, off, 1)]
    /\ UNCHANGED <<fatVars, curr, want, written, lost, cut>>

\* sys_fturncate: only a truncation to 0 drops the cached pages.
Ftruncate(f, n) ==
    /\ Calls(f)
    /\ FatTruncate(f, n)
    /\ pages' = IF n = 0 THEN [pages EXCEPT ![f] = NoPages] ELSE pages
    /\ lost' = IF n = 0 THEN [lost EXCEPT ![f] = {}] ELSE lost
    /\ cut' = [cut EXCEPT ![f] = n # 0]
    /\ want' = [want EXCEPT ![f] = [x \in Bytes |-> IF x < n THEN @[x] ELSE 0]]
    /\ written' = [written EXCEPT ![f] = {x \in @ : x < n}]
    /\ UNCHANGED curr

\* The file is unlinked and its last reference dropped, and a file created in
\* its stead.
Unlink(f) ==
    /\ Calls(f) /\ FatDelete(f)
    /\ pages' = [pages EXCEPT ![f] = NoPages]
    /\ lost' = [lost EXCEPT ![f] = {}]
    /\ cut' = [cut EXCEPT ![f] = FALSE]
    /\ want' = [want EXCEPT ![f] = [x \in Bytes |-> 0]]
    /\ written' = [written EXCEPT ![f] = {}]
    /\ curr' = [curr EXCEPT ![f] = 0]

CreateFile(f) ==
    /\ ~dead /\ calls < MaxCalls /\ calls' = calls + 1
    /\ FatCreate(f)
    /\ UNCHANGED cacheVars

\* A call that panics.
Panics(f) ==
    /\ Calls(f)
    /\ \/ \E off \in Offsets \cup {curr[f]}, b \in Bufs :
             /\ Fits(off, b[1] + b[2])
             /\ \/ ReadTwo(f, off, b[1], b[2]).panics
                \/ WriteTwo(f, off, Fill(b[1], 0), Fill(b[2], 0)).panics
       \/ \E n \in Sizes : TruncatePanics(f, n)
    /\ dead' = TRUE
    /\ UNCHANGED <<fat, disk, chain, size, live, cacheVars>>

Next ==
    \E f \in Files :
        \/ Unlink(f) \/ CreateFile(f) \/ Panics(f)
        \/ \E n \in Sizes : Ftruncate(f, n)
        \/ \E off \in Offsets \cup {AttrSize(f)} : Seek(f, off)
        \/ Touch(f, curr[f])
        \/ \E b \in Bufs :
              \/ Read(f, b[1], b[2])
              \/ \E g \in Files : CopyRange(f, g, b[1] + b[2])
              \/ \E off \in Offsets : Pread(f, off, b[1], b[2])
              \/ \E v \in Vals : Write(f, b[1], b[2], v) \/ \E off \in Offsets : Pwrite(f, off, b[1], b[2], v)

Spec == Init /\ [][Next]_vars

-----------------------------------------------------------------------------
\* Every byte written stays in the cache with its value until it is truncated
\* away: no later read, poll, mapping, copy or short write of the same page
\* reloads the page, shortens it or leaves a gap before the byte in its page.
WrittenStays ==
    \A f \in Files : \A x \in written[f] :
        HasByte(pages[f], x) /\ pages[f][PageOf(x)].bytes[x % Page] = want[f][x]

\* A cached page is the file's page, byte for byte, with zeros past the end of
\* the file: pages filled from several clusters, pages first written past the
\* end and pages of a reused cluster included.  Excepted are pages that a write
\* made without reading them, and files truncated to a size other than 0.
CacheCoherent ==
    \A f \in Files : live[f] /\ ~cut[f] =>
        \A p \in PageIds \ lost[f] : pages[f][p].in =>
            \A k \in 0..(Page - 1) : pages[f][p].bytes[k] = want[f][p * Page + k]
=============================================================================
