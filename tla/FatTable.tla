------------------------------ MODULE FatTable ------------------------------
(***************************************************************************)
(* The file allocation table of a FAT32 volume and the chains of clusters  *)
(* read from it: FATTableManager and the sector arithmetic of Fat32FS      *)
(* (src/src/fs/nfat32/fs.rs), ClusterChain (src/src/fs/nfat32/tools.rs).   *)
(* The table is read once at boot and never written back to the disk.      *)
(* Operators only: a table is a function from cluster numbers, a chain is  *)
(* a sequence of cluster numbers.                                          *)
(***************************************************************************)
EXTENDS Integers, Sequences

CONSTANTS
    FatLen,     \* FATTableManager::cluster_count
    SctPerCls   \* Fat32FS::cluster_size_sct

ASSUME FatBounds == FatLen \in Nat /\ FatLen > 2 /\ SctPerCls \in Nat \ {0}

Ids == 0..(FatLen - 1)
FreeMark == 0
EndMark == FatLen          \* 0x0FFFFFFF, above every cluster number
None == -1

\* find_first_free panics when no entry is 0.
IsFull(t) == \A c \in Ids : t[c] # FreeMark
FirstFree(t) ==
    CHOOSE c \in Ids : t[c] = FreeMark /\ \A d \in Ids : t[d] = FreeMark => c <= d

\* Variants: the new cluster is not marked as taken; it is not linked.
AfterAllocUnmarked(t) == t
AfterAllocUnlinked(t, c) == [t EXCEPT ![FirstFree(t)] = EndMark]

\* alloc, alloc_next and free: the table afterwards.
AfterAlloc(t) == [t EXCEPT ![FirstFree(t)] = EndMark]
AfterAllocNext(t, c) == [AfterAlloc(t) EXCEPT ![c] = FirstFree(t)]
AfterFree(t, cs) == [c \in Ids |-> IF c \in cs THEN FreeMark ELSE t[c]]

\* next: the entry of a cluster, None from the end mark on.
NextCluster(t, c) == IF t[c] = EndMark THEN None ELSE t[c]

\* chain: follow next to the end.  A walk longer than the table is in a cycle
\* that the program would never leave.
ChainFrom(t, beg) ==
    LET walk[n \in 0..FatLen] ==
            IF n = 0 THEN <<beg>>
            ELSE LET w == walk[n - 1]
                     c == NextCluster(t, w[Len(w)])
                 IN  IF Len(w) < n \/ c = None THEN w ELSE Append(w, c)
    IN  walk[FatLen]

\* first_sector and next_sector, counting from data_begin_sct.
FirstSector(c) == (c - 2) * SctPerCls
ClusterOf(s) == (s \div SctPerCls) + 2

\* Variant: a file lies in consecutive sectors.
NextSectorFlat(t, s) == IF s + 1 < FirstSector(FatLen) THEN s + 1 ELSE None

NextSector(t, s) ==
    LET n == NextCluster(t, ClusterOf(s))
    IN  IF s % SctPerCls # SctPerCls - 1 THEN s + 1
        ELSE IF n = None THEN None ELSE FirstSector(n)

\* ClusterChain::offset_sct: the sector of a chain that holds its n-th sector.
SectorAt(chain, n) == FirstSector(chain[n \div SctPerCls + 1]) + (n % SctPerCls)
=============================================================================
