------------------------------- MODULE FatFile -------------------------------
(***************************************************************************)
(* The data of FAT32 files: the clusters of a file, their sectors, and the *)
(* operations of FATFile that touch them (src/src/fs/nfat32/file.rs, with  *)
(* ClusterChain of tools.rs).  Sectors are read and written past the block *)
(* cache (read_noc, write_noc).  Names and directory entries are in        *)
(* FatDir; here a file is one FATFile object.                              *)
(***************************************************************************)
EXTENDS FatTable, FiniteSets

CONSTANTS
    Files,      \* FATFile objects, numbers
    Block,      \* BLOCK_SIZE: bytes in a sector
    InitChain,  \* the chains of the files on the disk, <<>> for an object not in use
    InitSize,   \* and their sizes
    Stale       \* the byte that unused disk space holds

\* On the disk no two files share a cluster; an empty file has cluster 0.
ASSUME FileBounds ==
    /\ Block \in Nat \ {0} /\ Files \subseteq Nat \ {0}
    /\ InitChain \in [Files -> Seq(Ids)] /\ InitSize \in [Files -> Nat]
    /\ \A f, g \in Files : \A j \in 1..Len(InitChain[f]), k \in 1..Len(InitChain[g]) :
          /\ InitChain[f][j] >= 2 \/ InitChain[f] = <<0>>
          /\ InitChain[f][j] >= 2 /\ InitChain[f][j] = InitChain[g][k] => f = g /\ j = k

VARIABLES
    fat,     \* FATTableManager::fat
    disk,    \* the bytes of each sector
    chain,   \* FATFile::chain
    size,    \* the size in FATFile::editor
    live,    \* the objects in use
    dead     \* the kernel has panicked

fatVars == <<fat, disk, chain, size, live, dead>>

ClusterBytes == Block * SctPerCls
Sectors == FirstSector(2)..(FirstSector(FatLen) - 1)
Clusters(s) == {s[k] : k \in 1..Len(s)}

\* Where a cluster is in the files on the disk.
Places(c) == {fk \in Files \X (1..FatLen) :
                 fk[2] <= Len(InitChain[fk[1]]) /\ InitChain[fk[1]][fk[2]] = c}
Place(c) == CHOOSE fk \in Places(c) : TRUE

FatInit ==
    /\ fat = [c \in Ids |->
                 IF c < 2 THEN EndMark
                 ELSE IF Places(c) = {} THEN FreeMark
                 ELSE LET s == InitChain[Place(c)[1]]
                          k == Place(c)[2]
                      IN  IF k = Len(s) THEN EndMark ELSE s[k + 1]]
    /\ disk = [s \in Sectors |-> [j \in 0..(Block - 1) |->
                  LET c == ClusterOf(s)
                      off == (Place(c)[2] - 1) * ClusterBytes + (s - FirstSector(c)) * Block + j
                  IN  IF Places(c) # {} /\ off < InitSize[Place(c)[1]] THEN Place(c)[1] ELSE Stale]]
    /\ chain = InitChain
    /\ size = InitSize
    /\ live = [f \in Files |-> InitChain[f] # <<>>]
    /\ dead = FALSE

\* The n lowest free clusters, in order: what n calls of alloc return.
FreeRuns(t, n) ==
    {cs \in [1..n -> Ids] :
        /\ \A k \in 1..n : t[cs[k]] = FreeMark
        /\ \A j, k \in 1..n : j < k => cs[j] < cs[k]
        /\ \A c \in Ids : t[c] = FreeMark => (\E k \in 1..n : cs[k] = c) \/ (\A k \in 1..n : cs[k] < c)}

\* At most n sectors from s on, following next_sector.  The entry 0 of a free
\* cluster leads to first_sector(0), which underflows and panics.
BadSector == FirstSector(0)
Walk(t, s, n) ==
    LET w[k \in 0..n] ==
            IF k = 0 THEN <<>>
            ELSE LET p == w[k - 1]
                     x == IF k = 1 THEN s ELSE NextSector(t, p[Len(p)])
                 IN  IF Len(p) < k - 1 \/ x < 0 THEN p ELSE Append(p, x)
    IN  w[n]

\* fill_with_zero(off, len): the rest of the sector of off, then len bytes
\* over the sectors that follow it in the table.
ZeroFilled(t, ch, off, len) ==
    LET s0 == SectorAt(ch, off \div Block)
        from == IF off % Block = 0 THEN s0 ELSE NextSector(t, s0)
        w == Walk(t, from, len \div Block + 1)
        zeroed(s, j) ==
            \/ s = s0 /\ off % Block # 0 /\ j >= off % Block
            \/ \E k \in 1..Len(w) : w[k] = s /\ (k - 1) * Block + j < len
    IN  [s \in Sectors |-> [j \in 0..(Block - 1) |-> IF zeroed(s, j) THEN 0 ELSE disk[s][j]]]

\* find_first_free panics in alloc_push; offset_sct underflows in
\* fill_with_zero on cluster 0, which an empty file has on the disk.
TruncatePanics(f, n) ==
    LET new == n \div ClusterBytes
        at == size[f] \div ClusterBytes + 1
    IN  /\ new > Len(chain[f])
        /\ \/ FreeRuns(fat, new - Len(chain[f])) = {}
           \/ at <= Len(chain[f]) /\ chain[f][at] < 2
           \/ at > Len(chain[f]) /\ \E cs \in FreeRuns(fat, new - Len(chain[f])) :
                                       cs[at - Len(chain[f])] < 2

\* FATFile::truncate: the chain gets new_size / cluster size clusters, rounded
\* down; new clusters are not linked in the table, and the cluster before the
\* freed ones keeps its link.
FatTruncate(f, n) ==
    ~TruncatePanics(f, n) /\
    LET new == n \div ClusterBytes
        old == Len(chain[f])
    IN  /\ size' = [size EXCEPT ![f] = n]
        /\ \/ /\ new > old
              /\ \E cs \in FreeRuns(fat, new - old) :
                    /\ fat' = [c \in Ids |-> IF c \in Clusters(cs) THEN EndMark ELSE fat[c]]
                    /\ chain' = [chain EXCEPT ![f] = @ \o cs]
                    /\ disk' = ZeroFilled(fat', chain[f] \o cs, size[f], n)
           \/ /\ new < old
              /\ fat' = AfterFree(fat, {chain[f][k] : k \in (new + 1)..old})
              /\ chain' = [chain EXCEPT ![f] = SubSeq(@, 1, new)]
              /\ UNCHANGED disk
           \/ new = old /\ UNCHANGED <<fat, chain, disk>>
        /\ UNCHANGED <<live, dead>>

\* FATFile::create, the object: one cluster, size 0.
FatCreate(f) ==
    /\ ~live[f] /\ ~IsFull(fat)
    /\ fat' = AfterAlloc(fat)
    /\ chain' = [chain EXCEPT ![f] = <<FirstFree(fat)>>]
    /\ size' = [size EXCEPT ![f] = 0]
    /\ live' = [live EXCEPT ![f] = TRUE]
    /\ UNCHANGED <<disk, dead>>

\* SyncAttrFile is dropped after mark_deleted: FATFile::delete, free_all.
FatDelete(f) ==
    /\ live[f]
    /\ fat' = AfterFree(fat, Clusters(chain[f]))
    /\ live' = [live EXCEPT ![f] = FALSE]
    /\ chain' = [chain EXCEPT ![f] = <<>>]
    /\ UNCHANGED <<disk, size, dead>>

Lesser(a, b) == IF a <= b THEN a ELSE b

\* read_page_at: the sectors it reads for n bytes of the file from off on.
ReadSectors(f, off, n) ==
    Walk(fat, SectorAt(chain[f], off \div Block), (Lesser(n, size[f] - off) + Block - 1) \div Block)
ReadPanics(f, off, n) ==
    /\ off < size[f]
    /\ \/ off \div ClusterBytes >= Len(chain[f])
       \/ SectorAt(chain[f], off \div Block) < 0
       \/ \E s \in Clusters(ReadSectors(f, off, n)) : NextSector(fat, s) = BadSector
ReadBytes(f, off, n) ==
    LET w == ReadSectors(f, off, n)
        m == Lesser(Lesser(n, size[f] - off), Len(w) * Block)
    IN  IF off >= size[f] THEN <<>>
        ELSE [k \in 1..m |-> disk[w[(k - 1) \div Block + 1]][(k - 1) % Block]]

\* No cluster is in the chains of two files, or twice in one, and every cluster
\* of a chain is taken in the table: alloc never hands out a cluster that a
\* file still holds, whatever truncate, delete and create do in between.  The
\* entries 0 and 1 are not clusters, though files that are empty on the disk
\* share the chain <<0>>.
NoSharedCluster ==
    \A f, g \in Files : \A j \in 1..Len(chain[f]), k \in 1..Len(chain[g]) :
        chain[f][j] >= 2 =>
            /\ chain[f][j] = chain[g][k] => f = g /\ j = k
            /\ fat[chain[f][j]] # FreeMark
=============================================================================
