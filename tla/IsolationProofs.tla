---------------------------- MODULE IsolationProofs ---------------------------
(*****************************************************************************)
(* What a process reads, for any number of processes, frames and segments:   *)
(* a writable page is nobody else's, an attached page shows its segment, and *)
(* the address spaces implement AddressSpaces, where every process has its   *)
(* own pages and shares those of segments only (memory/pagetable,            *)
(* process/user_space, syscall/memory.rs).  At its end come the theorems     *)
(* about the memory of the processes, from all three modules.                *)
(*****************************************************************************)
EXTENDS FrameProofs

-------------------------------------------------------------------------------
(* Copy on write. *)

\* A page outside the share region that a running process may write is mapped
\* once; no page outside that region shows a frame of a segment.
Exclusive ==
    /\ \A p \in Running, v \in Pages : pte[p][v].w /\ ~InShare(v) =>
           \A q \in Running, u \in Pages : pte[q][u].frame = pte[p][v].frame => q = p /\ u = v
    /\ \A p \in Running, v \in Pages, s \in Segs :
           Valid(pte[p][v]) /\ ~InShare(v) => segFrame[s] # pte[p][v].frame

\* A step that changes an entry or a segment only by taking it away.
TakesAway ==
    /\ Running' \subseteq Running
    /\ \A q \in Procs, u \in Pages : pte'[q][u] = pte[q][u] \/ pte'[q][u] = Invalid
    /\ \A s \in Segs : segFrame'[s] = segFrame[s] \/ segFrame'[s] = NoFrame

\* An entry that is not valid has no frame and no permission.
LEMMA InvalidEntry == Invalid.frame = NoFrame /\ ~Invalid.w /\ ~Invalid.shared /\ ~Valid(Invalid)
BY DEF Invalid, Entry, Valid

\* An entry that may be written is valid.
LEMMA WritableValid ==
    ASSUME MemType, NEW p \in Procs, NEW v \in Pages
    PROVE  /\ pte[p][v].w => Valid(pte[p][v])
           /\ Valid(pte[p][v]) => pte[p][v].frame \in Frames
<1>1. IsEntry(pte[p][v])
  BY DEF MemType
<1> QED BY <1>1, InvalidEntry, Names DEF IsEntry, Valid

\* A step that only takes entries and segments away shares nothing new.
LEMMA AwayExclusive ==
    ASSUME MemType, Exclusive, TakesAway
    PROVE  Exclusive'
<1>1. Running' \subseteq Running /\ Running \subseteq Procs
  BY DEF TakesAway, Running
<1>2. ASSUME NEW p \in Running', NEW v \in Pages, pte'[p][v].w, ~InShare(v),
             NEW q \in Running', NEW u \in Pages, pte'[q][u].frame = pte'[p][v].frame
      PROVE  q = p /\ u = v
  <2>1. p \in Running /\ q \in Running /\ p \in Procs /\ q \in Procs
    BY <1>1
  <2>2. pte'[p][v] = pte[p][v]
    BY <1>2, <2>1, InvalidEntry DEF TakesAway
  <2>3. pte'[p][v].frame # NoFrame
    BY <1>2, <2>1, <2>2, WritableValid DEF Valid
  <2>4. pte'[q][u] = pte[q][u]
    BY <1>2, <2>1, <2>3, InvalidEntry DEF TakesAway
  <2> QED BY <1>2, <2>1, <2>2, <2>4 DEF Exclusive
<1>3. ASSUME NEW p \in Running', NEW v \in Pages, NEW s \in Segs, Valid(pte'[p][v]), ~InShare(v)
      PROVE  segFrame'[s] # pte'[p][v].frame
  <2>1. p \in Running /\ p \in Procs
    BY <1>1
  <2>2. pte'[p][v] = pte[p][v]
    BY <1>3, <2>1, InvalidEntry, ZenonT(30) DEF TakesAway
  <2>3. segFrame[s] # pte[p][v].frame /\ pte[p][v].frame # NoFrame
    BY <1>3, <2>1, <2>2 DEF Exclusive, Valid
  <2>4. segFrame'[s] = segFrame[s] \/ segFrame'[s] = NoFrame
    BY DEF TakesAway
  <2> QED BY <2>2, <2>3, <2>4
<1> QED BY <1>2, <1>3 DEF Exclusive, InShare

\* A new frame is nobody else's.
LEMMA NewPageExclusive ==
    ASSUME SetFacts, MemType, CountInv, Exclusive, panic = "no", NEW p \in Running, NEW v \in Pages,
           NEW g \in Frames, NEW w, NEW content, NewPage(p, v, g, w, content)
    PROVE  Exclusive'
<1>1. /\ DOMAIN pte' = Procs /\ \A q \in Procs : DOMAIN pte'[q] = Pages
      /\ pte'[p][v] = Entry(g, w, FALSE) /\ pte'[p][v].frame = g
      /\ \A q \in Procs, u \in Pages : q # p \/ u # v => pte'[q][u] = pte[q][u]
      /\ pte[p][v].frame # g /\ p \in Procs /\ life[p] = "run"
      /\ Running' = Running /\ \A f : SegsOn(f)' = SegsOn(f)
  BY NewPageEntries, Zenon
<1>2. g \notin allocated /\ segFrame' = segFrame
  BY DEF NewPage, shm
<1>3. /\ \A q \in Running, u \in Pages : pte[q][u].frame # g
      /\ \A s \in Segs : segFrame[s] # g
  BY <1>2, FreshFrame
<1>4. \A q \in Running, u \in Pages : q # p \/ u # v => pte'[q][u] = pte[q][u] /\ pte'[q][u].frame # g
  BY <1>1, <1>3, RunningProcs
<1>5. \A q \in Running, u \in Pages : pte'[q][u].w /\ ~InShare(u) =>
          \A r \in Running, x \in Pages : pte'[r][x].frame = pte'[q][u].frame => r = q /\ x = u
  <2> SUFFICES ASSUME NEW q \in Running, NEW u \in Pages, pte'[q][u].w, ~InShare(u),
                      NEW r \in Running, NEW x \in Pages, pte'[r][x].frame = pte'[q][u].frame
               PROVE  r = q /\ x = u
    OBVIOUS
  <2>1. CASE q = p /\ u = v
    BY <1>1, <1>4, <2>1, Zenon
  <2>2. CASE q # p \/ u # v
    <3>1. pte'[q][u] = pte[q][u] /\ pte'[q][u].frame # g
      BY <1>4, <2>2
    <3>2. r # p \/ x # v
      BY <1>1, <3>1, Zenon
    <3>3. pte'[r][x] = pte[r][x]
      BY <1>4, <3>2, ZenonT(30)
    <3> QED BY <3>1, <3>3, SMTT(30) DEF Exclusive
  <2> QED BY <2>1, <2>2
<1>6. \A q \in Running, u \in Pages, s \in Segs :
          Valid(pte'[q][u]) /\ ~InShare(u) => segFrame[s] # pte'[q][u].frame
  <2> SUFFICES ASSUME NEW q \in Running, NEW u \in Pages, NEW s \in Segs, Valid(pte'[q][u]), ~InShare(u)
               PROVE  segFrame[s] # pte'[q][u].frame
    OBVIOUS
  <2>1. CASE q = p /\ u = v
    BY <1>1, <1>3, <2>1, Zenon
  <2>2. CASE q # p \/ u # v
    BY <1>4, <2>2, SMTT(30) DEF Exclusive
  <2> QED BY <2>1, <2>2
<1> QED BY <1>1, <1>2, <1>5, <1>6 DEF Exclusive, Valid, InShare

\* A process alone with its frame may write it.
LEMMA ReuseExclusive ==
    ASSUME SetFacts, MemType, CountInv, Exclusive, panic = "no", NEW p \in Running, NEW v \in Pages,
           NEW w, Reuses(p, v, w)
    PROVE  Exclusive'
<1>0. p \in Procs
  BY DEF Running
<1>1. /\ pte' = [pte EXCEPT ![p][v] = Entry(pte[p][v].frame, w, FALSE)]
      /\ Valid(pte[p][v]) /\ rc[pte[p][v].frame] <= 1 /\ segFrame' = segFrame /\ Running' = Running
  BY DEF Reuses, phys, shm, Running
<1>2. /\ pte'[p][v] = Entry(pte[p][v].frame, w, FALSE)
      /\ \A q \in Procs, u \in Pages : q # p \/ u # v => pte'[q][u] = pte[q][u]
  BY <1>0, <1>1, Zenon DEF MemType
<1>3. pte'[p][v].frame = pte[p][v].frame
  BY <1>2 DEF Entry
<1>4. \A q \in Procs, u \in Pages : pte'[q][u].frame = pte[q][u].frame
  BY <1>2, <1>3, Zenon
<1>5. pte[p][v].frame \in Frames
  BY <1>0, <1>1, WritableValid
<1>6. \A q \in Running, u \in Pages : pte[q][u].frame = pte[p][v].frame => q = p /\ u = v
  <2>1. PICK f \in Frames : f = pte[p][v].frame
    BY <1>5
  <2>2. \A q \in Running, u \in Pages : pte[q][u].frame = f => q = p /\ u = v
    BY <1>1, <2>1, SoleUser
  <2> QED BY <2>1, <2>2
<1>7. \A q \in Running, u \in Pages : pte'[q][u].w /\ ~InShare(u) =>
          \A r \in Running, x \in Pages : pte'[r][x].frame = pte'[q][u].frame => r = q /\ x = u
  <2> SUFFICES ASSUME NEW q \in Running, NEW u \in Pages, pte'[q][u].w, ~InShare(u),
                      NEW r \in Running, NEW x \in Pages, pte'[r][x].frame = pte'[q][u].frame
               PROVE  r = q /\ x = u
    OBVIOUS
  <2>0. q \in Procs /\ r \in Procs
    BY DEF Running
  <2>1. pte[r][x].frame = pte[q][u].frame
    BY <1>4, <2>0
  <2>2. CASE q = p /\ u = v
    BY <1>6, <2>1, <2>2
  <2>3. CASE q # p \/ u # v
    <3>1. pte[q][u].w
      BY <1>2, <2>0, <2>3, ZenonT(30)
    <3> QED BY <2>1, <3>1 DEF Exclusive
  <2> QED BY <2>2, <2>3
<1>8. \A q \in Running, u \in Pages, s \in Segs :
          Valid(pte'[q][u]) /\ ~InShare(u) => segFrame[s] # pte'[q][u].frame
  BY <1>4, RunningProcs DEF Exclusive, Valid
<1>9. segFrame' = segFrame /\ Running' = Running
  BY <1>1
<1> QED BY <1>7, <1>8, <1>9 DEF Exclusive, Valid, InShare

\* clone_cow makes both copies of a page read only.
LEMMA ForkExclusive ==
    ASSUME MemType, Exclusive, NEW p \in Procs, NEW q \in Procs, Fork(p, q)
    PROVE  Exclusive'
<1>1. /\ NextType /\ p # q /\ p \in Running /\ q \notin Running
      /\ Running' = Running \cup {q}
      /\ \A u \in Pages : pte[q][u].frame = NoFrame
      /\ \A u \in Pages : pte'[q][u] = CowEntry(pte[p][u], u) /\ pte'[p][u] = CowEntry(pte[p][u], u)
      /\ \A r \in Procs \ {p, q}, u \in Pages : pte'[r][u] = pte[r][u]
      /\ \A u \in Pages : pte'[q][u].frame = pte[p][u].frame
      /\ \A r \in Procs \ {q}, u \in Pages : pte'[r][u].frame = pte[r][u].frame
  BY ForkEntries
<1>2. segFrame' = segFrame
  BY DEF Fork, shm
<1>3. \A e, u : ~InShare(u) /\ CowEntry(e, u).w => CowEntry(e, u) = e /\ ~Valid(e)
  BY DEF CowEntry, Entry
<1>4. ASSUME NEW r \in Running \cup {q}, NEW u \in Pages
      PROVE  \E s \in Running : pte'[r][u].frame = pte[s][u].frame /\ (r # q => s = r) /\ (r = q => s = p)
  BY <1>1, RunningProcs
<1>5. ASSUME NEW r \in Running \cup {q}, NEW u \in Pages, pte'[r][u].w, ~InShare(u)
      PROVE  r # p /\ r # q /\ r \in Running /\ pte'[r][u] = pte[r][u]
  <2>1. ~(r \in {p, q})
    <3>1. p \in Procs /\ (pte[p][u].w => Valid(pte[p][u]))
      BY WritableValid
    <3>2. ~CowEntry(pte[p][u], u).w
      BY <1>3, <1>5, <3>1
    <3> QED BY <1>1, <1>5, <3>2
  <2> QED BY <1>1, <2>1, RunningProcs, ZenonT(30)
<1>6. ASSUME NEW r \in Running \cup {q}, NEW u \in Pages, pte'[r][u].w, ~InShare(u),
             NEW t \in Running \cup {q}, NEW x \in Pages, pte'[t][x].frame = pte'[r][u].frame
      PROVE  t = r /\ x = u
  <2>1. r # p /\ r # q /\ r \in Running /\ pte'[r][u] = pte[r][u]
    BY <1>5, <1>6
  <2>2. PICK s \in Running : pte'[t][x].frame = pte[s][x].frame /\ (t # q => s = t) /\ (t = q => s = p)
    BY <1>4, ZenonT(30)
  <2>3. s = r /\ x = u
    BY <1>6, <2>1, <2>2, SMTT(30) DEF Exclusive
  <2> QED BY <2>1, <2>2, <2>3
<1>7. ASSUME NEW r \in Running \cup {q}, NEW u \in Pages, NEW s \in Segs, Valid(pte'[r][u]), ~InShare(u)
      PROVE  segFrame[s] # pte'[r][u].frame
  <2>1. PICK t \in Running : pte'[r][u].frame = pte[t][u].frame
    BY <1>4, ZenonT(30)
  <2> QED BY <1>7, <2>1 DEF Exclusive, Valid
<1> QED BY <1>1, <1>2, <1>6, <1>7, SMTT(30) DEF Exclusive, Valid, InShare

\* A segment is attached in the share region only.
LEMMA AttachExclusive ==
    ASSUME MemType, CountInv, Exclusive, NEW p \in Running, NEW s \in Segs, NEW a \in Pages, InShare(a),
           NEW w, Attaches(p, s, a, w)
    PROVE  Exclusive'
<1>1. /\ NextType /\ Running' = Running /\ p \in Procs
      /\ segFrame[s] \in Frames
      /\ pte[p][a].frame = NoFrame /\ pte'[p][a] = Entry(segFrame[s], w, FALSE)
      /\ pte'[p][a].frame = segFrame[s]
      /\ \A q \in Procs, u \in Pages : q # p \/ u # a => pte'[q][u] = pte[q][u]
  BY AttachEntries, ZenonT(30)
<1>2. segFrame' = segFrame
  BY DEF Attaches, shm
<1>3. \A q \in Running, u \in Pages : q # p \/ u # a => pte'[q][u] = pte[q][u]
  BY <1>1, RunningProcs
<1>4. ASSUME NEW q \in Running, NEW u \in Pages, pte'[q][u].w, ~InShare(u),
             NEW r \in Running, NEW x \in Pages, pte'[r][x].frame = pte'[q][u].frame
      PROVE  r = q /\ x = u
  <2>1. pte'[q][u] = pte[q][u]
    BY <1>3, <1>4, ZenonT(30)
  <2>2. segFrame[s] # pte[q][u].frame
    <3>1. Valid(pte[q][u])
      BY <1>4, <2>1, WritableValid, RunningProcs, ZenonT(30)
    <3> QED BY <1>4, <3>1, ZenonT(30) DEF Exclusive
  <2>3. pte'[r][x] = pte[r][x]
    BY <1>1, <1>3, <1>4, <2>1, <2>2, ZenonT(30)
  <2> QED BY <1>4, <2>1, <2>3, SMTT(30) DEF Exclusive
<1>5. ASSUME NEW q \in Running, NEW u \in Pages, NEW t \in Segs, Valid(pte'[q][u]), ~InShare(u)
      PROVE  segFrame[t] # pte'[q][u].frame
  BY <1>3, <1>5, SMTT(30) DEF Exclusive
<1> QED BY <1>1, <1>2, <1>4, <1>5, SMTT(30) DEF Exclusive, Valid, InShare

\* The frame of a new segment is mapped by nobody.
LEMMA CreateExclusive ==
    ASSUME SetFacts, MemType, CountInv, Exclusive, panic = "no", NEW p \in Running, NEW s \in Segs,
           NEW g \in Frames, NEW private, Creates(p, s, g, private)
    PROVE  Exclusive'
<1>1. /\ segFrame' = [segFrame EXCEPT ![s] = g] /\ g \notin allocated
      /\ pte' = pte /\ Running' = Running
  BY ZenonT(30) DEF Creates, space, Running
<1>2. \A q \in Running, u \in Pages : pte[q][u].frame # g
  BY <1>1, FreshFrame, ZenonT(30)
<1>3. \A t \in Segs : segFrame'[t] = g \/ segFrame'[t] = segFrame[t]
  BY <1>1 DEF MemType
<1>4. pte' = pte /\ Running' = Running
  BY <1>1
<1> QED BY <1>2, <1>3, <1>4, SMTT(30) DEF Exclusive, Valid, InShare

\* Every release takes away.
LEMMA ReleaseTakes ==
    ASSUME MemType, NEW p \in Procs, NEW S \in SUBSET Pages, NEW as, NEW ts, SubTables(ts),
           Releases(p, S, as, ts)
    PROVE  TakesAway
<1>1. /\ NextType /\ Running' = Running
      /\ \A u \in Pages : pte'[p][u] = IF u \in S THEN Invalid ELSE pte[p][u]
      /\ \A q \in Procs \ {p}, u \in Pages : pte'[q][u] = pte[q][u]
  BY ReleaseEntries, Zenon DEF SubTables
<1>2. segFrame' = [s \in Segs |-> IF s \in Orphans(as, ts) THEN NoFrame ELSE segFrame[s]]
  BY DEF Releases
<1>3. \A s \in Segs : segFrame'[s] = segFrame[s] \/ segFrame'[s] = NoFrame
  BY <1>2, Zenon
<1> QED BY <1>1, <1>3 DEF TakesAway

\* So does a step that leaves entries and segments alone.
LEMMA QuietTakes ==
    ASSUME MemType, NEW p \in Procs, pte' = pte, segFrame' = segFrame,
           life' = life \/ life' = [life EXCEPT ![p] = "dead"]
    PROVE  TakesAway
<1>1. Running' \subseteq Running
  BY DEF Running, MemType
<1> QED BY <1>1 DEF TakesAway

\* Faults, stores, forks, execs and exits share no writable page.
LEMMA StepExclusive ==
    ASSUME SetFacts, MemType, CountInv, Exclusive, panic = "no", NEW p \in Running, StepShape(p)
    PROVE  Exclusive'
<1>0. p \in Procs
  BY DEF Running
<1>1. CASE Still(p)
  BY <1>0, <1>1, QuietTakes, AwayExclusive, ZenonT(30) DEF Still
<1>2. CASE Stops \/ Ends(p)
  BY <1>1, <1>2, StopsStill, EndsStill, ZenonT(30)
<1>3. ASSUME NEW v \in Pages, FaultShape(p, v)  PROVE Exclusive'
  <2>1. ASSUME NEW g \in Frames, NEW n, Fills(p, v, n, g)  PROVE Exclusive'
    BY <2>1, NewPageExclusive, ZenonT(30) DEF Fills
  <2>2. ASSUME NEW g \in Frames, NEW w, CopiesTo(p, v, g, w)  PROVE Exclusive'
    BY <2>2, NewPageExclusive DEF CopiesTo
  <2>3. ASSUME NEW w, Reuses(p, v, w)  PROVE Exclusive'
    BY <2>3, ReuseExclusive, ZenonT(30)
  <2>4. CASE LosesRef(p, v, pte[p][v].frame)
    <3>1. pte' = pte /\ segFrame' = segFrame /\ (life' = life \/ life' = [life EXCEPT ![p] = "dead"])
      BY <2>4, ZenonT(30) DEF LosesRef, shm
    <3> QED BY <1>0, <3>1, QuietTakes, AwayExclusive, ZenonT(30)
  <2> QED BY <1>2, <1>3, <2>1, <2>2, <2>3, <2>4, ZenonT(30) DEF FaultShape
<1>4. ASSUME NEW v \in Pages, Store(p, v)  PROVE Exclusive'
  <2>1. pte' = pte /\ segFrame' = segFrame /\ life' = life
    BY <1>4 DEF Store, space, shm
  <2> QED BY <1>0, <2>1, QuietTakes, AwayExclusive, ZenonT(30)
<1>5. ASSUME NEW q \in Procs, Fork(p, q)  PROVE Exclusive'
  BY <1>0, <1>5, ForkExclusive, ZenonT(30)
<1>6. CASE Renews(p)
  <2>1. TakesAway
    BY <1>0, <1>6, PageSets, TablesShrink, ReleaseTakes, ZenonT(30) DEF Renews
  <2> QED BY <2>1, AwayExclusive
<1> QED BY <1>2, <1>3, <1>4, <1>5, <1>6, ZenonT(30) DEF StepShape

\* The system calls on memory share no writable page.
LEMMA CallExclusive ==
    ASSUME SetFacts, MemType, CountInv, Exclusive, panic = "no", NEW p \in Running, CallShape(p)
    PROVE  Exclusive'
<1>0. p \in Procs
  BY DEF Running
<1>1. CASE pte' = pte /\ segFrame' = segFrame /\ life' = life
  BY <1>0, <1>1, QuietTakes, AwayExclusive, ZenonT(30)
<1>2. CASE Stops
  BY <1>1, <1>2 DEF Stops, Panic, space, shm
<1>3. ASSUME NEW K, Moves(p, K)  PROVE Exclusive'
  BY <1>1, <1>3, ZenonT(30) DEF Moves, shm
<1>4. ASSUME NEW S, NEW K, NEW ts, Drops(p, S, K, ts)  PROVE Exclusive'
  <2>1. TakesAway
    BY <1>0, <1>4, ReleaseTakes, ZenonT(30) DEF Drops
  <2> QED BY <2>1, AwayExclusive
<1>5. ASSUME NEW s \in Segs, Finds(p, s)  PROVE Exclusive'
  BY <1>1, <1>5 DEF Finds, space
<1>6. ASSUME NEW s \in Segs, NEW g \in Frames, NEW private, Creates(p, s, g, private)
      PROVE  Exclusive'
  BY <1>6, CreateExclusive
<1>7. ASSUME NEW s \in Segs, NEW a \in Pages, InShare(a), NEW w, Attaches(p, s, a, w)  PROVE Exclusive'
  BY <1>7, AttachExclusive
<1> QED BY <1>2, <1>3, <1>4, <1>5, <1>6, <1>7, ZenonT(30) DEF CallShape

-------------------------------------------------------------------------------
(* Shared segments. *)

\* The areas M and the page table t of a process show the segments, which own
\* the frames sf: the page of an area of a segment is mapped to its frame, and
\* no other page of the share region is mapped or copied on write.
Shows(M, t, sf) ==
    /\ \A n \in M : n.kind \in Segs => sf[n.kind] # NoFrame /\ t[n.start].frame = sf[n.kind]
    /\ \A v \in Pages : InShare(v) =>
           ~t[v].shared /\ (Valid(t[v]) => \E n \in M : n.kind \in Segs /\ n.start = v)
ShareInv == \A p \in Procs : Shows(areas[p], pte[p], segFrame)

\* Two tables that agree in the share region; frames that agree on the segments
\* of a map.
SameShare(t, t2) == \A u \in Pages : InShare(u) => t2[u] = t[u]
SameFrames(M, sf, sf2) == \A n \in M : n.kind \in Segs => sf2[n.kind] = sf[n.kind]

\* The area of a segment is one page of the share region.
LEMMA SegmentPage ==
    ASSUME NEW M, IsMap(M), AllPlaced(M), NEW n \in M, n.kind \in Segs
    PROVE  n.start \in Pages /\ InShare(n.start) /\ n.start \in Int /\ n.end = n.start + 1
BY Layout, SMTT(30) DEF IsMap, IsNode, AllPlaced, Placed, InShare, Pages

\* Tables that agree on the share region show the same segments.
LEMMA ShowsSame ==
    ASSUME NEW M, IsMap(M), AllPlaced(M), NEW t, NEW t2, NEW sf, NEW sf2, Shows(M, t, sf),
           SameShare(t, t2), SameFrames(M, sf, sf2)
    PROVE  Shows(M, t2, sf2)
<1>1. ASSUME NEW n \in M, n.kind \in Segs
      PROVE  sf2[n.kind] # NoFrame /\ t2[n.start].frame = sf2[n.kind]
  <2>1. n.start \in Pages /\ InShare(n.start)
    BY <1>1, SegmentPage, ZenonT(30)
  <2>2. sf[n.kind] # NoFrame /\ t[n.start].frame = sf[n.kind]
    BY <1>1, ZenonT(30) DEF Shows
  <2> QED BY <1>1, <2>1, <2>2 DEF SameShare, SameFrames
<1>2. ASSUME NEW v \in Pages, InShare(v)
      PROVE  ~t2[v].shared /\ (Valid(t2[v]) => \E n \in M : n.kind \in Segs /\ n.start = v)
  BY <1>2, ZenonT(30) DEF Shows, SameShare
<1> QED BY <1>1, <1>2, ZenonT(30) DEF Shows

\* Pages are released and areas dropped.
LEMMA ShowsLess ==
    ASSUME NEW M, NEW K, NEW S, NEW t, NEW t2, NEW sf, NEW sf2, Shows(M, t, sf), IsMap(M), AllPlaced(M),
           Releasing(M, K, S), SameFrames(K, sf, sf2),
           \A u \in Pages : t2[u] = IF u \in S THEN Invalid ELSE t[u]
    PROVE  Shows(K, t2, sf2)
<1>1. ASSUME NEW n \in K, n.kind \in Segs
      PROVE  sf2[n.kind] # NoFrame /\ t2[n.start].frame = sf2[n.kind]
  <2>1. n \in M /\ n.start \notin S
    BY <1>1, ZenonT(30) DEF Releasing
  <2>2. n.start \in Pages
    BY <1>1, <2>1, SegmentPage, ZenonT(30)
  <2>3. sf[n.kind] # NoFrame /\ t[n.start].frame = sf[n.kind]
    BY <1>1, <2>1, ZenonT(30) DEF Shows
  <2> QED BY <1>1, <2>1, <2>2, <2>3, ZenonT(30) DEF SameFrames
<1>2. ASSUME NEW v \in Pages, InShare(v)
      PROVE  ~t2[v].shared /\ (Valid(t2[v]) => \E n \in K : n.kind \in Segs /\ n.start = v)
  <2>1. CASE v \in S
    BY <2>1, InvalidEntry, ZenonT(30)
  <2>2. CASE v \notin S
    <3>1. t2[v] = t[v]
      BY <2>2
    <3> QED BY <1>2, <2>2, <3>1, SMTT(30) DEF Shows, Releasing
  <2> QED BY <2>1, <2>2, ZenonT(30)
<1> QED BY <1>1, <1>2, ZenonT(30) DEF Shows

\* A segment is attached at a page that was free.
LEMMA ShowsMore ==
    ASSUME NEW M, IsMap(M), AllPlaced(M), NEW t, NEW t2, NEW sf, Shows(M, t, sf),
           NEW s \in Segs, NEW a \in Pages, InShare(a), NEW w, sf[s] # NoFrame, ~Valid(t[a]),
           t2[a] = Entry(sf[s], w, FALSE), \A u \in Pages : u # a => t2[u] = t[u]
    PROVE  Shows(M \cup {Node(a, a + 1, s, w, 0)}, t2, sf)
<1> DEFINE r == Node(a, a + 1, s, w, 0)
<1>1. r.kind = s /\ r.start = a /\ t2[a].frame = sf[s] /\ ~t2[a].shared
  BY SMTT(30) DEF Node, Entry
<1> HIDE DEF r
<1>2. ASSUME NEW n \in M \cup {r}, n.kind \in Segs
      PROVE  sf[n.kind] # NoFrame /\ t2[n.start].frame = sf[n.kind]
  <2>1. CASE n = r
    BY <1>1, <2>1, ZenonT(30)
  <2>2. CASE n \in M
    <3>1. n.start \in Pages /\ sf[n.kind] # NoFrame /\ t[n.start].frame = sf[n.kind]
      BY <1>2, <2>2, SegmentPage, ZenonT(30) DEF Shows
    <3>2. n.start # a
      BY <3>1, ZenonT(30) DEF Valid
    <3> QED BY <3>1, <3>2, ZenonT(30)
  <2> QED BY <1>2, <2>1, <2>2, ZenonT(30)
<1>3. ASSUME NEW v \in Pages, InShare(v)
      PROVE  ~t2[v].shared /\ (Valid(t2[v]) => \E n \in M \cup {r} : n.kind \in Segs /\ n.start = v)
  <2>1. CASE v = a
    BY <1>1, <2>1, ZenonT(30)
  <2>2. CASE v # a
    <3>1. t2[v] = t[v]
      BY <2>2, ZenonT(30)
    <3> QED BY <1>3, <3>1, ZenonT(30) DEF Shows
  <2> QED BY <2>1, <2>2, SMTT(30)
<1>4. Shows(M \cup {r}, t2, sf)
  BY <1>2, <1>3 DEF Shows
<1> QED BY <1>4, ZenonT(30) DEF r

\* What the areas and tables of one process show after a step.
LEMMA ShareOf ==
    ASSUME PlacedInv, NEW p \in Procs
    PROVE  IsMap(areas[p]) /\ AllPlaced(areas[p])
BY DEF PlacedInv, MapsInv

\* A step that leaves the areas, the share region and the segments alone.
LEMMA ShareKept ==
    ASSUME PlacedInv, ShareInv, areas' = areas, segFrame' = segFrame,
           \A p \in Procs : SameShare(pte[p], pte'[p])
    PROVE  ShareInv'
<1>1. ASSUME NEW p \in Procs  PROVE Shows(areas[p], pte'[p], segFrame)
  <2>1. SameFrames(areas[p], segFrame, segFrame)
    BY DEF SameFrames
  <2>2. Shows(areas[p], pte[p], segFrame) /\ SameShare(pte[p], pte'[p])
    BY DEF ShareInv
  <2> QED BY <2>1, <2>2, ShareOf, ShowsSame, ZenonT(30)
<1> QED BY <1>1, ZenonT(30) DEF ShareInv, Shows, Valid, InShare

\* A segment that is in use is not dropped.
LEMMA HeldFrames ==
    ASSUME NEW p, NEW S, NEW as, NEW ts, Releases(p, S, as, ts), NEW q \in Procs
    PROVE  SameFrames(as[q], segFrame, segFrame')
BY Zenon DEF SameFrames, Releases, Orphans, Held

\* A page fault changes no entry of the share region: lazy areas lie below it,
\* and no entry in it is copied on write.
LEMMA FaultShare ==
    ASSUME PlacedInv, MemType, CountInv, ShareInv, panic = "no", NEW p \in Running, NEW v \in Pages,
           FaultShape(p, v)
    PROVE  ShareInv'
<1>0. p \in Procs /\ v \in Int
  BY Layout, SMTT(30) DEF Running, Pages
<1>1. ASSUME ~InShare(v), areas' = areas, segFrame' = segFrame,
             \A q \in Procs, u \in Pages : q # p \/ u # v => pte'[q][u] = pte[q][u]
      PROVE  ShareInv'
  <2>1. \A q \in Procs : SameShare(pte[q], pte'[q])
    BY <1>1, ZenonT(30) DEF SameShare
  <2> QED BY <1>1, <2>1, ShareKept, ZenonT(30)
<1>2. ASSUME pte[p][v].shared  PROVE ~InShare(v)
  BY <1>0, <1>2, ZenonT(30) DEF ShareInv, Shows
<1>3. ASSUME ~InShare(v), NEW g \in Frames, NEW w, NEW content, NewPage(p, v, g, w, content)
      PROVE  ShareInv'
  <2>1. \A q \in Procs, u \in Pages : q # p \/ u # v => pte'[q][u] = pte[q][u]
    <3>1. pte' = [pte EXCEPT ![p][v] = Entry(g, w, FALSE)]
      BY <1>3 DEF NewPage
    <3> QED BY <1>0, <3>1, ZenonT(30) DEF MemType
  <2>2. areas' = areas /\ segFrame' = segFrame
    BY <1>3 DEF NewPage, shm
  <2> QED BY <1>1, <1>3, <2>1, <2>2, ZenonT(30)
<1>4. ASSUME NEW g \in Frames, NEW n, Fills(p, v, n, g)  PROVE ShareInv'
  <2>1. n \in Get(areas[p], v) /\ n.kind \notin Segs /\ NewPage(p, v, g, n.w, LazyContent(n, v))
    BY <1>4, ZenonT(30) DEF Fills
  <2>2. n \in areas[p] /\ n.end \in Int /\ v < n.end
    BY <1>0, <2>1, AreaInPages, ZenonT(30)
  <2>3. n.end <= MmapEnd
    BY <1>0, <2>1, <2>2, ZenonT(30) DEF PlacedInv, AllPlaced, Placed
  <2>4. ~InShare(v)
    BY <1>0, <2>2, <2>3, Layout, SMTT(30) DEF InShare
  <2> QED BY <1>3, <2>1, <2>4, ZenonT(30)
<1>5. ASSUME NEW g \in Frames, NEW w, CopiesTo(p, v, g, w)  PROVE ShareInv'
  BY <1>2, <1>3, <1>5 DEF CopiesTo
<1>6. ASSUME NEW w, Reuses(p, v, w)  PROVE ShareInv'
  <2>1. pte[p][v].shared /\ pte' = [pte EXCEPT ![p][v] = Entry(pte[p][v].frame, w, FALSE)]
    BY <1>6 DEF Reuses
  <2>2. \A q \in Procs, u \in Pages : q # p \/ u # v => pte'[q][u] = pte[q][u]
    BY <1>0, <2>1, ZenonT(30) DEF MemType
  <2>3. areas' = areas /\ segFrame' = segFrame
    BY <1>6 DEF Reuses, shm
  <2> QED BY <1>1, <1>2, <2>1, <2>2, <2>3, Zenon
<1>7. ASSUME areas' = areas, pte' = pte, segFrame' = segFrame  PROVE ShareInv'
  BY <1>7, ShareKept DEF SameShare
<1>8. CASE LosesRef(p, v, pte[p][v].frame)
  BY <1>7, <1>8, Zenon DEF LosesRef, shm
<1>9. CASE Stops
  BY <1>7, <1>9, ZenonT(30) DEF Stops, Panic, space, shm
<1>10. CASE Ends(p)
  BY <1>7, <1>10, ZenonT(30) DEF Ends, Kill, space, shm
<1> QED BY <1>4, <1>5, <1>6, <1>8, <1>9, <1>10, ZenonT(30) DEF FaultShape

\* clone_cow: the child shows what its parent shows.
LEMMA ForkShare ==
    ASSUME PlacedInv, MemType, ShareInv, NEW p \in Procs, NEW q \in Procs, Fork(p, q)
    PROVE  ShareInv'
<1>1. /\ NextType /\ p # q /\ p \in Running /\ q \notin Running
      /\ Running' = Running \cup {q}
      /\ \A u \in Pages : pte[q][u].frame = NoFrame
      /\ \A u \in Pages : pte'[q][u] = CowEntry(pte[p][u], u) /\ pte'[p][u] = CowEntry(pte[p][u], u)
      /\ \A r \in Procs \ {p, q}, u \in Pages : pte'[r][u] = pte[r][u]
      /\ \A u \in Pages : pte'[q][u].frame = pte[p][u].frame
      /\ \A r \in Procs \ {q}, u \in Pages : pte'[r][u].frame = pte[r][u].frame
  BY ForkEntries
<1>2. areas' = [areas EXCEPT ![q] = areas[p]] /\ segFrame' = segFrame
  BY DEF Fork, shm
<1>3. \A e, u : InShare(u) => CowEntry(e, u) = e
  BY DEF CowEntry
<1>4. ASSUME NEW r \in Procs  PROVE Shows(areas'[r], pte'[r], segFrame)
  <2>1. PICK o \in Procs : o = IF r = q THEN p ELSE r
    OBVIOUS
  <2>2. areas'[r] = areas[o]
    BY <1>2, <2>1, ZenonT(30) DEF PlacedInv, MapsInv
  <2>3. SameShare(pte[o], pte'[r])
    BY <1>1, <1>3, <2>1, SMTT(30) DEF SameShare
  <2>4. SameFrames(areas[o], segFrame, segFrame)
    BY DEF SameFrames
  <2>5. Shows(areas[o], pte[o], segFrame)
    BY ZenonT(30) DEF ShareInv
  <2>6. Shows(areas[o], pte'[r], segFrame)
    BY <2>3, <2>4, <2>5, ShareOf, ShowsSame, ZenonT(30)
  <2> QED BY <2>2, <2>6
<1> QED BY <1>2, <1>4, ZenonT(30) DEF ShareInv, Shows, Valid, InShare

\* A process releases pages S and gets the map K.
LEMMA ReleaseShare ==
    ASSUME PlacedInv, MemType, ShareInv, NEW p \in Procs, NEW S \in SUBSET Pages, NEW K, NEW ts,
           SubTables(ts), Releases(p, S, [areas EXCEPT ![p] = K], ts),
           Shows(K, pte'[p], segFrame')
    PROVE  ShareInv'
<1>1. areas' = [areas EXCEPT ![p] = K]
  BY DEF Releases
<1>2. areas'[p] = K /\ \A q \in Procs \ {p} : areas'[q] = areas[q]
  BY <1>1, ZenonT(30) DEF PlacedInv, MapsInv
<1>3. ASSUME NEW q \in Procs \ {p}  PROVE Shows(areas[q], pte'[q], segFrame')
  <2>1. SameFrames(areas[q], segFrame, segFrame')
    BY <1>1, <1>2, HeldFrames, Zenon
  <2>2. SameShare(pte[q], pte'[q])
    BY ReleaseEntries, SMTT(30) DEF SubTables, SameShare
  <2>3. Shows(areas[q], pte[q], segFrame)
    BY DEF ShareInv
  <2> QED BY <2>1, <2>2, <2>3, ShareOf, ShowsSame, ZenonT(30)
<1>4. \A q \in Procs : Shows(areas'[q], pte'[q], segFrame')
  BY <1>2, <1>3, ZenonT(30)
<1> QED BY <1>4 DEF ShareInv, Shows, Valid, InShare

\* Faults, stores, forks, execs and exits keep attached pages on their
\* segments.
LEMMA StepShare ==
    ASSUME PlacedInv, MemType, CountInv, ShareInv, panic = "no", NEW p \in Running, StepShape(p)
    PROVE  ShareInv'
<1>0. p \in Procs
  BY DEF Running
<1>1. ASSUME areas' = areas, pte' = pte, segFrame' = segFrame  PROVE ShareInv'
  BY <1>1, ShareKept DEF SameShare
<1>2. CASE Stops
  BY <1>1, <1>2 DEF Stops, Panic, space, shm
<1>3. CASE Ends(p)
  BY <1>1, <1>3, ZenonT(30) DEF Ends, Kill, space, shm
<1>4. ASSUME NEW v \in Pages, FaultShape(p, v)  PROVE ShareInv'
  BY <1>4, FaultShare, ZenonT(30)
<1>5. ASSUME NEW v \in Pages, Store(p, v)  PROVE ShareInv'
  BY <1>1, <1>5, ZenonT(30) DEF Store, space, shm
<1>6. ASSUME NEW q \in Procs, Fork(p, q)  PROVE ShareInv'
  BY <1>0, <1>6, ForkShare, ZenonT(30)
<1>7. CASE Renews(p)
  <2>1. /\ \A v \in Pages \ AreaPages(p) : ~Valid(pte[p][v])
        /\ Releases(p, AreaPages(p), [areas EXCEPT ![p] = {Heap}], tables)
    BY <1>7 DEF Renews
  <2>2. AreaPages(p) \in SUBSET Pages /\ SubTables(tables)
    BY PageSets, TablesShrink, ZenonT(30)
  <2>3. \A u \in Pages : pte'[p][u] = IF u \in AreaPages(p) THEN Invalid ELSE pte[p][u]
    BY <1>0, <2>1, <2>2, ReleaseEntries, ZenonT(30) DEF SubTables
  <2>4. \A u \in Pages : pte'[p][u] = Invalid
    <3>1. \A u \in Pages : pte[p][u] = Invalid \/ Valid(pte[p][u])
      BY <1>0, Names, ZenonT(30) DEF MemType, IsEntry, Valid
    <3> QED BY <2>1, <2>3, <3>1, ZenonT(30)
  <2>5. Heap.kind \notin Segs
    BY Names, ZenonT(30) DEF Heap, Node
  <2>6. Shows({Heap}, pte'[p], segFrame')
    BY <2>4, <2>5, InvalidEntry, ZenonT(30) DEF Shows
  <2> QED BY <1>0, <2>1, <2>2, <2>6, ReleaseShare, ZenonT(30)
<1> QED BY <1>2, <1>3, <1>4, <1>5, <1>6, <1>7, ZenonT(30) DEF StepShape

\* The system calls on memory keep attached pages on their segments.
LEMMA CallShare ==
    ASSUME PlacedInv, MemType, CountInv, ShareInv, panic = "no", NEW p \in Running, CallShape(p)
    PROVE  ShareInv'
<1>0. p \in Procs
  BY DEF Running
<1>1. ASSUME areas' = areas, pte' = pte, segFrame' = segFrame  PROVE ShareInv'
  BY <1>1, ShareKept DEF SameShare
<1>2. CASE Stops
  BY <1>1, <1>2 DEF Stops, Panic, space, shm
<1>3. ASSUME NEW K, SameSegments(areas[p], K), Moves(p, K)  PROVE ShareInv'
  <2>1. areas' = [areas EXCEPT ![p] = K] /\ pte' = pte /\ segFrame' = segFrame
    BY <1>3 DEF Moves, shm
  <2>2. areas'[p] = K /\ \A q \in Procs \ {p} : areas'[q] = areas[q]
    BY <1>0, <2>1, ZenonT(30) DEF PlacedInv, MapsInv
  <2>3. Shows(areas[p], pte[p], segFrame)
    BY <1>0, ZenonT(30) DEF ShareInv
  <2>4. Shows(K, pte[p], segFrame)
    BY <1>3, <2>3, ZenonT(30) DEF Shows, SameSegments
  <2>5. \A q \in Procs : Shows(areas'[q], pte[q], segFrame)
    BY <2>2, <2>4 DEF ShareInv
  <2>6. pte' = pte /\ segFrame' = segFrame
    BY <2>1
  <2> QED BY <2>5, <2>6 DEF ShareInv, Shows, Valid, InShare
<1>4. ASSUME NEW S, NEW K, NEW ts, Drops(p, S, K, ts)  PROVE ShareInv'
  <2>1. /\ S \in SUBSET Pages /\ SubTables(ts) /\ Releasing(areas[p], K, S)
        /\ Releases(p, S, [areas EXCEPT ![p] = K], ts)
    BY <1>4, ZenonT(30) DEF Drops
  <2>2. \A u \in Pages : pte'[p][u] = IF u \in S THEN Invalid ELSE pte[p][u]
    BY <1>0, <2>1, ReleaseEntries, ZenonT(30) DEF SubTables
  <2>3. SameFrames(K, segFrame, segFrame')
    <3>1. [areas EXCEPT ![p] = K][p] = K
      BY <1>0, ZenonT(30) DEF PlacedInv, MapsInv
    <3> QED BY <1>0, <2>1, <3>1, HeldFrames, ZenonT(30)
  <2>4. Shows(areas[p], pte[p], segFrame) /\ IsMap(areas[p]) /\ AllPlaced(areas[p])
    BY <1>0, ShareOf, ZenonT(30) DEF ShareInv
  <2>5. Shows(K, pte'[p], segFrame')
    BY <2>1, <2>2, <2>3, <2>4, ShowsLess, ZenonT(30)
  <2> QED BY <1>0, <2>1, <2>5, ReleaseShare, ZenonT(30)
<1>5. ASSUME NEW s \in Segs, Finds(p, s)  PROVE ShareInv'
  BY <1>1, <1>5, ZenonT(30) DEF Finds, space
<1>6. ASSUME NEW s \in Segs, NEW g \in Frames, NEW private, Creates(p, s, g, private)
      PROVE  ShareInv'
  <2>1. segFrame[s] = NoFrame /\ segFrame' = [segFrame EXCEPT ![s] = g] /\ areas' = areas /\ pte' = pte
    BY <1>6, ZenonT(30) DEF Creates, space
  <2>2. \A t \in Segs : t # s => segFrame'[t] = segFrame[t]
    BY <2>1, ZenonT(30) DEF MemType
  <2>3. ASSUME NEW q \in Procs  PROVE Shows(areas[q], pte[q], segFrame')
    <3>1. SameFrames(areas[q], segFrame, segFrame')
      BY <2>1, <2>2, ZenonT(30) DEF SameFrames, ShareInv, Shows
    <3>2. Shows(areas[q], pte[q], segFrame) /\ SameShare(pte[q], pte[q])
      BY DEF ShareInv, SameShare
    <3> QED BY <3>1, <3>2, ShareOf, ShowsSame, ZenonT(30)
  <2>4. areas' = areas /\ pte' = pte
    BY <2>1, ZenonT(30)
  <2> QED BY <2>3, <2>4, ZenonT(30) DEF ShareInv, Shows, Valid, InShare
<1>7. ASSUME NEW s \in Segs, NEW a \in Pages, InShare(a), NEW w, Attaches(p, s, a, w)  PROVE ShareInv'
  <2>1. /\ NextType /\ Running' = Running /\ p \in Procs
        /\ segFrame[s] \in Frames
        /\ pte[p][a].frame = NoFrame /\ pte'[p][a] = Entry(segFrame[s], w, FALSE)
        /\ pte'[p][a].frame = segFrame[s]
        /\ \A q \in Procs, u \in Pages : q # p \/ u # a => pte'[q][u] = pte[q][u]
    BY <1>7, AttachEntries, ZenonT(30)
  <2>2. areas' = [areas EXCEPT ![p] = areas[p] \cup {Node(a, a + 1, s, w, 0)}] /\ segFrame' = segFrame
    BY <1>7 DEF Attaches, shm
  <2>3. areas'[p] = areas[p] \cup {Node(a, a + 1, s, w, 0)} /\ \A q \in Procs \ {p} : areas'[q] = areas[q]
    BY <1>0, <2>2, ZenonT(30) DEF PlacedInv, MapsInv
  <2>4. Shows(areas[p], pte[p], segFrame) /\ IsMap(areas[p]) /\ AllPlaced(areas[p])
    BY <1>0, ShareOf, ZenonT(30) DEF ShareInv
  <2>5. /\ segFrame[s] # NoFrame /\ ~Valid(pte[p][a])
        /\ \A u \in Pages : u # a => pte'[p][u] = pte[p][u]
    BY <1>0, <2>1, Names, ZenonT(30) DEF Valid
  <2>6. Shows(areas[p] \cup {Node(a, a + 1, s, w, 0)}, pte'[p], segFrame)
    BY <1>7, <2>1, <2>4, <2>5, ShowsMore, ZenonT(30)
  <2>7. ASSUME NEW q \in Procs \ {p}  PROVE Shows(areas[q], pte'[q], segFrame)
    <3>1. SameFrames(areas[q], segFrame, segFrame) /\ SameShare(pte[q], pte'[q])
      BY <2>1, ZenonT(30) DEF SameFrames, SameShare
    <3>2. Shows(areas[q], pte[q], segFrame)
      BY ZenonT(30) DEF ShareInv
    <3> QED BY <3>1, <3>2, ShareOf, ShowsSame, ZenonT(30)
  <2>8. \A q \in Procs : Shows(areas'[q], pte'[q], segFrame)
    BY <2>3, <2>6, <2>7, ZenonT(30)
  <2>9. segFrame' = segFrame
    BY <2>2, ZenonT(30)
  <2> QED BY <2>8, <2>9, ZenonT(30) DEF ShareInv, Shows, Valid, InShare
<1> QED BY <1>2, <1>3, <1>4, <1>5, <1>6, <1>7, ZenonT(30) DEF CallShape

-------------------------------------------------------------------------------
(* The whole invariant. *)

MemoryInv == FrameInv /\ Exclusive /\ ShareInv

\* The whole invariant at the start.
LEMMA MemoryInit ==
    ASSUME SetFacts, Init
    PROVE  MemoryInv
<1>1. /\ pte = [p \in Procs |-> [v \in Pages |-> Invalid]]
      /\ areas = [p \in Procs |-> IF p = First THEN {Heap} ELSE {}]
  BY DEF Init
<1>2. \A p \in Procs, v \in Pages : pte[p][v] = Invalid
  BY <1>1, ZenonT(30)
<1>3. Exclusive
  BY <1>2, InvalidEntry, RunningProcs, ZenonT(30) DEF Exclusive
<1>4. Heap.kind \notin Segs
  BY Names DEF Heap, Node
<1>5. \A p \in Procs : \A n \in areas[p] : n.kind \notin Segs
  BY <1>1, <1>4, ZenonT(30)
<1>6. ShareInv
  BY <1>2, <1>5, InvalidEntry, ZenonT(30) DEF ShareInv, Shows
<1> QED BY <1>3, <1>6, FrameInit, SMTT(30) DEF MemoryInv

\* Every step keeps the whole invariant.
LEMMA MemoryNext ==
    ASSUME SetFacts, MemoryInv, [Next]_vars
    PROVE  MemoryInv'
<1>0. FrameInv /\ PlacedInv /\ MemType /\ CountInv /\ Exclusive /\ ShareInv
  BY DEF MemoryInv, FrameInv
<1>1. ASSUME NEW p \in Procs, Call(p) \/ Step(p)  PROVE MemoryInv'
  <2>1. panic = "no" /\ p \in Running
    BY <1>1, StepRuns
  <2>2. CallShape(p) \/ StepShape(p)
    BY <1>0, <1>1, CallShapes, StepShapes, ZenonT(30)
  <2>3. Exclusive'
    BY <1>0, <2>1, <2>2, CallExclusive, StepExclusive, ZenonT(30)
  <2>4. ShareInv'
    BY <1>0, <2>1, <2>2, CallShare, StepShare, ZenonT(30)
  <2>5. FrameInv'
    BY <1>0, <1>1, FrameNext, ZenonT(30) DEF Next
  <2> QED BY <2>3, <2>4, <2>5, ZenonT(30) DEF MemoryInv
<1>2. CASE UNCHANGED vars
  <2>1. UNCHANGED <<areas, pte, life, segFrame>>
    BY <1>2, ZenonT(30) DEF vars, space, shm
  <2>2. Exclusive'
    BY <1>0, <2>1, SMTT(30) DEF Exclusive, Valid, InShare, Running
  <2>3. ShareInv'
    BY <1>0, <2>1, ZenonT(30) DEF ShareInv, Shows, Valid, InShare
  <2> QED BY <1>0, <1>2, <2>2, <2>3, FrameStutter, ZenonT(30) DEF MemoryInv
<1> QED BY <1>1, <1>2 DEF Next

-------------------------------------------------------------------------------
(* What a process reads. *)

\* What backs page v in the map M, and what is read there through the table t
\* when the frames hold m.
BackOf(M, v) ==
    LET S == {n \in M : Covers(n, v)} IN
    IF S = {} THEN <<"none", 0>>
    ELSE LET n == CHOOSE o \in S : TRUE
         IN <<n.kind, IF n.kind = "file" THEN n.off + (v - n.start) ELSE 0>>
Lazy(b) == IF b[1] = "anon" THEN Zero ELSE b
ReadOf(t, M, m, v) == IF Valid(t[v]) THEN m[t[v].frame] ELSE Lazy(BackOf(M, v))

\* What a process reads, and what backs it, before and after a step.
LEMMA ViewNow ==
    /\ \A p, v : Backing(p, v) = BackOf(areas[p], v) /\ Reads(p, v) = ReadOf(pte[p], areas[p], mem, v)
    /\ \A p, v : Backing(p, v)' = BackOf(areas'[p], v) /\ Reads(p, v)' = ReadOf(pte'[p], areas'[p], mem', v)
<1>1. \A p, v : Backing(p, v) = BackOf(areas[p], v)
  BY Zenon DEF Backing, BackOf
<1>2. \A p, v : Backing(p, v)' = BackOf(areas'[p], v)
  BY Zenon DEF Backing, BackOf
<1>3. \A p, v : Reads(p, v) = ReadOf(pte[p], areas[p], mem, v)
  BY <1>1, Zenon DEF Reads, ReadOf, Lazy
<1>4. \A p, v : Reads(p, v)' = ReadOf(pte'[p], areas'[p], mem', v)
  BY <1>2, Zenon DEF Reads, ReadOf, Lazy, Valid
<1> QED BY <1>1, <1>2, <1>3, <1>4, SMTT(30)

\* The one area that covers a page backs it.
LEMMA BackOne ==
    ASSUME NEW M, IsMap(M), NEW v \in Int, NEW n \in M, Covers(n, v)
    PROVE  BackOf(M, v) = <<n.kind, IF n.kind = "file" THEN n.off + (v - n.start) ELSE 0>>
<1>1. \A o \in M : Covers(o, v) => o = n
  BY DEF IsMap, IsNode, WellFormed, Covers
<1>2. {o \in M : Covers(o, v)} = {n}
  BY <1>1
<1>3. (CHOOSE o \in {n} : TRUE) = n
  OBVIOUS
<1> QED BY <1>2, <1>3 DEF BackOf

\* A page without an area is backed by nothing.
LEMMA BackNone ==
    ASSUME NEW M, NEW v, ~\E n \in M : Covers(n, v)
    PROVE  BackOf(M, v) = <<"none", 0>>
<1>1. {n \in M : Covers(n, v)} = {}
  OBVIOUS
<1> QED BY <1>1 DEF BackOf

\* A page that an area covers is backed by something.
LEMMA BackSome ==
    ASSUME NEW M, IsMap(M), AllPlaced(M), NEW v \in Int, NEW n \in M, Covers(n, v)
    PROVE  BackOf(M, v) # <<"none", 0>>
<1>1. n.kind # "none"
  BY Names DEF AllPlaced, Placed
<1>2. BackOf(M, v)[1] = n.kind
  BY BackOne
<1> QED BY <1>1, <1>2

\* Pages whose frames and contents stay show what they showed, or what backs
\* them has changed.
LEMMA SameRead ==
    ASSUME NEW t, NEW t2, NEW M, NEW M2, NEW m, NEW m2, NEW v,
           t2[v].frame = t[v].frame, Valid(t[v]) => m2[t[v].frame] = m[t[v].frame]
    PROVE  ReadOf(t2, M2, m2, v) = ReadOf(t, M, m, v) \/ BackOf(M2, v) # BackOf(M, v)
BY SMTT(30) DEF ReadOf, Valid

\* Process q keeps what it reads and what backs it.
KeepsView(q) ==
    \A v \in Pages : Reads(q, v)' = Reads(q, v) /\ Backing(q, v)' = Backing(q, v)

\* Who keeps areas, entries and the content of mapped frames reads what it
\* read.
LEMMA ViewKept ==
    ASSUME NEW q, areas'[q] = areas[q],
           \A v \in Pages : pte'[q][v].frame = pte[q][v].frame,
           \A v \in Pages : Valid(pte[q][v]) => mem'[pte[q][v].frame] = mem[pte[q][v].frame]
    PROVE  KeepsView(q)
<1> SUFFICES ASSUME NEW v \in Pages
             PROVE  Reads(q, v)' = Reads(q, v) /\ Backing(q, v)' = Backing(q, v)
  BY DEF KeepsView
<1>1. BackOf(areas'[q], v) = BackOf(areas[q], v)
  BY SMTT(30)
<1>2. ReadOf(pte'[q], areas'[q], mem', v) = ReadOf(pte[q], areas[q], mem, v)
  BY <1>1, SameRead, SMTT(30)
<1> QED BY <1>1, <1>2, ViewNow, ZenonT(30)

-------------------------------------------------------------------------------
(* The steps of AddressSpaces. *)

\* A step that changes what the pages of one process are backed by is Remap.
LEMMA ToRemap ==
    ASSUME NEW p \in Running, Running' = Running, \A q \in Running \ {p} : KeepsView(q),
           \A v \in Pages : Reads(p, v)' = Reads(p, v) \/ Backing(p, v)' # Backing(p, v)
    PROVE  Abstract!Remap(p)
BY RunningProcs DEF Abstract!Remap, Abstract!OthersKeep, KeepsView

\* A step that ends one process and does not show to others is End.
LEMMA ToEnd ==
    ASSUME NEW p \in Running, Running' = Running \ {p}, \A q \in Running \ {p} : KeepsView(q)
    PROVE  Abstract!End(p)
BY RunningProcs DEF Abstract!End, Abstract!OthersKeep, KeepsView

\* A step that starts a process with the view of another is Fork.
LEMMA ToFork ==
    ASSUME NEW p \in Running, NEW q \in Procs, q \notin Running, Running' = Running \cup {q},
           \A r \in Running \ {q} : KeepsView(r),
           \A v \in Pages : Reads(q, v)' = Reads(p, v) /\ Backing(q, v)' = Backing(p, v)
    PROVE  Abstract!Fork(p, q)
BY RunningProcs DEF Abstract!Fork, Abstract!OthersKeep, KeepsView

\* A step that gives one process a fresh address space is Exec.
LEMMA ToExec ==
    ASSUME NEW p \in Running, Running' = Running, \A q \in Running \ {p} : KeepsView(q),
           \A v \in Pages : /\ Reads(p, v)' = IF v = HeapBeg THEN Zero ELSE <<"none", 0>>
                            /\ Backing(p, v)' = IF v = HeapBeg THEN <<"anon", 0>> ELSE <<"none", 0>>
    PROVE  Abstract!Exec(p)
BY RunningProcs, ZenonT(30) DEF Abstract!Exec, Abstract!OthersKeep, KeepsView

\* Two pages show the same page of the same segment.
SameSegment(q, u, p, v) == Backing(p, v)[1] \in Segs /\ Backing(q, u) = Backing(p, v)

\* A step that writes a page, seen where its segment is attached, is Store.
LEMMA ToStore ==
    ASSUME NEW p \in Running, NEW v \in Pages, Running' = Running, Reads(p, v)' = <<p, 0>>,
           \A q \in Running, u \in Pages : Backing(q, u)' = Backing(q, u),
           \A q \in Running, u \in Pages :
               IF SameSegment(q, u, p, v) THEN Reads(q, u)' = <<p, 0>>
               ELSE (q = p /\ u = v) \/ Reads(q, u)' = Reads(q, u)
    PROVE  Abstract!Store(p, v)
BY RunningProcs DEF Abstract!Store, Abstract!Shared, SameSegment

-------------------------------------------------------------------------------
(* Which of them a step of the memory is. *)

\* The frames that running processes map keep their content.
ContentKept ==
    \A q \in Running, v \in Pages : Valid(pte[q][v]) => mem'[pte[q][v].frame] = mem[pte[q][v].frame]

\* Nobody reads a frame before it is handed out.
LEMMA FreshContent ==
    ASSUME SetFacts, MemType, CountInv, panic = "no", NEW g \in Frames, g \notin allocated, NEW content,
           mem' = [mem EXCEPT ![g] = content]
    PROVE  ContentKept /\ mem'[g] = content
<1>1. DOMAIN mem = Frames
  BY DEF MemType
<1>2. \A q \in Running, v \in Pages : pte[q][v].frame # g
  BY FreshFrame, SMTT(30)
<1>3. ASSUME NEW q \in Running, NEW v \in Pages, Valid(pte[q][v])
      PROVE  pte[q][v].frame \in Frames
  BY <1>3, RunningProcs, InvalidEntry, ZenonT(30) DEF MemType, IsEntry
<1>4. mem'[g] = content /\ \A f \in Frames \ {g} : mem'[f] = mem[f]
  BY <1>1, SMTT(30)
<1> QED BY <1>2, <1>3, <1>4, ZenonT(30) DEF ContentKept

\* A frame that somebody still maps is not given back.
LEMMA ReleaseContent ==
    ASSUME SetFacts, MemType, panic' = "no", MemType', CountInv', NEW p, NEW S, NEW as, NEW ts,
           Releases(p, S, as, ts), Running' = Running,
           NEW q \in Running, NEW v \in Pages, Valid(pte[q][v]), pte'[q][v] = pte[q][v]
    PROVE  mem'[pte[q][v].frame] = mem[pte[q][v].frame]
<1> DEFINE f == pte[q][v].frame
<1>1. f \in Frames
  BY RunningProcs, InvalidEntry, ZenonT(30) DEF MemType, IsEntry
<1>2. /\ rc' = [h \in Frames |-> CountsAfter(p, S)[h] - Dropped(h, as, ts)]
      /\ mem' = [h \in Frames |-> IF h \in allocated /\ CountsAfter(p, S)[h] - Dropped(h, as, ts) = 0
                                  THEN Junk ELSE mem[h]]
  BY ZenonT(30) DEF Releases, DeallocUnused
<1>3. mem'[f] = IF f \in allocated /\ rc'[f] = 0 THEN Junk ELSE mem[f]
  BY <1>1, <1>2, ZenonT(30)
<1>4. Count(pte', Running, f) + Cardinality(SegsOn(f)') <= rc'[f] /\ rc'[f] \in Int
  BY <1>1, Zenon DEF CountInv, MemType, Count, RefsIn
<1>5. Cardinality(SegsOn(f)') \in Nat
  <2>1. SegsOn(f)' \subseteq Segs
    BY SMTT(30) DEF SegsOn
  <2> QED BY <2>1, Names, SubsetCount, CountIsNat, ZenonT(30)
<1>6. IsFiniteSet(RefsIn(pte', Running, f)) /\ Cardinality(RefsIn(pte', Running, f)) \in Nat
  BY RunningProcs, RefsFinite, ZenonT(30) DEF Count
<1>7. <<q, v>> \in RefsIn(pte', Running, f)
  BY SMTT(30) DEF RefsIn
<1>8. Cardinality(RefsIn(pte', Running, f)) # 0
  BY <1>6, <1>7, EmptyCount, ZenonT(30)
<1>9. rc'[f] # 0
  BY <1>4, <1>5, <1>6, <1>8, SMTT(30) DEF Count
<1> QED BY <1>3, <1>9, ZenonT(30)

\* A fault, or a call that changes the mappings of p, is a step Remap(p) when
\* others keep their entries, frames their content, and every page of p its
\* entry unless what backs it changes or the page reads as before.
LEMMA RemapStep ==
    ASSUME NEW p \in Running, Running' = Running, ContentKept,
           \A q \in Running \ {p} : areas'[q] = areas[q],
           \A q \in Running \ {p}, u \in Pages : pte'[q][u].frame = pte[q][u].frame,
           \A u \in Pages : \/ pte'[p][u].frame = pte[p][u].frame
                            \/ Reads(p, u)' = Reads(p, u) \/ Backing(p, u)' # Backing(p, u)
    PROVE  Abstract!Remap(p)
<1>1. ASSUME NEW q \in Running \ {p}  PROVE KeepsView(q)
  <2>1. \A v \in Pages : Valid(pte[q][v]) => mem'[pte[q][v].frame] = mem[pte[q][v].frame]
    BY SMTT(30) DEF ContentKept
  <2> QED BY <2>1, ViewKept, ZenonT(30)
<1>2. ASSUME NEW v \in Pages
      PROVE  Reads(p, v)' = Reads(p, v) \/ Backing(p, v)' # Backing(p, v)
  <2>1. Valid(pte[p][v]) => mem'[pte[p][v].frame] = mem[pte[p][v].frame]
    BY SMTT(30) DEF ContentKept
  <2>2. CASE pte'[p][v].frame = pte[p][v].frame
    <3>1. \/ ReadOf(pte'[p], areas'[p], mem', v) = ReadOf(pte[p], areas[p], mem, v)
          \/ BackOf(areas'[p], v) # BackOf(areas[p], v)
      BY <2>1, <2>2, SameRead, SMTT(30)
    <3> QED BY <3>1, ViewNow, ZenonT(30)
  <2> QED BY <2>2, ZenonT(30)
<1> QED BY <1>1, <1>2, ToRemap, ZenonT(30)

\* A step that changes no memory, and may end p.
LEMMA QuietView ==
    ASSUME MemType, NEW p \in Running, areas' = areas, pte' = pte, mem' = mem,
           life' = life \/ life' = [life EXCEPT ![p] = "dead"]
    PROVE  Abstract!Remap(p) \/ Abstract!End(p)
<1>1. \A q \in Running : KeepsView(q)
  BY ViewKept
<1>2. CASE life' = life
  <2>1. Running' = Running
    BY <1>2, SMTT(30) DEF Running
  <2>2. \A v \in Pages : Reads(p, v)' = Reads(p, v)
    BY <1>1 DEF KeepsView
  <2> QED BY <1>1, <2>1, <2>2, ToRemap, ZenonT(30)
<1>3. CASE life' = [life EXCEPT ![p] = "dead"]
  <2>1. Running' = Running \ {p}
    BY <1>3, ZenonT(30) DEF Running, MemType
  <2> QED BY <1>1, <2>1, ToEnd, ZenonT(30)
<1> QED BY <1>2, <1>3

\* handle_pagefault does not show: the page gets the content it was read with.
LEMMA FaultViews ==
    ASSUME SetFacts, PlacedInv, MemType, CountInv, panic = "no", NEW p \in Running, NEW v \in Pages,
           FaultShape(p, v)
    PROVE  Abstract!Remap(p) \/ Abstract!End(p)
<1>0. p \in Procs /\ v \in Int
  BY Layout, SMTT(30) DEF Running, Pages
<1>1. ASSUME NEW g \in Frames, NEW w, NEW content, NewPage(p, v, g, w, content),
             content = Reads(p, v)
      PROVE  Abstract!Remap(p)
  <2>1. /\ DOMAIN pte' = Procs /\ \A q \in Procs : DOMAIN pte'[q] = Pages
        /\ pte'[p][v] = Entry(g, w, FALSE) /\ pte'[p][v].frame = g
        /\ \A q \in Procs, u \in Pages : q # p \/ u # v => pte'[q][u] = pte[q][u]
        /\ pte[p][v].frame # g /\ p \in Procs /\ life[p] = "run"
        /\ Running' = Running /\ \A f : SegsOn(f)' = SegsOn(f)
    BY <1>1, NewPageEntries, ZenonT(30)
  <2>2. g \notin allocated /\ mem' = [mem EXCEPT ![g] = content] /\ areas' = areas
    BY <1>1 DEF NewPage
  <2>3. ContentKept /\ mem'[g] = content
    BY <2>2, FreshContent, ZenonT(30)
  <2>4. Reads(p, v)' = Reads(p, v)
    <3>1. Valid(pte'[p][v])
      BY <2>1, Names, ZenonT(30) DEF Valid
    <3>2. ReadOf(pte'[p], areas'[p], mem', v) = content
      BY <2>1, <2>3, <3>1, Zenon DEF ReadOf
    <3> QED BY <1>1, <3>2, ViewNow, Zenon
  <2>5. \A q \in Running \ {p}, u \in Pages : pte'[q][u].frame = pte[q][u].frame
    BY <2>1, RunningProcs, ZenonT(30)
  <2>6. \A u \in Pages : pte'[p][u].frame = pte[p][u].frame \/ Reads(p, u)' = Reads(p, u)
    BY <2>1, <2>4, ZenonT(30)
  <2>7. Running' = Running /\ \A q \in Running \ {p} : areas'[q] = areas[q]
    BY <2>1, <2>2, ZenonT(30)
  <2> QED BY <2>3, <2>5, <2>6, <2>7, RemapStep, ZenonT(30)
<1>2. ASSUME NEW g \in Frames, NEW n, Fills(p, v, n, g)  PROVE Abstract!Remap(p)
  <2>1. /\ ~Valid(pte[p][v]) /\ n \in Get(areas[p], v) /\ n.kind \notin Segs
        /\ NewPage(p, v, g, n.w, LazyContent(n, v))
    BY <1>2, ZenonT(30) DEF Fills
  <2>2. n \in areas[p] /\ n.start <= v /\ v < n.end /\ IsMap(areas[p]) /\ Placed(n)
    BY <1>0, <2>1, AreaInPages, ShareOf, ZenonT(30) DEF AllPlaced
  <2>3. BackOf(areas[p], v) = <<n.kind, IF n.kind = "file" THEN n.off + (v - n.start) ELSE 0>>
    BY <1>0, <2>2, BackOne, ZenonT(30) DEF Covers
  <2>4. Lazy(BackOf(areas[p], v)) = LazyContent(n, v)
    BY <2>1, <2>2, <2>3, SMTT(30) DEF Lazy, LazyContent, Placed
  <2>5. LazyContent(n, v) = Reads(p, v)
    BY <2>1, <2>4, ViewNow, ZenonT(30) DEF ReadOf
  <2> QED BY <1>1, <2>1, <2>5, ZenonT(30)
<1>3. ASSUME NEW g \in Frames, NEW w, CopiesTo(p, v, g, w)  PROVE Abstract!Remap(p)
  <2>1. Valid(pte[p][v]) /\ NewPage(p, v, g, w, mem[pte[p][v].frame])
    BY <1>3, ZenonT(30) DEF CopiesTo
  <2>2. mem[pte[p][v].frame] = Reads(p, v)
    BY <2>1, SMTT(30) DEF Reads
  <2> QED BY <1>1, <2>1, <2>2, ZenonT(30)
<1>4. ASSUME NEW w, Reuses(p, v, w)  PROVE Abstract!Remap(p)
  <2>1. /\ pte' = [pte EXCEPT ![p][v] = Entry(pte[p][v].frame, w, FALSE)]
        /\ areas' = areas /\ mem' = mem /\ life' = life
    BY <1>4 DEF Reuses, phys
  <2>2. \A q \in Procs, u \in Pages : pte'[q][u].frame = pte[q][u].frame
    BY <1>0, <2>1, ZenonT(30) DEF MemType, Entry
  <2>3. ContentKept /\ Running' = Running
    BY <2>1 DEF ContentKept, Running
  <2> QED BY <1>0, <2>1, <2>2, <2>3, RunningProcs, RemapStep, ZenonT(30)
<1>5. ASSUME Valid(pte[p][v]), LosesRef(p, v, pte[p][v].frame)
      PROVE  Abstract!Remap(p) \/ Abstract!End(p)
  <2>1. areas' = areas /\ pte' = pte /\ mem' = mem /\ (life' = life \/ life' = [life EXCEPT ![p] = "dead"])
    BY <1>5, ZenonT(30) DEF LosesRef
  <2> QED BY <2>1, QuietView, ZenonT(30)
<1>6. CASE Stops
  <2>1. areas' = areas /\ pte' = pte /\ mem' = mem /\ life' = life
    BY <1>6 DEF Stops, Panic, space, phys
  <2> QED BY <2>1, QuietView, ZenonT(30)
<1>7. CASE Ends(p)
  <2>1. areas' = areas /\ pte' = pte /\ mem' = mem /\ life' = [life EXCEPT ![p] = "dead"]
    BY <1>7 DEF Ends, Kill, space
  <2> QED BY <2>1, QuietView, ZenonT(30)
<1> QED BY <1>2, <1>3, <1>4, <1>5, <1>6, <1>7, ZenonT(30) DEF FaultShape

\* Pages that lose their frame lose their area as well.
LEMMA DropView ==
    ASSUME SetFacts, PlacedInv, MemType, CountInv, panic = "no", MemType', CountInv', NEW p \in Running,
           NEW S, NEW K, NEW ts, Drops(p, S, K, ts)
    PROVE  Abstract!Remap(p)
<1> DEFINE as == [areas EXCEPT ![p] = K]
<1>1. /\ S \in SUBSET Pages /\ ts \in [Procs -> SUBSET Segs]
      /\ Releasing(areas[p], K, S) /\ Releases(p, S, as, ts)
  BY SMTT(30) DEF Drops, SubTables
<1>2. areas' = as /\ panic' = "no"
  BY <1>1, ZenonT(30) DEF Releases
<1>3. /\ NextType /\ Running' = Running
      /\ \A u \in Pages : pte'[p][u] = IF u \in S THEN Invalid ELSE pte[p][u]
      /\ \A q \in Procs \ {p}, u \in Pages : pte'[q][u] = pte[q][u]
  BY <1>1, RunningProcs, ReleaseEntries, ZenonT(30)
<1>4. areas'[p] = K /\ \A q \in Procs \ {p} : areas'[q] = areas[q]
  BY <1>2, RunningProcs, SMTT(30) DEF PlacedInv
<1>5. ASSUME NEW q \in Running, NEW v \in Pages, Valid(pte[q][v]), pte'[q][v] = pte[q][v]
      PROVE  mem'[pte[q][v].frame] = mem[pte[q][v].frame]
  BY <1>1, <1>2, <1>3, <1>5, ReleaseContent, ZenonT(30)
<1>6. ASSUME NEW q \in Running \ {p}  PROVE KeepsView(q)
  <2>1. areas'[q] = areas[q] /\ \A v \in Pages : pte'[q][v] = pte[q][v]
    BY <1>3, <1>4, RunningProcs, ZenonT(30)
  <2>2. \A v \in Pages : Valid(pte[q][v]) => mem'[pte[q][v].frame] = mem[pte[q][v].frame]
    BY <1>5, <2>1, ZenonT(30)
  <2> QED BY <2>1, <2>2, ViewKept, ZenonT(30)
<1>7. ASSUME NEW v \in Pages
      PROVE  Reads(p, v)' = Reads(p, v) \/ Backing(p, v)' # Backing(p, v)
  <2>1. CASE v \in S
    <3>1. (\E n \in areas[p] : Covers(n, v)) /\ ~\E n \in K : Covers(n, v)
      BY <1>1, <2>1, ZenonT(30) DEF Releasing
    <3>2. v \in Int /\ IsMap(areas[p]) /\ AllPlaced(areas[p])
      BY Layout, RunningProcs, ShareOf, SMTT(30) DEF Pages
    <3>3. BackOf(areas[p], v) # <<"none", 0>>
      BY <3>1, <3>2, BackSome, ZenonT(30)
    <3>4. BackOf(areas'[p], v) = <<"none", 0>>
      BY <1>4, <3>1, BackNone, ZenonT(30)
    <3> QED BY <3>3, <3>4, ViewNow, ZenonT(30)
  <2>2. CASE v \notin S
    <3>1. pte'[p][v] = pte[p][v]
      BY <1>3, <2>2, ZenonT(30)
    <3>2. Valid(pte[p][v]) => mem'[pte[p][v].frame] = mem[pte[p][v].frame]
      BY <1>5, <3>1, ZenonT(30)
    <3>3. \/ ReadOf(pte'[p], areas'[p], mem', v) = ReadOf(pte[p], areas[p], mem, v)
          \/ BackOf(areas'[p], v) # BackOf(areas[p], v)
      BY <3>1, <3>2, SameRead, SMTT(30)
    <3> QED BY <3>3, ViewNow, ZenonT(30)
  <2> QED BY <2>1, <2>2, ZenonT(30)
<1> QED BY <1>3, <1>6, <1>7, ToRemap, ZenonT(30)

\* A segment is attached where nothing was mapped.
LEMMA AttachView ==
    ASSUME SetFacts, PlacedInv, MemType, CountInv, PlacedInv', NEW p \in Running, NEW s \in Segs,
           NEW a \in Pages, NEW w, Attaches(p, s, a, w)
    PROVE  Abstract!Remap(p)
<1> DEFINE g == segFrame[s]
           n == Node(a, a + 1, s, w, 0)
<1>1. /\ NextType /\ Running' = Running /\ p \in Procs
      /\ g \in Frames
      /\ pte[p][a].frame = NoFrame /\ pte'[p][a] = Entry(g, w, FALSE)
      /\ pte'[p][a].frame = g
      /\ \A q \in Procs, u \in Pages : q # p \/ u # a => pte'[q][u] = pte[q][u]
  BY AttachEntries, ZenonT(30)
<1>2. /\ CanInsert(areas[p], a, a + 1)
      /\ areas' = [areas EXCEPT ![p] = areas[p] \cup {n}] /\ mem' = mem
  BY DEF Attaches
<1>3. areas'[p] = areas[p] \cup {n} /\ \A q \in Procs \ {p} : areas'[q] = areas[q]
  BY <1>1, <1>2 DEF PlacedInv
<1>4. a \in Int /\ IsMap(areas[p]) /\ IsMap(areas'[p]) /\ AllPlaced(areas'[p])
  <2>1. a \in Int /\ IsMap(areas[p])
    BY <1>1, Layout, ShareOf, SMTT(30) DEF Pages
  <2>2. IsMap(areas'[p]) /\ AllPlaced(areas'[p])
    BY <1>1, ZenonT(30) DEF PlacedInv, MapsInv, AllPlaced, Placed, InShare
  <2> QED BY <2>1, <2>2, ZenonT(30)
<1>5. ~\E o \in areas[p] : Covers(o, a)
  <2>1. \A o \in areas[p] : o.start < a + 1 => o.end <= a
    BY <1>2, <1>4, InsertFree, SMTT(30)
  <2>2. \A o \in areas[p] : o.start \in Int /\ o.end \in Int
    BY <1>4, ZenonT(30) DEF IsMap, IsNode
  <2> QED BY <1>4, <2>1, <2>2, SMTT(30) DEF Covers
<1>6. Covers(n, a)
  BY <1>4, SMTT(30) DEF Covers, Node
<1>7. Backing(p, a)' # Backing(p, a)
  <2>1. BackOf(areas[p], a) = <<"none", 0>>
    BY <1>5, BackNone, ZenonT(30)
  <2>2. BackOf(areas'[p], a) # <<"none", 0>>
    BY <1>3, <1>4, <1>6, BackSome, ZenonT(30)
  <2> QED BY <2>1, <2>2, ViewNow, ZenonT(30)
<1>8. \A u \in Pages : pte'[p][u].frame = pte[p][u].frame \/ Backing(p, u)' # Backing(p, u)
  BY <1>1, <1>7, ZenonT(30)
<1>9. \A q \in Running \ {p} : areas'[q] = areas[q] /\ \A u \in Pages : pte'[q][u].frame = pte[q][u].frame
  BY <1>1, <1>3, RunningProcs, ZenonT(30)
<1>10. ContentKept /\ Running' = Running
  BY <1>1, <1>2, ZenonT(30) DEF ContentKept
<1> QED BY <1>8, <1>9, <1>10, RemapStep, ZenonT(30)

\* The system calls change what backs the pages of their caller.
LEMMA CallViews ==
    ASSUME SetFacts, PlacedInv, MemType, CountInv, panic = "no", PlacedInv', MemType', CountInv',
           NEW p \in Running, CallShape(p)
    PROVE  Abstract!Remap(p) \/ Abstract!End(p)
<1>0. p \in Procs
  BY RunningProcs
<1>1. CASE Stops
  <2>1. areas' = areas /\ pte' = pte /\ mem' = mem /\ life' = life
    BY <1>1 DEF Stops, Panic, space, phys
  <2> QED BY <2>1, QuietView, ZenonT(30)
<1>2. ASSUME NEW K, Moves(p, K)  PROVE Abstract!Remap(p)
  <2>1. areas' = [areas EXCEPT ![p] = K] /\ pte' = pte /\ mem' = mem /\ life' = life
    BY <1>2 DEF Moves, phys
  <2>2. \A q \in Running \ {p} : areas'[q] = areas[q]
    BY <2>1, RunningProcs, ZenonT(30) DEF PlacedInv
  <2>3. ContentKept /\ Running' = Running
    BY <2>1 DEF ContentKept, Running
  <2> QED BY <2>1, <2>2, <2>3, RemapStep, ZenonT(30)
<1>3. ASSUME NEW s \in Segs, Finds(p, s)  PROVE Abstract!Remap(p) \/ Abstract!End(p)
  <2>1. areas' = areas /\ pte' = pte /\ mem' = mem /\ life' = life
    BY <1>3, ZenonT(30) DEF Finds, space, phys
  <2> QED BY <2>1, QuietView, ZenonT(30)
<1>4. ASSUME NEW s \in Segs, NEW g \in Frames, NEW private, Creates(p, s, g, private)
      PROVE  Abstract!Remap(p)
  <2>1. /\ areas' = areas /\ pte' = pte /\ life' = life
        /\ g \notin allocated /\ mem' = [mem EXCEPT ![g] = Junk]
    BY <1>4 DEF Creates, space
  <2>2. ContentKept /\ Running' = Running
    BY <2>1, FreshContent, ZenonT(30) DEF Running
  <2> QED BY <2>1, <2>2, RemapStep, ZenonT(30)
<1> QED BY <1>1, <1>2, <1>3, <1>4, DropView, AttachView, ZenonT(30) DEF CallShape

\* A page that a segment backs is mapped to the frame of the segment, and a page
\* of the share region that is mapped is backed by the segment of its frame.
LEMMA SegmentBacks ==
    ASSUME PlacedInv, ShareInv, NEW q \in Procs, NEW u \in Pages
    PROVE  /\ \A s \in Segs : BackOf(areas[q], u)[1] = s => pte[q][u].frame = segFrame[s]
           /\ InShare(u) /\ Valid(pte[q][u]) =>
                  \E s \in Segs : segFrame[s] = pte[q][u].frame /\ BackOf(areas[q], u) = <<s, 0>>
<1> DEFINE M == areas[q]
<1>1. IsMap(M) /\ AllPlaced(M) /\ u \in Int /\ Shows(M, pte[q], segFrame)
  BY Layout, ShareOf, SMTT(30) DEF Pages, ShareInv
<1> HIDE DEF M
<1>2. ASSUME NEW n \in M, n.kind \in Segs  PROVE n.start \in Int /\ n.end = n.start + 1
  BY <1>1, <1>2, SegmentPage, ZenonT(30)
<1>3. ASSUME NEW s \in Segs, BackOf(M, u)[1] = s  PROVE pte[q][u].frame = segFrame[s]
  <2>1. CASE ~\E n \in M : Covers(n, u)
    BY <1>3, <2>1, BackNone, Names, SMTT(30)
  <2>2. ASSUME NEW n \in M, Covers(n, u)  PROVE pte[q][u].frame = segFrame[s]
    <3>1. n.kind = s
      BY <1>1, <1>3, <2>2, BackOne, SMTT(30)
    <3>2. n.start = u
      BY <1>1, <1>2, <2>2, <3>1, SMTT(30) DEF Covers
    <3> QED BY <1>1, <3>1, <3>2, ZenonT(30) DEF Shows
  <2> QED BY <2>1, <2>2, ZenonT(30)
<1>4. ASSUME InShare(u), Valid(pte[q][u])
      PROVE  \E s \in Segs : segFrame[s] = pte[q][u].frame /\ BackOf(M, u) = <<s, 0>>
  <2>1. PICK n \in M : n.kind \in Segs /\ n.start = u
    BY <1>1, <1>4, ZenonT(30) DEF Shows
  <2>2. pte[q][u].frame = segFrame[n.kind]
    BY <1>1, <2>1, ZenonT(30) DEF Shows
  <2>3. Covers(n, u)
    BY <1>1, <1>2, <2>1, SMTT(30) DEF Covers
  <2>4. BackOf(M, u) = <<n.kind, 0>>
    BY <1>1, <2>1, <2>3, BackOne, Names, ZenonT(30)
  <2> QED BY <2>1, <2>2, <2>4, ZenonT(30)
<1> QED BY <1>3, <1>4, ZenonT(30) DEF M

\* A store shows in the page it was made in and in the pages that show the same
\* segment, for a frame that may be written is otherwise mapped once.
LEMMA StoreView ==
    ASSUME PlacedInv, MemType, CountInv, Exclusive, ShareInv, NEW p \in Running, NEW v \in Pages,
           Store(p, v)
    PROVE  Abstract!Store(p, v)
<1> DEFINE f == pte[p][v].frame
<1>0. p \in Procs
  BY RunningProcs, SMTT(30)
<1>1. /\ Valid(pte[p][v]) /\ pte[p][v].w /\ mem' = [mem EXCEPT ![f] = <<p, 0>>]
      /\ areas' = areas /\ pte' = pte /\ life' = life
  BY SMTT(30) DEF Store, space
<1>2. f \in Frames /\ DOMAIN mem = Frames
  BY <1>0, <1>1, InvalidEntry, ZenonT(30) DEF MemType, IsEntry
<1>3. Running' = Running
  BY <1>1, SMTT(30) DEF Running
<1>4. \A q, u : Backing(q, u)' = Backing(q, u)
  BY <1>1, ViewNow, ZenonT(30)
<1>5. ASSUME NEW q \in Running, NEW u \in Pages
      PROVE  Reads(q, u)' = IF pte[q][u].frame = f THEN <<p, 0>> ELSE Reads(q, u)
  <2>1. CASE pte[q][u].frame = f
    <3>1. Valid(pte'[q][u]) /\ pte'[q][u].frame = f
      BY <1>1, <2>1, ZenonT(30) DEF Valid
    <3>2. mem'[f] = <<p, 0>>
      BY <1>1, <1>2, ZenonT(30)
    <3>3. ReadOf(pte'[q], areas'[q], mem', u) = <<p, 0>>
      BY <3>1, <3>2, ZenonT(30) DEF ReadOf
    <3> QED BY <2>1, <3>3, ViewNow, ZenonT(30)
  <2>2. CASE pte[q][u].frame # f
    <3>1. Valid(pte[q][u]) => pte[q][u].frame \in Frames
      BY RunningProcs, InvalidEntry, ZenonT(30) DEF MemType, IsEntry
    <3>2. Valid(pte[q][u]) => mem'[pte[q][u].frame] = mem[pte[q][u].frame]
      BY <1>1, <1>2, <2>2, <3>1, ZenonT(30)
    <3>3. ReadOf(pte'[q], areas'[q], mem', u) = ReadOf(pte[q], areas[q], mem, u)
      BY <1>1, <3>2, ZenonT(30) DEF ReadOf
    <3> QED BY <2>2, <3>3, ViewNow, ZenonT(30)
  <2> QED BY <2>1, <2>2, ZenonT(30)
<1>6. ASSUME NEW q \in Running, NEW u \in Pages, SameSegment(q, u, p, v)
      PROVE  pte[q][u].frame = f
  <2>1. PICK s \in Segs : BackOf(areas[p], v)[1] = s /\ BackOf(areas[q], u)[1] = s
    BY <1>6, ViewNow, ZenonT(30) DEF SameSegment
  <2>2. f = segFrame[s]
    BY <1>0, <2>1, SegmentBacks, ZenonT(30)
  <2>3. pte[q][u].frame = segFrame[s]
    BY <2>1, RunningProcs, SegmentBacks, ZenonT(30)
  <2> QED BY <2>2, <2>3, ZenonT(30)
<1>7. ASSUME NEW q \in Running, NEW u \in Pages, pte[q][u].frame = f
      PROVE  SameSegment(q, u, p, v) \/ (q = p /\ u = v)
  <2>1. CASE ~InShare(v)
    BY <1>1, <1>7, <2>1, ZenonT(30) DEF Exclusive
  <2>2. CASE InShare(v)
    <3>1. PICK s \in Segs : segFrame[s] = f /\ BackOf(areas[p], v) = <<s, 0>>
      BY <1>0, <1>1, <2>2, SegmentBacks, ZenonT(30)
    <3>2. Valid(pte[q][u])
      BY <1>1, <1>7, ZenonT(30) DEF Valid
    <3>3. InShare(u)
      <4>1. segFrame[s] = pte[q][u].frame
        BY <1>7, <3>1, ZenonT(30)
      <4> QED BY <3>2, <4>1, ZenonT(30) DEF Exclusive
    <3>4. PICK t \in Segs : segFrame[t] = f /\ BackOf(areas[q], u) = <<t, 0>>
      <4>1. q \in Procs
        BY RunningProcs, ZenonT(30)
      <4>2. \E t \in Segs : segFrame[t] = pte[q][u].frame /\ BackOf(areas[q], u) = <<t, 0>>
        BY <3>2, <3>3, <4>1, SegmentBacks, ZenonT(30)
      <4> QED BY <1>7, <4>2, ZenonT(30)
    <3>5. t = s
      BY <1>1, <3>1, <3>4, ZenonT(30) DEF CountInv, Valid
    <3>6. Backing(p, v) = <<s, 0>> /\ Backing(q, u) = <<s, 0>>
      BY <3>1, <3>4, <3>5, ViewNow, ZenonT(30)
    <3>7. <<s, 0>>[1] = s
      OBVIOUS
    <3> QED BY <3>6, <3>7, ZenonT(30) DEF SameSegment
  <2> QED BY <2>1, <2>2, ZenonT(30)
<1>8. ASSUME NEW q \in Running, NEW u \in Pages
      PROVE  IF SameSegment(q, u, p, v) THEN Reads(q, u)' = <<p, 0>>
             ELSE (q = p /\ u = v) \/ Reads(q, u)' = Reads(q, u)
  BY <1>5, <1>6, <1>7, ZenonT(30)
<1>9. Reads(p, v)' = <<p, 0>>
  BY <1>5, ZenonT(30)
<1> QED BY <1>3, <1>4, <1>8, <1>9, ToStore, ZenonT(30)

\* The child reads what its parent reads.
LEMMA ForkView ==
    ASSUME PlacedInv, MemType, NEW p \in Procs, NEW q \in Procs, Fork(p, q)
    PROVE  Abstract!Fork(p, q)
<1>1. /\ NextType /\ p # q /\ p \in Running /\ q \notin Running
      /\ Running' = Running \cup {q}
      /\ \A u \in Pages : pte[q][u].frame = NoFrame
      /\ \A u \in Pages : pte'[q][u] = CowEntry(pte[p][u], u) /\ pte'[p][u] = CowEntry(pte[p][u], u)
      /\ \A r \in Procs \ {p, q}, u \in Pages : pte'[r][u] = pte[r][u]
      /\ \A u \in Pages : pte'[q][u].frame = pte[p][u].frame
      /\ \A r \in Procs \ {q}, u \in Pages : pte'[r][u].frame = pte[r][u].frame
  BY ForkEntries
<1>2. areas' = [areas EXCEPT ![q] = areas[p]] /\ mem' = mem
  BY DEF Fork
<1>3. areas'[q] = areas[p] /\ \A r \in Procs \ {q} : areas'[r] = areas[r]
  BY <1>2 DEF PlacedInv
<1>4. ASSUME NEW r \in Running \ {q}  PROVE KeepsView(r)
  <2>1. areas'[r] = areas[r] /\ \A u \in Pages : pte'[r][u].frame = pte[r][u].frame
    BY <1>1, <1>3, RunningProcs, ZenonT(30)
  <2> QED BY <1>2, <2>1, ViewKept, ZenonT(30)
<1>5. ASSUME NEW v \in Pages
      PROVE  Reads(q, v)' = Reads(p, v) /\ Backing(q, v)' = Backing(p, v)
  <2>1. BackOf(areas'[q], v) = BackOf(areas[p], v)
    BY <1>3, ZenonT(30)
  <2>2. ReadOf(pte'[q], areas'[q], mem', v) = ReadOf(pte[p], areas[p], mem, v)
    <3>1. pte'[q][v].frame = pte[p][v].frame /\ mem'[pte[p][v].frame] = mem[pte[p][v].frame]
      BY <1>1, <1>2, ZenonT(30)
    <3>2. \/ ReadOf(pte'[q], areas'[q], mem', v) = ReadOf(pte[p], areas[p], mem, v)
          \/ BackOf(areas'[q], v) # BackOf(areas[p], v)
      BY <3>1, SameRead, SMTT(30)
    <3> QED BY <2>1, <3>2, ZenonT(30)
  <2> QED BY <2>1, <2>2, ViewNow, ZenonT(30)
<1> QED BY <1>1, <1>4, <1>5, ToFork, ZenonT(30)

\* What is read and what backs it when there is only a heap.
LEMMA FreshPages ==
    ASSUME NEW t, NEW m, NEW v \in Pages, ~Valid(t[v])
    PROVE  /\ BackOf({Heap}, v) = IF v = HeapBeg THEN <<"anon", 0>> ELSE <<"none", 0>>
           /\ ReadOf(t, {Heap}, m, v) = IF v = HeapBeg THEN Zero ELSE <<"none", 0>>
<1>1. v \in Int /\ HeapBeg \in Int /\ Heap.kind = "anon"
  BY Layout, SMTT(30) DEF Pages, Heap, Node
<1>2. Covers(Heap, v) <=> v = HeapBeg
  BY <1>1, SMTT(30) DEF Covers, Heap, Node
<1>3. BackOf({Heap}, v) = IF v = HeapBeg THEN <<"anon", 0>> ELSE <<"none", 0>>
  <2>1. CASE v = HeapBeg
    <3>1. {n \in {Heap} : Covers(n, v)} = {Heap} /\ (CHOOSE n \in {Heap} : TRUE) = Heap
      BY <1>2, <2>1, ZenonT(30)
    <3> QED BY <1>1, <2>1, <3>1, SMTT(30) DEF BackOf
  <2>2. CASE v # HeapBeg
    BY <1>2, <2>2, BackNone, ZenonT(30)
  <2> QED BY <2>1, <2>2, ZenonT(30)
<1> QED BY <1>3, SMTT(30) DEF ReadOf, Lazy

\* do_exec starts afresh and takes nothing from the others.
LEMMA RenewView ==
    ASSUME SetFacts, PlacedInv, MemType, CountInv, panic = "no", MemType', CountInv', NEW p \in Running, Renews(p)
    PROVE  Abstract!Exec(p)
<1> DEFINE S == AreaPages(p)
           as == [areas EXCEPT ![p] = {Heap}]
<1>1. /\ \A v \in Pages \ S : ~Valid(pte[p][v])
      /\ Releases(p, S, as, tables) /\ S \in SUBSET Pages /\ tables \in [Procs -> SUBSET Segs]
  BY PageSets, ZenonT(30) DEF Renews, MemType
<1>2. areas' = as /\ panic' = "no"
  BY <1>1, SMTT(30) DEF Releases
<1>3. /\ NextType /\ Running' = Running
      /\ \A u \in Pages : pte'[p][u] = IF u \in S THEN Invalid ELSE pte[p][u]
      /\ \A q \in Procs \ {p}, u \in Pages : pte'[q][u] = pte[q][u]
  BY <1>1, RunningProcs, ReleaseEntries, ZenonT(30)
<1>4. areas'[p] = {Heap} /\ \A q \in Procs \ {p} : areas'[q] = areas[q]
  BY <1>2, RunningProcs, ZenonT(30) DEF PlacedInv
<1>5. ASSUME NEW q \in Running \ {p}  PROVE KeepsView(q)
  <2>1. areas'[q] = areas[q] /\ \A v \in Pages : pte'[q][v] = pte[q][v]
    BY <1>3, <1>4, RunningProcs, ZenonT(30)
  <2>2. \A v \in Pages : Valid(pte[q][v]) => mem'[pte[q][v].frame] = mem[pte[q][v].frame]
    BY <1>1, <1>2, <1>3, <2>1, ReleaseContent, ZenonT(30)
  <2> QED BY <2>1, <2>2, ViewKept, ZenonT(30)
<1>6. ASSUME NEW v \in Pages
      PROVE  /\ Reads(p, v)' = IF v = HeapBeg THEN Zero ELSE <<"none", 0>>
             /\ Backing(p, v)' = IF v = HeapBeg THEN <<"anon", 0>> ELSE <<"none", 0>>
  <2>1. ~Valid(pte'[p][v])
    BY <1>1, <1>3, InvalidEntry, ZenonT(30)
  <2> QED BY <1>4, <2>1, FreshPages, ViewNow, ZenonT(30)
<1> QED BY <1>3, <1>5, <1>6, ToExec, ZenonT(30)

\* Faults, stores, forks, execs and exits are steps of AddressSpaces.
LEMMA StepViews ==
    ASSUME SetFacts, PlacedInv, MemType, CountInv, Exclusive, ShareInv, panic = "no", MemType', CountInv',
           NEW p \in Running, StepShape(p)
    PROVE  Abstract!Next
<1>0. p \in Procs
  BY RunningProcs
<1>1. ASSUME Abstract!Remap(p) \/ Abstract!Exec(p) \/ Abstract!End(p)  PROVE Abstract!Next
  BY <1>0, <1>1, Zenon, ZenonT(30) DEF Abstract!Next
<1>2. CASE Stops
  <2>1. areas' = areas /\ pte' = pte /\ mem' = mem /\ life' = life
    BY <1>2 DEF Stops, Panic, space, phys
  <2> QED BY <1>1, <2>1, QuietView, ZenonT(30)
<1>3. CASE Ends(p)
  <2>1. areas' = areas /\ pte' = pte /\ mem' = mem /\ life' = [life EXCEPT ![p] = "dead"]
    BY <1>3 DEF Ends, Kill, space
  <2> QED BY <1>1, <2>1, QuietView, ZenonT(30)
<1>4. ASSUME NEW v \in Pages, FaultShape(p, v)  PROVE Abstract!Next
  BY <1>1, <1>4, FaultViews, ZenonT(30)
<1>5. ASSUME NEW v \in Pages, Store(p, v)  PROVE Abstract!Next
  <2>1. Abstract!Store(p, v)
    BY <1>5, StoreView
  <2> QED BY <1>0, <2>1, Zenon, ZenonT(30) DEF Abstract!Next
<1>6. ASSUME NEW q \in Procs, Fork(p, q)  PROVE Abstract!Next
  <2>1. Abstract!Fork(p, q)
    BY <1>0, <1>6, ForkView, ZenonT(30)
  <2> QED BY <1>0, <2>1, Zenon, ZenonT(30) DEF Abstract!Next
<1>7. CASE Renews(p)
  BY <1>1, <1>7, RenewView, ZenonT(30)
<1> QED BY <1>2, <1>3, <1>4, <1>5, <1>6, <1>7, ZenonT(30) DEF StepShape

\* The initial memory maps to the initial address spaces.
LEMMA AbstractInit ==
    ASSUME Init
    PROVE  Abstract!Init
<1>1. Running = {First} /\ First \in Procs
  BY Names, ZenonT(30) DEF Init, Running
<1>2. areas[First] = {Heap} /\ \A v \in Pages : ~Valid(pte[First][v])
  BY <1>1, InvalidEntry, ZenonT(30) DEF Init
<1>3. ASSUME NEW v \in Pages
      PROVE  /\ Reads(First, v) = IF v = HeapBeg THEN Zero ELSE <<"none", 0>>
             /\ Backing(First, v) = IF v = HeapBeg THEN <<"anon", 0>> ELSE <<"none", 0>>
  BY <1>2, FreshPages, ViewNow, ZenonT(30)
<1> QED BY <1>1, <1>3, ZenonT(30) DEF Abstract!Init

\* Every step of the memory is a step of AddressSpaces, or does not show.
LEMMA AbstractNext ==
    ASSUME SetFacts, MemoryInv, MemoryInv', [Next]_vars
    PROVE  [Abstract!Next]_Abstract!spaceVars
<1>0. /\ PlacedInv /\ MemType /\ CountInv /\ Exclusive /\ ShareInv
      /\ PlacedInv' /\ MemType' /\ CountInv'
  BY DEF MemoryInv, FrameInv
<1>1. ASSUME NEW p \in Procs, Call(p) \/ Step(p)  PROVE Abstract!Next
  <2>1. panic = "no" /\ p \in Running
    BY <1>1, StepRuns, ZenonT(30)
  <2>2. CASE Step(p)
    BY <1>0, <2>1, <2>2, StepShapes, StepViews, ZenonT(30)
  <2>3. CASE Call(p)
    <3>1. Abstract!Remap(p) \/ Abstract!End(p)
      BY <1>0, <2>1, <2>3, CallShapes, CallViews, ZenonT(30)
    <3> QED BY <3>1, Zenon, ZenonT(30) DEF Abstract!Next
  <2> QED BY <1>1, <2>2, <2>3, ZenonT(30)
<1>2. CASE UNCHANGED vars
  <2>1. areas' = areas /\ pte' = pte /\ mem' = mem /\ life' = life
    BY <1>2, ZenonT(30) DEF vars, space, phys
  <2>2. /\ Running' = Running
        /\ \A p, v : Reads(p, v)' = Reads(p, v) /\ Backing(p, v)' = Backing(p, v)
    BY <2>1, ViewNow, ZenonT(30) DEF Running
  <2> QED BY <2>2, ZenonT(30) DEF Abstract!spaceVars
<1> QED BY <1>1, <1>2, ZenonT(30) DEF Next

-------------------------------------------------------------------------------
(* What the invariants say. *)

\* At the start every process has a map.
LEMMA MapsInit ==
    ASSUME Init
    PROVE  MapsInv
<1>1. IsMap({})
  BY DEF IsMap, WellFormed
<1> QED BY <1>1, HeapIsMap DEF Init, MapsInv

\* Every step keeps the maps of the processes.
LEMMA MapsNext ==
    ASSUME SetFacts, MapsInv, [Next]_vars
    PROVE  MapsInv'
<1>1. CASE Next
  BY <1>1, StepAreas, CallAreas, StepKeepsMaps, ZenonT(30) DEF Next
<1>2. CASE UNCHANGED vars
  BY <1>2, StepKeepsMaps DEF vars, space, AreasStep
<1> QED BY <1>1, <1>2

\* What MapsInv, FrameInv and MemoryInv say of the areas, the counts and the
\* page tables.
LEMMA MapsAreDisjoint == MapsInv => AreasWellFormed
BY DEF MapsInv, IsMap, AreasWellFormed

LEMMA CountsCover == FrameInv => CountCoversRefs
BY ZenonT(30) DEF FrameInv, MemType, CountInv, CountCoversRefs, RefsOf, RefsIn, Count

LEMMA CountsAreUsed == FrameInv => NoFrameLost
BY Zenon DEF FrameInv, CountInv, NoFrameLost, RefsOf, RefsIn, Count

LEMMA SegmentsShow == MemoryInv => AttachedShowsSegment
BY SMTT(30) DEF MemoryInv, ShareInv, Shows, AttachedShowsSegment, Valid

LEMMA WritesAreExclusive ==
    ASSUME MemoryInv
    PROVE  CowExclusive
<1>1. MemType /\ Exclusive
  BY DEF MemoryInv, FrameInv
<1> SUFFICES ASSUME NEW p \in Running, NEW v \in Pages, pte[p][v].w, ~InShare(v)
             PROVE  RefsOf(Running, pte[p][v].frame) = {<<p, v>>} /\ SegsOn(pte[p][v].frame) = {}
  BY DEF CowExclusive
<1>2. Valid(pte[p][v])
  BY <1>1, WritableValid, RunningProcs, ZenonT(30)
<1>3. \A q \in Running, u \in Pages : pte[q][u].frame = pte[p][v].frame => q = p /\ u = v
  BY <1>1, ZenonT(30) DEF Exclusive
<1>4. SegsOn(pte[p][v].frame) = {}
  BY <1>1, <1>2, ZenonT(30) DEF Exclusive, SegsOn
<1>5. RefsOf(Running, pte[p][v].frame) = {<<p, v>>}
  BY <1>3, SMTT(30) DEF RefsOf
<1> QED BY <1>4, <1>5

-------------------------------------------------------------------------------
(* The theorems. *)

INSTANCE FiniteSetTheorems

\* The library of finite sets has the facts the proofs rest on.
LEMMA SetFactsHold == SetFacts
<1>1. ASSUME NEW S \in SUBSET Nat, S # {}
      PROVE  \E m \in S : \A n \in S : m <= n
  <2>1. PICK m \in S : \A n \in S : ~(<<n, m>> \in OpToRel(<, Nat))
    BY <1>1, WFMin, NatLessThanWellFounded, Zenon
  <2>2. \A n \in S : ~(n < m)
    BY <2>1, Zenon DEF OpToRel
  <2> QED BY <2>2
<1>2. NumberFacts
  BY <1>1, FS_Interval, Zenon DEF NumberFacts
<1>3. SizeFacts
  BY FS_EmptySet, FS_CardinalityType, FS_Singleton, Zenon DEF SizeFacts
<1>4. PartFacts
  <2>1. \A S, T : T \subseteq S => T \in SUBSET S
    OBVIOUS
  <2> QED BY <2>1, FS_Subset, Zenon DEF PartFacts
<1>5. ElementFacts
  BY FS_AddElement, FS_RemoveElement, Zenon DEF ElementFacts
<1>6. DifferenceFacts /\ UnionFacts
  BY FS_Difference, FS_Union, Zenon DEF DifferenceFacts, UnionFacts
<1>7. ProductFacts
  BY FS_Product, Zenon DEF ProductFacts
<1> QED BY <1>2, <1>3, <1>4, <1>5, <1>6, <1>7, ZenonT(30) DEF SetFacts

\* What try_insert returns is a map again: it compares the new range with one
\* node only, and that is enough (range_map.rs).
THEOREM TryInsertKeepsMap ==
    ASSUME NEW M, IsMap(M), NEW a \in Int, NEW b \in Int, CanInsert(M, a, b),
           NEW k, NEW w, NEW off
    PROVE  IsMap(M \cup {Node(a, b, k, w, off)})
BY SetFactsHold, InsertedIsMap, Zenon

\* The areas of a process never overlap and are never empty: AreasWellFormed
\* is an invariant (range_map.rs:13, for every caller in user_area.rs).
THEOREM AreasWellFormedHolds == Spec => []AreasWellFormed
<1>1. Init => MapsInv
  BY MapsInit
<1>2. MapsInv /\ [Next]_vars => MapsInv'
  BY SetFactsHold, MapsNext, ZenonT(30)
<1> QED BY <1>1, <1>2, MapsAreDisjoint, PTL DEF Spec

\* The whole invariant holds in every state.
LEMMA MemoryInvHolds == Spec => []MemoryInv
<1>1. Init => MemoryInv
  BY SetFactsHold, MemoryInit, ZenonT(30)
<1>2. MemoryInv /\ [Next]_vars => MemoryInv'
  BY SetFactsHold, MemoryNext
<1> QED BY <1>1, <1>2, PTL DEF Spec

\* No use after free, for any number of processes, frames and segments: what a
\* running process maps or a segment owns is counted, and the allocator holds
\* the frames that count nobody (CountCoversRefs; frame_ref_cnt.rs).
THEOREM CountCoversRefsHolds == Spec => []CountCoversRefs
<1>1. MemoryInv => CountCoversRefs
  BY CountsCover, ZenonT(30) DEF MemoryInv
<1> QED BY <1>1, MemoryInvHolds, PTL

\* No count is higher than the entries and segments that refer to the frame, so
\* a frame whose users let go of it returns to the allocator (NoFrameLost).
THEOREM NoFrameLostHolds == Spec => []NoFrameLost
<1>1. MemoryInv => NoFrameLost
  BY CountsAreUsed DEF MemoryInv
<1> QED BY <1>1, MemoryInvHolds, PTL

\* Copy on write is exclusive: a page that a running process may write, outside
\* the share region, is mapped by no other page and is no segment's
\* (CowExclusive; pagetable.rs 260-275 and user_area.rs 264-291).
THEOREM CowExclusiveHolds == Spec => []CowExclusive
<1>1. MemoryInv => CowExclusive
  BY WritesAreExclusive
<1> QED BY <1>1, MemoryInvHolds, PTL

\* The page of an area of a segment is mapped to the frame the segment owns, in
\* every process (AttachedShowsSegment; attach_shm, clone_cow and every call
\* that drops the last Arc<Shm>).
THEOREM AttachedShowsSegmentHolds == Spec => []AttachedShowsSegment
BY SegmentsShow, MemoryInvHolds, PTL

\* The processes are isolated: to them, the memory built of areas, demand
\* paging, copy on write, shared segments and counted frames is the memory of
\* AddressSpaces (IsolatedMemory).  A store shows where it was made and through
\* shared segments only, fork copies, a page fault never shows, a mapping call
\* concerns its caller, and what a process reads survives every step of others.
THEOREM IsolatedMemoryHolds == Spec => IsolatedMemory
<1>1. Init => Abstract!Init
  BY AbstractInit
<1>2. MemoryInv /\ MemoryInv' /\ [Next]_vars => [Abstract!Next]_Abstract!spaceVars
  BY SetFactsHold, AbstractNext
<1> QED BY <1>1, <1>2, MemoryInvHolds, PTL DEF Spec, IsolatedMemory, Abstract!Spec
===============================================================================
