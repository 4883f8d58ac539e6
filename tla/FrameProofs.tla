------------------------------ MODULE FrameProofs -----------------------------
(*****************************************************************************)
(* The counts of the frames, for any number of processes, frames and         *)
(* segments: what each step changes in the page tables, and that it changes  *)
(* the count of every frame as much as the references to it                  *)
(* (memory/frame_ref_cnt.rs).                                                *)
(*****************************************************************************)
EXTENDS UserMemoryProofs

-------------------------------------------------------------------------------
(* Counting the entries that refer to a frame. *)

\* The entries of the tables T of the processes in P that refer to f.
RefsIn(T, P, f) == {x \in P \X Pages : T[x[1]][x[2]].frame = f}
Count(T, P, f) == Cardinality(RefsIn(T, P, f))

\* The pages of an address space are finitely many integers.
LEMMA PagesFinite ==
    ASSUME SetFacts
    PROVE  Pages \subseteq Int /\ IsFiniteSet(Pages)
BY Layout, IntervalFinite DEF Pages

\* The entries that refer to a frame are finitely many.
LEMMA RefsFinite ==
    ASSUME SetFacts, NEW P \in SUBSET Procs, NEW T, NEW f
    PROVE  IsFiniteSet(RefsIn(T, P, f)) /\ Count(T, P, f) \in Nat
<1>1. IsFiniteSet(P)
  BY Names, SubsetCount
<1>2. IsFiniteSet(P \X Pages)
  BY <1>1, PagesFinite, ProductCount
<1>3. IsFiniteSet(RefsIn(T, P, f))
  BY <1>2, SubsetCount DEF RefsIn
<1> QED BY <1>3, CountIsNat DEF Count

\* The segments on a frame are finitely many.
LEMMA SegsFinite ==
    ASSUME SetFacts
    PROVE  \A f : IsFiniteSet(SegsOn(f)) /\ Cardinality(SegsOn(f)) \in Nat
<1> SUFFICES ASSUME NEW f PROVE IsFiniteSet(SegsOn(f)) /\ Cardinality(SegsOn(f)) \in Nat
  OBVIOUS
<1>1. IsFiniteSet(SegsOn(f))
  BY Names, SubsetCount DEF SegsOn
<1> QED BY <1>1, CountIsNat

\* Fewer processes refer to a frame less often.
LEMMA FewerRefs ==
    ASSUME SetFacts, NEW Q \in SUBSET Procs, NEW P \in SUBSET Q, NEW T, NEW f
    PROVE  Count(T, P, f) <= Count(T, Q, f)
<1>1. RefsIn(T, P, f) \in SUBSET RefsIn(T, Q, f)
  BY DEF RefsIn
<1> QED BY <1>1, RefsFinite, SubsetCount DEF Count

\* A process that maps a frame takes an entry with it when it ends.
LEMMA OneProcessLess ==
    ASSUME SetFacts, NEW P \in SUBSET Procs, NEW T, NEW p \in P, NEW v \in Pages, NEW f, T[p][v].frame = f
    PROVE  Count(T, P \ {p}, f) + 1 <= Count(T, P, f)
<1> DEFINE x == <<p, v>>
           R == RefsIn(T, P, f)
           L == RefsIn(T, P \ {p}, f)
<1>1. x \in R /\ L \in SUBSET (R \ {x})
  BY DEF RefsIn
<1>2. IsFiniteSet(R) /\ Cardinality(R) \in Nat /\ Cardinality(L) \in Nat
  BY RefsFinite DEF Count
<1> HIDE DEF x, R, L
<1>3. IsFiniteSet(R \ {x}) /\ Cardinality(R \ {x}) = Cardinality(R) - 1
  BY <1>1, <1>2, RemoveCount
<1>4. Cardinality(L) <= Cardinality(R \ {x})
  BY <1>1, <1>3, SubsetCount
<1>5. Cardinality(L) + 1 <= Cardinality(R)
  BY <1>2, <1>3, <1>4
<1> QED BY <1>5 DEF Count, R, L

\* Tables that differ in one entry, and tables that agree on a frame.
OnlyEntry(T, U, P, p, v) ==
    \A q \in P, u \in Pages : q # p \/ u # v => U[q][u].frame = T[q][u].frame
Gains(T, U, P, p, v, f) == OnlyEntry(T, U, P, p, v) /\ T[p][v].frame # f /\ U[p][v].frame = f
Agree(T, U, P, f) ==
    \A q \in P, u \in Pages : (U[q][u].frame = f) <=> (T[q][u].frame = f)

\* Tables that agree on a frame refer to it equally often.
LEMMA SameRefs ==
    ASSUME NEW P, NEW T, NEW U, NEW f, Agree(T, U, P, f)
    PROVE  RefsIn(U, P, f) = RefsIn(T, P, f) /\ Count(U, P, f) = Count(T, P, f)
BY Zenon DEF RefsIn, Count, Agree

\* One entry comes to refer to f.
LEMMA OneRefMore ==
    ASSUME SetFacts, NEW P \in SUBSET Procs, NEW T, NEW U, NEW f, NEW p \in P, NEW v \in Pages,
           Gains(T, U, P, p, v, f)
    PROVE  /\ RefsIn(U, P, f) = RefsIn(T, P, f) \cup {<<p, v>>}
           /\ Count(U, P, f) = Count(T, P, f) + 1
<1> DEFINE x == <<p, v>>
           R == RefsIn(T, P, f)
<1>1. RefsIn(U, P, f) = R \cup {x} /\ x \notin R
  BY DEF RefsIn, Gains, OnlyEntry
<1>2. IsFiniteSet(R)
  BY RefsFinite
<1>3. Cardinality(R \cup {x}) = Cardinality(R) + 1
  <2> HIDE DEF x, R
  <2> QED BY <1>1, <1>2, AddCount, Zenon
<1> QED BY <1>1, <1>3 DEF Count

\* One entry ceases to refer to f.
LEMMA OneRefLess ==
    ASSUME SetFacts, NEW P \in SUBSET Procs, NEW T, NEW U, NEW f, NEW p \in P, NEW v \in Pages,
           Gains(U, T, P, p, v, f)
    PROVE  /\ RefsIn(U, P, f) = RefsIn(T, P, f) \ {<<p, v>>}
           /\ Count(U, P, f) = Count(T, P, f) - 1
<1> DEFINE x == <<p, v>>
           R == RefsIn(T, P, f)
<1>1. RefsIn(U, P, f) = R \ {x} /\ x \in R
  BY DEF RefsIn, Gains, OnlyEntry
<1>2. IsFiniteSet(R)
  BY RefsFinite
<1>3. Cardinality(R \ {x}) = Cardinality(R) - 1
  <2> HIDE DEF x, R
  <2> QED BY <1>1, <1>2, RemoveCount, Zenon
<1> QED BY <1>1, <1>3 DEF Count

\* The pages of one table that refer to a frame.
LEMMA TableRefs ==
    ASSUME SetFacts, NEW t, NEW S \in SUBSET Pages, NEW f, NEW p
    PROVE  LET V == {v \in S : t[v].frame = f}
           IN  /\ IsFiniteSet({p} \X V) /\ Cardinality({p} \X V) = RefsFrom(t, S, f)
               /\ RefsFrom(t, S, f) \in Nat
<1> DEFINE V == {v \in S : t[v].frame = f}
<1>1. IsFiniteSet(V) /\ Cardinality(V) \in Nat
  BY PagesFinite, SubsetCount, CountIsNat, Zenon
<1>2. IsFiniteSet({p}) /\ Cardinality({p}) = 1
  BY SingletonCount, Zenon
<1>3. RefsFrom(t, S, f) = Cardinality(V)
  BY DEF RefsFrom
<1> HIDE DEF V
<1>4. IsFiniteSet({p} \X V) /\ Cardinality({p} \X V) = 1 * Cardinality(V)
  BY <1>1, <1>2, ProductCount
<1>5. Cardinality({p} \X V) = Cardinality(V)
  BY <1>1, <1>4
<1>6. IsFiniteSet({p} \X V) /\ Cardinality({p} \X V) = RefsFrom(t, S, f) /\ RefsFrom(t, S, f) \in Nat
  BY <1>1, <1>3, <1>4, <1>5
<1> QED BY <1>6 DEF V

\* release_range: the entries of the pages S of p go.
LosesPages(T, U, P, p, S, f) ==
    \A q \in P, u \in Pages :
        IF q = p /\ u \in S THEN U[q][u].frame # f ELSE U[q][u].frame = T[q][u].frame

\* A frame loses as many references as the released pages had entries for it.
LEMMA ReleasedRefs ==
    ASSUME SetFacts, NEW P \in SUBSET Procs, NEW T, NEW U, NEW f, NEW p \in P, NEW S \in SUBSET Pages,
           LosesPages(T, U, P, p, S, f)
    PROVE  Count(U, P, f) = Count(T, P, f) - RefsFrom(T[p], S, f)
<1> DEFINE V == {v \in S : T[p][v].frame = f}
           R == RefsIn(T, P, f)
<1>1. RefsIn(U, P, f) = R \ ({p} \X V)
  BY DEF RefsIn, LosesPages
<1>2. R \cap ({p} \X V) = {p} \X V
  BY DEF RefsIn
<1>3. Cardinality({p} \X V) = RefsFrom(T[p], S, f)
  BY TableRefs, Zenon
<1>4. IsFiniteSet(R)
  BY RefsFinite
<1> HIDE DEF V, R
<1>5. Cardinality(R \ ({p} \X V)) = Cardinality(R) - Cardinality(R \cap ({p} \X V))
  BY <1>4, DifferenceCount, Zenon
<1> QED BY <1>1, <1>2, <1>3, <1>5, ZenonT(30) DEF Count, R

\* clone_cow: a process without entries gets those of another one.
Copies(T, U, P, p, q, f) ==
    /\ \A u \in Pages : T[q][u].frame # f /\ U[q][u].frame = T[p][u].frame
    /\ \A r \in P \ {q}, u \in Pages : U[r][u].frame = T[r][u].frame

\* A frame gains as many references by a fork as the copied table had entries
\* for it.
LEMMA CopiedRefs ==
    ASSUME SetFacts, NEW P \in SUBSET Procs, NEW T, NEW U, NEW f, NEW p \in P, NEW q \in Procs,
           Copies(T, U, P, p, q, f)
    PROVE  Count(U, P \cup {q}, f) = Count(T, P, f) + RefsFrom(T[p], Pages, f)
<1> DEFINE V == {v \in Pages : T[p][v].frame = f}
           R == RefsIn(T, P, f)
<1>1. RefsIn(U, P \cup {q}, f) = R \cup ({q} \X V) /\ R \cap ({q} \X V) = {}
  BY DEF RefsIn, Copies
<1>2. /\ IsFiniteSet({q} \X V) /\ Cardinality({q} \X V) = RefsFrom(T[p], Pages, f)
      /\ RefsFrom(T[p], Pages, f) \in Nat
  <2>1. PICK S \in SUBSET Pages : S = Pages
    OBVIOUS
  <2>2. IsFiniteSet({q} \X V)
    <3>1. {q} \X V \in SUBSET RefsIn(U, P \cup {q}, f)
      BY <1>1, Zenon
    <3>2. P \cup {q} \in SUBSET Procs
      OBVIOUS
    <3> QED BY <3>1, <3>2, RefsFinite, SubsetCount
  <2>3. Cardinality({q} \X {v \in S : T[p][v].frame = f}) = RefsFrom(T[p], S, f)
    BY TableRefs, Zenon
  <2>4. RefsFrom(T[p], S, f) \in Nat
    BY TableRefs, Zenon
  <2> QED BY <2>1, <2>2, <2>3, <2>4
<1>3. IsFiniteSet(R) /\ Cardinality(R) \in Nat
  BY RefsFinite DEF Count
<1> HIDE DEF V, R
<1>4. Cardinality(R \cup ({q} \X V))
        = Cardinality(R) + Cardinality({q} \X V) - Cardinality(R \cap ({q} \X V))
  BY <1>2, <1>3, UnionCount
<1>5. Cardinality(R \cap ({q} \X V)) = 0
  BY <1>1, EmptyCount
<1>6. Cardinality(R \cup ({q} \X V)) = Cardinality(R) + RefsFrom(T[p], Pages, f)
  BY <1>2, <1>3, <1>4, <1>5
<1> QED BY <1>1, <1>6, Zenon DEF Count, R

-------------------------------------------------------------------------------
(* The counts. *)

IsEntry(e) == e.frame \in Frames \/ e = Invalid

\* What the variables hold; a process that has not been created maps nothing.
MemType ==
    /\ rc \in [Frames -> Int] /\ DOMAIN mem = Frames
    /\ allocated = {f \in Frames : rc[f] > 0}
    /\ DOMAIN pte = Procs /\ \A p \in Procs : DOMAIN pte[p] = Pages
    /\ \A p \in Procs, v \in Pages : IsEntry(pte[p][v])
    /\ segFrame \in [Segs -> Frames \cup {NoFrame}]
    /\ tables \in [Procs -> SUBSET Segs] /\ keyed \in SUBSET Segs
    /\ life \in [Procs -> {"none", "run", "dead"}]
    /\ \A p \in Procs, v \in Pages : life[p] = "none" => pte[p][v].frame = NoFrame

\* A count is between the references of the running processes and those of all
\* processes.  Segments own different frames, and exist while they are named.
CountInv ==
    /\ \A f \in Frames : rc[f] <= Count(pte, Procs, f) + Cardinality(SegsOn(f))
    /\ panic # "count lost" =>
           \A f \in Frames : Count(pte, Running, f) + Cardinality(SegsOn(f)) <= rc[f]
    /\ \A s, t \in Segs : segFrame[s] = segFrame[t] /\ segFrame[s] # NoFrame => s = t
    /\ \A s \in Segs : s \in keyed \/ (\E p \in Procs : s \in tables[p]) => segFrame[s] # NoFrame

\* Running processes are processes.
LEMMA RunningProcs == Running \in SUBSET Procs
BY DEF Running

\* Nobody refers to a frame that the allocator may hand out.
LEMMA FreshFrame ==
    ASSUME SetFacts, MemType, CountInv, panic = "no", NEW f \in Frames, f \notin allocated
    PROVE  /\ rc[f] = 0 /\ SegsOn(f) = {} /\ RefsIn(pte, Running, f) = {}
           /\ \A p \in Running, v \in Pages : pte[p][v].frame # f
           /\ \A s \in Segs : segFrame[s] # f
<1>1. Count(pte, Running, f) \in Nat /\ Cardinality(SegsOn(f)) \in Nat
  BY RunningProcs, RefsFinite, SegsFinite, ZenonT(30)
<1>2. rc[f] \in Int /\ rc[f] <= 0 /\ Count(pte, Running, f) + Cardinality(SegsOn(f)) <= rc[f]
  BY DEF MemType, CountInv
<1>3. rc[f] = 0 /\ Count(pte, Running, f) = 0 /\ Cardinality(SegsOn(f)) = 0
  BY <1>1, <1>2
<1>4. SegsOn(f) = {}
  BY <1>3, SegsFinite, EmptyCount
<1>5. RefsIn(pte, Running, f) = {}
  BY <1>3, RunningProcs, RefsFinite, EmptyCount DEF Count
<1>6. \A p \in Running, v \in Pages : pte[p][v].frame # f
  <2> SUFFICES ASSUME NEW p \in Running, NEW v \in Pages, pte[p][v].frame = f PROVE FALSE
    OBVIOUS
  <2>1. <<p, v>> \in RefsIn(pte, Running, f)
    BY DEF RefsIn
  <2> QED BY <1>5, <2>1
<1>7. \A s \in Segs : segFrame[s] # f
  BY <1>4 DEF SegsOn
<1> QED BY <1>3, <1>4, <1>5, <1>6, <1>7

\* A frame that a running process maps has been counted.
LEMMA MappedCounted ==
    ASSUME SetFacts, MemType, CountInv, panic = "no", NEW p \in Running, NEW v \in Pages,
           NEW f \in Frames, pte[p][v].frame = f
    PROVE  rc[f] >= 1 /\ f \in allocated
<1>1. f \in allocated
  BY FreshFrame
<1> QED BY <1>1 DEF MemType

\* The only reference to a frame that counts one.
LEMMA SoleUser ==
    ASSUME SetFacts, MemType, CountInv, panic = "no", NEW p \in Running, NEW v \in Pages,
           NEW f \in Frames, pte[p][v].frame = f, rc[f] <= 1
    PROVE  /\ \A s \in Segs : segFrame[s] # f
           /\ \A q \in Running, u \in Pages : pte[q][u].frame = f => q = p /\ u = v
<1> DEFINE R == RefsIn(pte, Running, f)
           x == <<p, v>>
<1>1. x \in R
  BY DEF RefsIn
<1>2. IsFiniteSet(R) /\ Cardinality(R) \in Nat /\ Cardinality(SegsOn(f)) \in Nat
  BY RunningProcs, RefsFinite, SegsFinite, ZenonT(30) DEF Count
<1>3. Cardinality(R) + Cardinality(SegsOn(f)) <= rc[f] /\ rc[f] \in Int
  BY DEF MemType, CountInv, Count
<1>4. R = {x} /\ Cardinality(SegsOn(f)) = 0
  <2> HIDE DEF R, x
  <2>1. Cardinality(R) # 0
    BY <1>1, <1>2, EmptyCount
  <2>2. Cardinality(R) = 1 /\ Cardinality(SegsOn(f)) = 0
    BY <1>2, <1>3, <2>1
  <2>3. \E y : R = {y}
    BY <1>2, <2>2, SingletonCount, Zenon
  <2> QED BY <1>1, <2>2, <2>3
<1>5. \A s \in Segs : segFrame[s] # f
  <2>1. SegsOn(f) = {}
    BY <1>4, SegsFinite, EmptyCount
  <2> QED BY <2>1 DEF SegsOn
<1>6. ASSUME NEW q \in Running, NEW u \in Pages, pte[q][u].frame = f
      PROVE  q = p /\ u = v
  <2>1. <<q, u>> \in R
    BY <1>6 DEF RefsIn
  <2> QED BY <1>4, <2>1
<1> QED BY <1>5, <1>6

\* The entry of page v of p gets a new frame g, and its old frame, if any, loses
\* a reference: lazy allocation, lazy load, and a copy on write.
NewPage(p, v, g, w, content) ==
    /\ g \notin allocated /\ allocated' = allocated \cup {g}
    /\ pte[p][v].frame \in Frames => rc[pte[p][v].frame] > 1
    /\ rc' = [h \in Frames |-> IF h = g THEN rc[h] + 1
                               ELSE IF h = pte[p][v].frame THEN rc[h] - 1 ELSE rc[h]]
    /\ mem' = [mem EXCEPT ![g] = content]
    /\ pte' = [pte EXCEPT ![p][v] = Entry(g, w, FALSE)]
    /\ UNCHANGED <<areas, life, shm, panic>>

\* The page tables after a page got a new frame.
LEMMA NewPageEntries ==
    ASSUME SetFacts, MemType, CountInv, panic = "no", NEW p \in Running, NEW v \in Pages, NEW g \in Frames,
           NEW w, NEW content, NewPage(p, v, g, w, content)
    PROVE  /\ DOMAIN pte' = Procs /\ \A q \in Procs : DOMAIN pte'[q] = Pages
           /\ pte'[p][v] = Entry(g, w, FALSE) /\ pte'[p][v].frame = g
           /\ \A q \in Procs, u \in Pages : q # p \/ u # v => pte'[q][u] = pte[q][u]
           /\ pte[p][v].frame # g /\ p \in Procs /\ life[p] = "run"
           /\ Running' = Running /\ \A f : SegsOn(f)' = SegsOn(f)
<1>1. p \in Procs /\ life[p] = "run"
  BY DEF Running
<1>2. pte' = [pte EXCEPT ![p][v] = Entry(g, w, FALSE)] /\ g \notin allocated
  BY DEF NewPage
<1>3. DOMAIN pte' = Procs /\ \A q \in Procs : DOMAIN pte'[q] = Pages
  BY <1>1, <1>2 DEF MemType
<1>4. \A q \in Procs, u \in Pages : pte'[q][u] = IF q = p /\ u = v THEN Entry(g, w, FALSE) ELSE pte[q][u]
  BY <1>1, <1>2, ZenonT(30) DEF MemType
<1>5. pte[p][v].frame # g
  BY <1>2, FreshFrame
<1>6. Running' = Running /\ \A f : SegsOn(f)' = SegsOn(f)
  BY DEF NewPage, Running, SegsOn, shm
<1>7. Entry(g, w, FALSE).frame = g
  BY ZenonT(30) DEF Entry
<1> QED BY <1>1, <1>3, <1>4, <1>5, <1>6, <1>7, Zenon

\* A page with a frame that was just allocated (count one) keeps the counts
\* right.
LEMMA NewPageCount ==
    ASSUME SetFacts, MemType, CountInv, panic = "no", NEW p \in Running, NEW v \in Pages, NEW g \in Frames,
           NEW w, NEW content, NewPage(p, v, g, w, content)
    PROVE  MemType' /\ CountInv'
<1> DEFINE o == pte[p][v].frame
<1>1. /\ DOMAIN pte' = Procs /\ \A q \in Procs : DOMAIN pte'[q] = Pages
      /\ pte'[p][v] = Entry(g, w, FALSE) /\ pte'[p][v].frame = g
      /\ \A q \in Procs, u \in Pages : q # p \/ u # v => pte'[q][u] = pte[q][u]
      /\ o # g /\ p \in Procs /\ life[p] = "run"
      /\ Running' = Running /\ \A f : SegsOn(f)' = SegsOn(f)
  BY NewPageEntries, Zenon
<1>2. /\ allocated' = allocated \cup {g}
      /\ o \in Frames => rc[o] > 1
      /\ rc' = [h \in Frames |-> IF h = g THEN rc[h] + 1 ELSE IF h = o THEN rc[h] - 1 ELSE rc[h]]
      /\ mem' = [mem EXCEPT ![g] = content]
      /\ UNCHANGED <<life, segFrame, tables, keyed, panic>>
  BY DEF NewPage, shm
<1>3. rc[g] = 0
  BY FreshFrame DEF NewPage
<1>4. MemType'
  <2>1. rc' \in [Frames -> Int] /\ DOMAIN mem' = Frames
    BY <1>2, SMTT(30) DEF MemType
  <2>2. allocated' = {f \in Frames : rc'[f] > 0}
    BY <1>1, <1>2, <1>3 DEF MemType
  <2>3. \A q \in Procs, u \in Pages : IsEntry(pte'[q][u])
    <3>1. IsEntry(pte'[p][v])
      BY <1>1, Zenon DEF IsEntry
    <3>2. \A q \in Procs, u \in Pages : IsEntry(pte[q][u])
      BY ZenonT(30) DEF MemType
    <3> QED BY <1>1, <3>1, <3>2, ZenonT(30)
  <2>4. \A q \in Procs, u \in Pages : life[q] = "none" => pte'[q][u].frame = NoFrame
    <3>1. \A q \in Procs, u \in Pages : life[q] = "none" => pte[q][u].frame = NoFrame
      BY DEF MemType
    <3>2. \A q \in Procs, u \in Pages : life[q] = "none" => q # p
      BY <1>1, ZenonT(30)
    <3> QED BY <1>1, <3>1, <3>2, SMTT(30)
  <2> QED BY <1>1, <1>2, <2>1, <2>2, <2>3, <2>4, ZenonT(30) DEF MemType
<1>5. ASSUME NEW P \in SUBSET Procs, p \in P, NEW f \in Frames
      PROVE  /\ Count(pte', P, f) - rc'[f] = Count(pte, P, f) - rc[f]
             /\ Count(pte', P, f) \in Nat /\ Count(pte, P, f) \in Nat
             /\ rc[f] \in Int /\ rc'[f] \in Int
  <2>0. Count(pte', P, f) \in Nat /\ Count(pte, P, f) \in Nat /\ rc[f] \in Int
    BY RefsFinite, ZenonT(30) DEF MemType
  <2>4. OnlyEntry(pte, pte', P, p, v)
    BY <1>1, ZenonT(30) DEF OnlyEntry
  <2>1. CASE f = g
    <3>1. Count(pte', P, f) = Count(pte, P, f) + 1
      <4>1. Gains(pte, pte', P, p, v, f)
        BY <1>1, <2>1, <2>4, Zenon DEF Gains
      <4> QED BY <1>5, <4>1, OneRefMore
    <3> QED BY <1>2, <2>0, <2>1, <3>1, SMTT(30)
  <2>2. CASE f = o
    <3>1. Count(pte', P, f) = Count(pte, P, f) - 1
      <4>1. Gains(pte', pte, P, p, v, f)
        BY <1>1, <2>2, <2>4, Zenon DEF Gains, OnlyEntry
      <4> QED BY <1>5, <4>1, OneRefLess
    <3> QED BY <1>1, <1>2, <2>0, <2>2, <3>1, SMTT(30)
  <2>3. CASE f # g /\ f # o
    <3>1. Count(pte', P, f) = Count(pte, P, f)
      <4>1. Agree(pte, pte', P, f)
        BY <1>1, <2>3, Zenon DEF Agree
      <4> QED BY <4>1, SameRefs
    <3> QED BY <1>2, <2>0, <2>3, <3>1
  <2> QED BY <2>1, <2>2, <2>3, ZenonT(30)
<1>6. \A f \in Frames : Cardinality(SegsOn(f)) \in Nat /\ Cardinality(SegsOn(f)') = Cardinality(SegsOn(f))
  BY <1>1, SegsFinite, ZenonT(30)
<1>7. \A f \in Frames : rc'[f] <= Count(pte', Procs, f) + Cardinality(SegsOn(f)')
  BY <1>1, <1>5, <1>6, SMTT(30) DEF CountInv
<1>8. \A f \in Frames : Count(pte', Running, f) + Cardinality(SegsOn(f)') <= rc'[f]
  BY <1>5, <1>6, RunningProcs, SMTT(30) DEF CountInv
<1> QED BY <1>1, <1>2, <1>4, <1>7, <1>8, ZenonT(30) DEF CountInv

\* The types of the tables and segments in the state after a step.
NextType ==
    /\ DOMAIN mem' = Frames
    /\ DOMAIN pte' = Procs /\ \A p \in Procs : DOMAIN pte'[p] = Pages
    /\ \A p \in Procs, v \in Pages : IsEntry(pte'[p][v])
    /\ segFrame' \in [Segs -> Frames \cup {NoFrame}]
    /\ tables' \in [Procs -> SUBSET Segs] /\ keyed' \in SUBSET Segs
    /\ life' \in [Procs -> {"none", "run", "dead"}]
    /\ \A p \in Procs, v \in Pages : life'[p] = "none" => pte'[p][v].frame = NoFrame

\* The types after a step, from those of its parts.
LEMMA NextTypeOf ==
    ASSUME NextType, rc' \in [Frames -> Int], allocated' = {f \in Frames : rc'[f] > 0}
    PROVE  MemType'
BY DEF NextType, MemType

\* A step in which no entry changes its frame, no count changes, and processes
\* may end.
LEMMA QuietCount ==
    ASSUME SetFacts, MemType, CountInv, panic = "no", NextType,
           UNCHANGED <<rc, allocated, segFrame>>,
           \A p \in Procs, v \in Pages : pte'[p][v].frame = pte[p][v].frame,
           \A p \in Procs : life'[p] = "run" => life[p] = "run",
           \A s \in Segs : s \in keyed' \/ (\E p \in Procs : s \in tables'[p]) => segFrame[s] # NoFrame
    PROVE  MemType' /\ CountInv'
<1>1. MemType'
  BY NextTypeOf DEF MemType
<1>2. \A f : SegsOn(f)' = SegsOn(f) /\ Cardinality(SegsOn(f)) \in Nat
  BY SegsFinite, Zenon DEF SegsOn
<1>3. Running' \in SUBSET Running /\ Running \in SUBSET Procs
  BY ZenonT(30) DEF Running
<1>4. ASSUME NEW f \in Frames
      PROVE  /\ Count(pte', Procs, f) = Count(pte, Procs, f)
             /\ Count(pte', Running', f) <= Count(pte, Running, f)
             /\ Count(pte', Running', f) \in Nat /\ Count(pte, Running, f) \in Nat /\ rc[f] \in Int
  <2>1. Agree(pte, pte', Procs, f) /\ Agree(pte, pte', Running', f)
    BY <1>3, ZenonT(30) DEF Agree
  <2>2. Count(pte', Procs, f) = Count(pte, Procs, f)
    BY <2>1, SameRefs, ZenonT(30)
  <2>3. Count(pte', Running', f) = Count(pte, Running', f)
    BY <2>1, SameRefs, ZenonT(30)
  <2>4. Count(pte, Running', f) <= Count(pte, Running, f)
    BY <1>3, FewerRefs, ZenonT(30)
  <2>5. Count(pte', Running', f) \in Nat /\ Count(pte, Running, f) \in Nat /\ rc[f] \in Int
    BY <1>3, RefsFinite, ZenonT(30) DEF MemType
  <2> QED BY <2>2, <2>3, <2>4, <2>5, ZenonT(30)
<1>5. \A f \in Frames : rc'[f] <= Count(pte', Procs, f) + Cardinality(SegsOn(f)')
  BY <1>2, <1>4, ZenonT(30) DEF CountInv
<1>6. \A f \in Frames : Count(pte', Running', f) + Cardinality(SegsOn(f)') <= rc'[f]
  <2> SUFFICES ASSUME NEW f \in Frames
               PROVE  Count(pte', Running', f) + Cardinality(SegsOn(f)') <= rc'[f]
    BY ZenonT(30)
  <2>1. Count(pte, Running, f) + Cardinality(SegsOn(f)) <= rc[f]
    BY DEF CountInv
  <2> QED BY <1>2, <1>4, <2>1, SMTT(30)
<1> QED BY <1>1, <1>5, <1>6, ZenonT(30) DEF CountInv

\* A copy on write that gets no frame: the count has gone down, and the process
\* ends or the counts are no longer watched.
LosesRef(p, v, f) ==
    /\ pte[p][v].frame = f /\ rc[f] > 1 /\ rc' = [rc EXCEPT ![f] = @ - 1]
    /\ UNCHANGED <<areas, pte, allocated, mem, shm>>
    /\ \/ panic' = "count lost" /\ life' = life
       \/ panic' = panic /\ life' = [life EXCEPT ![p] = "dead"]

\* A failed copy gives the reference back while the entry stays: the count
\* remains within its bounds, because the kernel stops or the process ends.
LEMMA LostCount ==
    ASSUME SetFacts, MemType, CountInv, panic = "no", NEW p \in Running, NEW v \in Pages, NEW f \in Frames,
           LosesRef(p, v, f)
    PROVE  MemType' /\ CountInv'
<1>10. rc' = [rc EXCEPT ![f] = rc[f] - 1] /\ rc[f] > 1
  BY Zenon DEF LosesRef
<1>0. /\ pte[p][v].frame = f
      /\ UNCHANGED <<pte, allocated, mem, segFrame, tables, keyed>>
      /\ panic' # "count lost" => life' = [life EXCEPT ![p] = "dead"]
      /\ life' = life \/ life' = [life EXCEPT ![p] = "dead"]
  BY Zenon DEF LosesRef, shm
<1>1. /\ rc' \in [Frames -> Int] /\ rc'[f] = rc[f] - 1
      /\ \A g \in Frames \ {f} : rc'[g] = rc[g]
  <2>1. rc \in [Frames -> Int]
    BY DEF MemType
  <2>2. rc' \in [Frames -> Int]
    BY <1>10, <2>1
  <2> QED BY <1>10, <2>1, <2>2, ZenonT(30)
<1>2. allocated' = {g \in Frames : rc'[g] > 0}
  <2>1. rc[f] \in Int /\ allocated = {g \in Frames : rc[g] > 0}
    BY DEF MemType
  <2>2. rc'[f] > 0
    BY <1>1, <1>10, <2>1
  <2>3. \A g \in Frames : (rc'[g] > 0) <=> (rc[g] > 0)
    BY <1>1, <1>10, <2>1, <2>2
  <2> QED BY <1>0, <2>1, <2>3, Zenon
<1>3. life' \in [Procs -> {"none", "run", "dead"}] /\ \A q \in Procs : life'[q] = "none" => life[q] = "none"
  BY <1>0, ZenonT(30) DEF MemType
<1>4. NextType
  BY <1>0, <1>3, ZenonT(30) DEF NextType, MemType
<1>5. MemType'
  BY <1>1, <1>2, <1>4, NextTypeOf
<1>6. \A g : SegsOn(g)' = SegsOn(g) /\ Cardinality(SegsOn(g)) \in Nat
  BY <1>0, SegsFinite, ZenonT(30) DEF SegsOn
<1>7. \A g \in Frames : /\ Count(pte, Procs, g) \in Nat /\ Count(pte, Running, g) \in Nat
                        /\ Count(pte, Running \ {p}, g) \in Nat /\ rc[g] \in Int
  <2>1. Procs \in SUBSET Procs /\ Running \in SUBSET Procs /\ Running \ {p} \in SUBSET Procs
    BY ZenonT(30) DEF Running
  <2> QED BY <2>1, RefsFinite DEF MemType
<1>8. \A g \in Frames : rc'[g] <= Count(pte, Procs, g) + Cardinality(SegsOn(g))
  <2>1. \A g \in Frames : rc[g] <= Count(pte, Procs, g) + Cardinality(SegsOn(g))
    BY DEF CountInv
  <2>2. \A g \in Frames : rc'[g] \in Int /\ rc'[g] <= rc[g]
    BY <1>1, <1>7
  <2> QED BY <1>6, <1>7, <2>1, <2>2, SMTT(30)
<1>9. ASSUME panic' # "count lost", NEW g \in Frames
      PROVE  Count(pte, Running', g) + Cardinality(SegsOn(g)) <= rc'[g]
  <2>1. Running' = Running \ {p}
    BY <1>0, <1>9, Zenon DEF Running, MemType
  <2>2. Count(pte, Running, g) + Cardinality(SegsOn(g)) <= rc[g]
    BY DEF CountInv
  <2>5. /\ Count(pte, Running, g) \in Nat /\ Count(pte, Running \ {p}, g) \in Nat
        /\ rc[g] \in Int /\ Cardinality(SegsOn(g)) \in Nat
    BY <1>6, <1>7
  <2>3. CASE g = f
    <3>1. Count(pte, Running \ {p}, f) + 1 <= Count(pte, Running, f)
      BY <1>0, RunningProcs, OneProcessLess, Zenon
    <3>2. rc'[g] = rc[g] - 1
      BY <1>1, <2>3, ZenonT(30)
    <3>3. Count(pte, Running \ {p}, g) + Cardinality(SegsOn(g)) <= rc'[g]
      BY <2>2, <2>3, <2>5, <3>1, <3>2, SMTT(30)
    <3> QED BY <2>1, <3>3
  <2>4. CASE g # f
    <3>1. Running \ {p} \in SUBSET Running /\ Running \in SUBSET Procs
      BY DEF Running
    <3>2. Count(pte, Running \ {p}, g) <= Count(pte, Running, g)
      BY <3>1, FewerRefs
    <3>3. rc'[g] = rc[g]
      BY <1>1, <2>4, ZenonT(30)
    <3>4. Count(pte, Running \ {p}, g) + Cardinality(SegsOn(g)) <= rc'[g]
      BY <2>2, <2>5, <3>2, <3>3, SMTT(30)
    <3> QED BY <2>1, <3>4
  <2> QED BY <2>3, <2>4
<1> QED BY <1>0, <1>5, <1>6, <1>8, <1>9, ZenonT(30) DEF CountInv

\* A step that changes the count of a frame as much as the references to it.
Balanced(f) ==
    /\ rc'[f] - rc[f] = (Count(pte', Procs, f) - Count(pte, Procs, f))
                          + (Cardinality(SegsOn(f)') - Cardinality(SegsOn(f)))
    /\ rc'[f] - rc[f] = (Count(pte', Running', f) - Count(pte, Running, f))
                          + (Cardinality(SegsOn(f)') - Cardinality(SegsOn(f)))

SegsNext ==
    /\ \A s, t \in Segs : segFrame'[s] = segFrame'[t] /\ segFrame'[s] # NoFrame => s = t
    /\ \A s \in Segs : s \in keyed' \/ (\E p \in Procs : s \in tables'[p]) => segFrame'[s] # NoFrame

\* The numbers that CountInv compares are natural numbers.
LEMMA CountTypes ==
    ASSUME SetFacts, NEW f
    PROVE  /\ Count(pte, Procs, f) \in Nat /\ Count(pte, Running, f) \in Nat
           /\ Count(pte', Procs, f) \in Nat /\ Count(pte', Running', f) \in Nat
           /\ Cardinality(SegsOn(f)) \in Nat /\ Cardinality(SegsOn(f)') \in Nat
<1>1. Procs \in SUBSET Procs /\ Running \in SUBSET Procs /\ Running' \in SUBSET Procs
  BY DEF Running
<1>2. IsFiniteSet(SegsOn(f)')
  BY Names, SubsetCount DEF SegsOn
<1>3. Cardinality(SegsOn(f)') \in Nat
  BY <1>2, CountIsNat
<1> QED BY <1>1, <1>3, RefsFinite, SegsFinite, ZenonT(30)

\* A step that changes each count as it changes entries and segments keeps the
\* counts right.
LEMMA BalancedCount ==
    ASSUME SetFacts, MemType, CountInv, panic = "no", NextType, SegsNext,
           rc' \in [Frames -> Int], allocated' = {f \in Frames : rc'[f] > 0},
           \A f \in Frames : Balanced(f)
    PROVE  MemType' /\ CountInv'
<1>1. MemType'
  BY NextTypeOf
<1>2. ASSUME NEW f \in Frames
      PROVE  /\ rc'[f] <= Count(pte', Procs, f) + Cardinality(SegsOn(f)')
             /\ Count(pte', Running', f) + Cardinality(SegsOn(f)') <= rc'[f]
  <2>1. rc[f] \in Int /\ rc'[f] \in Int
    BY ZenonT(30) DEF MemType
  <2>2. /\ rc[f] <= Count(pte, Procs, f) + Cardinality(SegsOn(f))
        /\ Count(pte, Running, f) + Cardinality(SegsOn(f)) <= rc[f]
    BY ZenonT(30) DEF CountInv
  <2> QED BY <2>1, <2>2, CountTypes, SMTT(30) DEF Balanced
<1> QED BY <1>1, <1>2, Zenon DEF CountInv, SegsNext

\* clone_cow.
LEMMA ForkEntries ==
    ASSUME MemType, NEW p \in Procs, NEW q \in Procs, Fork(p, q)
    PROVE  /\ NextType /\ p # q /\ p \in Running /\ q \notin Running
           /\ Running' = Running \cup {q}
           /\ \A u \in Pages : pte[q][u].frame = NoFrame
           /\ \A u \in Pages : pte'[q][u] = CowEntry(pte[p][u], u) /\ pte'[p][u] = CowEntry(pte[p][u], u)
           /\ \A r \in Procs \ {p, q}, u \in Pages : pte'[r][u] = pte[r][u]
           /\ \A u \in Pages : pte'[q][u].frame = pte[p][u].frame
           /\ \A r \in Procs \ {q}, u \in Pages : pte'[r][u].frame = pte[r][u].frame
<1>1. /\ life[p] = "run" /\ life[q] = "none" /\ life' = [life EXCEPT ![q] = "run"]
      /\ UNCHANGED <<mem, segFrame, tables, keyed>>
  BY DEF Fork, Runs, shm
<1>2. pte' = [r \in Procs |-> IF r \in {p, q} THEN [v \in Pages |-> CowEntry(pte[p][v], v)] ELSE pte[r]]
  BY DEF Fork
<1>3. p # q /\ p \in Running /\ q \notin Running /\ Running' = Running \cup {q}
  BY <1>1 DEF Running, MemType
<1>4. \A u \in Pages : pte[q][u].frame = NoFrame
  BY <1>1 DEF MemType
<1>5. \A e, u : CowEntry(e, u).frame = e.frame /\ (IsEntry(e) => IsEntry(CowEntry(e, u)))
  <2> SUFFICES ASSUME NEW e, NEW u
               PROVE  CowEntry(e, u).frame = e.frame /\ (IsEntry(e) => IsEntry(CowEntry(e, u)))
    OBVIOUS
  <2>1. CASE Valid(e) /\ ~InShare(u)
    <3>1. CowEntry(e, u).frame = e.frame
      BY <2>1 DEF CowEntry, Entry
    <3>2. e # Invalid
      BY <2>1 DEF Valid, Invalid, Entry
    <3> QED BY <3>1, <3>2 DEF IsEntry
  <2>2. CASE ~(Valid(e) /\ ~InShare(u))
    BY <2>2, Zenon DEF CowEntry
  <2> QED BY <2>1, <2>2
<1>6. /\ \A u \in Pages : pte'[q][u] = CowEntry(pte[p][u], u) /\ pte'[p][u] = CowEntry(pte[p][u], u)
      /\ \A r \in Procs \ {p, q}, u \in Pages : pte'[r][u] = pte[r][u]
      /\ DOMAIN pte' = Procs
  BY <1>2
<1>7. \A r \in Procs : DOMAIN pte'[r] = Pages
  <2>1. \A r \in Procs : DOMAIN pte[r] = Pages
    BY ZenonT(30) DEF MemType
  <2> QED BY <1>2, <2>1, ZenonT(30)
<1>8. \A r \in Procs, u \in Pages : IsEntry(pte'[r][u])
  <2>1. \A r \in Procs, u \in Pages : IsEntry(pte[r][u])
    BY ZenonT(30) DEF MemType
  <2> QED BY <1>5, <1>6, <2>1, SMTT(30)
<1>9. /\ \A u \in Pages : pte'[q][u].frame = pte[p][u].frame
      /\ \A r \in Procs \ {q}, u \in Pages : pte'[r][u].frame = pte[r][u].frame
  BY <1>5, <1>6, SMTT(30)
<1>10. /\ life' \in [Procs -> {"none", "run", "dead"}]
       /\ \A r \in Procs : life'[r] = "none" => life[r] = "none" /\ r # q
  BY <1>1, ZenonT(30) DEF MemType
<1>11. \A r \in Procs, u \in Pages : life'[r] = "none" => pte'[r][u].frame = NoFrame
  BY <1>9, <1>10, SMTT(30) DEF MemType
<1>12. NextType
  BY <1>1, <1>6, <1>7, <1>8, <1>10, <1>11, ZenonT(30) DEF NextType, MemType
<1> QED BY <1>3, <1>4, <1>6, <1>9, <1>12, ZenonT(30)

\* clone_cow counts each frame once more for every entry it copies.
LEMMA ForkCount ==
    ASSUME SetFacts, MemType, CountInv, panic = "no", NEW p \in Procs, NEW q \in Procs, Fork(p, q)
    PROVE  MemType' /\ CountInv'
<1>1. /\ rc' = [f \in Frames |-> rc[f] + RefsFrom(pte[p], Pages, f)]
      /\ UNCHANGED <<allocated, segFrame, tables, keyed>>
  BY ZenonT(30) DEF Fork, shm
<1>2. /\ NextType /\ p \in Running /\ q \notin Running /\ Running' = Running \cup {q}
      /\ \A u \in Pages : pte[q][u].frame = NoFrame
      /\ \A u \in Pages : pte'[q][u].frame = pte[p][u].frame
      /\ \A r \in Procs \ {q}, u \in Pages : pte'[r][u].frame = pte[r][u].frame
  BY ForkEntries
<1>3. ASSUME NEW f \in Frames
      PROVE  RefsFrom(pte[p], Pages, f) \in Nat /\ (RefsFrom(pte[p], Pages, f) > 0 => f \in allocated)
  <2>1. RefsFrom(pte[p], Pages, f) \in Nat
    <3>1. IsFiniteSet({v \in Pages : pte[p][v].frame = f})
      BY PagesFinite, SubsetCount
    <3> QED BY <3>1, CountIsNat DEF RefsFrom
  <2>2. ASSUME RefsFrom(pte[p], Pages, f) > 0  PROVE f \in allocated
    <3>1. CASE {v \in Pages : pte[p][v].frame = f} = {}
      <4>1. RefsFrom(pte[p], Pages, f) = 0
        BY <3>1, EmptyCount, Zenon DEF RefsFrom
      <4> QED BY <2>2, <4>1
    <3>2. CASE \E v \in Pages : pte[p][v].frame = f
      BY <1>2, <3>2, MappedCounted
    <3> QED BY <3>1, <3>2
  <2> QED BY <2>1, <2>2
<1>4. rc' \in [Frames -> Int] /\ allocated' = {f \in Frames : rc'[f] > 0}
  <2>1. rc \in [Frames -> Int] /\ allocated = {f \in Frames : rc[f] > 0}
    BY DEF MemType
  <2>2. rc' \in [Frames -> Int]
    BY <1>1, <1>3, <2>1
  <2>3. \A f \in Frames : (rc'[f] > 0) <=> (rc[f] > 0)
    BY <1>1, <1>3, <2>1
  <2> QED BY <1>1, <2>1, <2>2, <2>3, ZenonT(30)
<1>5. \A f : SegsOn(f)' = SegsOn(f)
  BY <1>1 DEF SegsOn
<1>6. ASSUME NEW P \in SUBSET Procs, p \in P, NEW f \in Frames
      PROVE  Count(pte', P \cup {q}, f) = Count(pte, P, f) + RefsFrom(pte[p], Pages, f)
  <2>1. \A u \in Pages : pte[q][u].frame # f /\ pte'[q][u].frame = pte[p][u].frame
    BY <1>2, Names
  <2>2. \A r \in P \ {q}, u \in Pages : pte'[r][u].frame = pte[r][u].frame
    BY <1>2
  <2>3. Copies(pte, pte', P, p, q, f)
    BY <2>1, <2>2, ZenonT(30) DEF Copies
  <2> QED BY <1>6, <2>3, CopiedRefs, SMTT(30)
<1>7. ASSUME NEW f \in Frames  PROVE Balanced(f)
  <2>1. Procs \cup {q} = Procs /\ Running \in SUBSET Procs /\ Procs \in SUBSET Procs
    BY DEF Running
  <2>2. Count(pte', Procs, f) = Count(pte, Procs, f) + RefsFrom(pte[p], Pages, f)
    BY <1>6, <2>1
  <2>3. Count(pte', Running', f) = Count(pte, Running, f) + RefsFrom(pte[p], Pages, f)
    BY <1>2, <1>6, <2>1, ZenonT(30)
  <2>4. rc'[f] = rc[f] + RefsFrom(pte[p], Pages, f) /\ rc[f] \in Int
    BY <1>1, ZenonT(30) DEF MemType
  <2> QED BY <1>3, <1>5, <2>2, <2>3, <2>4, CountTypes, SMTT(30) DEF Balanced
<1>8. SegsNext
  BY <1>1 DEF SegsNext, CountInv
<1> QED BY <1>2, <1>4, <1>7, <1>8, BalancedCount, ZenonT(30)

\* The reference of a segment that is dropped.
Dropped(f, as, ts) == IF OrphanFrame(f, as, ts) THEN 1 ELSE 0

\* ReleaseAndDrop when no assertion fails.
Releases(p, S, as, ts) ==
    /\ DeallocUnused([f \in Frames |-> CountsAfter(p, S)[f] - Dropped(f, as, ts)])
    /\ areas' = as
    /\ pte' = [pte EXCEPT ![p] = [v \in Pages |-> IF v \in S THEN Invalid ELSE pte[p][v]]]
    /\ tables' = ts
    /\ segFrame' = [s \in Segs |-> IF s \in Orphans(as, ts) THEN NoFrame ELSE segFrame[s]]
    /\ UNCHANGED <<keyed, life, panic>>

\* Releasing pages panics where must_dealloc finds no frame, or goes through.
LEMMA ReleaseCases ==
    ASSUME NEW p, NEW S, NEW as, NEW ts, ReleaseAndDrop(p, S, as, ts)
    PROVE  Panic("must_dealloc") \/ Releases(p, S, as, ts)
BY Zenon, ZenonT(30) DEF ReleaseAndDrop, Releases, Dropped

\* The page tables after pages were released.
LEMMA ReleaseEntries ==
    ASSUME MemType, NEW p \in Procs, NEW S \in SUBSET Pages, NEW as, NEW ts, Releases(p, S, as, ts),
           ts \in [Procs -> SUBSET Segs]
    PROVE  /\ NextType /\ Running' = Running
           /\ \A u \in Pages : pte'[p][u] = IF u \in S THEN Invalid ELSE pte[p][u]
           /\ \A q \in Procs \ {p}, u \in Pages : pte'[q][u] = pte[q][u]
<1>1. /\ pte' = [pte EXCEPT ![p] = [v \in Pages |-> IF v \in S THEN Invalid ELSE pte[p][v]]]
      /\ tables' = ts /\ UNCHANGED <<keyed, life>>
      /\ segFrame' = [s \in Segs |-> IF s \in Orphans(as, ts) THEN NoFrame ELSE segFrame[s]]
  BY ZenonT(30) DEF Releases
<1>2. /\ DOMAIN pte' = Procs /\ \A q \in Procs : DOMAIN pte'[q] = Pages
      /\ \A u \in Pages : pte'[p][u] = IF u \in S THEN Invalid ELSE pte[p][u]
      /\ \A q \in Procs \ {p}, u \in Pages : pte'[q][u] = pte[q][u]
  BY <1>1, ZenonT(30) DEF MemType
<1>3. IsEntry(Invalid) /\ Invalid.frame = NoFrame
  BY ZenonT(30) DEF IsEntry, Invalid, Entry
<1>4. \A q \in Procs, u \in Pages : IsEntry(pte'[q][u])
  <2>1. \A q \in Procs, u \in Pages : IsEntry(pte[q][u])
    BY ZenonT(30) DEF MemType
  <2> QED BY <1>2, <1>3, <2>1, ZenonT(30)
<1>5. \A q \in Procs, u \in Pages : life'[q] = "none" => pte'[q][u].frame = NoFrame
  <2>1. \A q \in Procs, u \in Pages : life[q] = "none" => pte[q][u].frame = NoFrame
    BY ZenonT(30) DEF MemType
  <2> QED BY <1>1, <1>2, <1>3, <2>1, SMTT(30)
<1>6. segFrame' \in [Segs -> Frames \cup {NoFrame}]
  BY <1>1, Zenon DEF MemType
<1>7. DOMAIN mem' = Frames
  BY DEF Releases, DeallocUnused
<1>8. Running' = Running
  BY <1>1, ZenonT(30) DEF Running
<1>9. keyed' \in SUBSET Segs /\ tables' \in [Procs -> SUBSET Segs]
      /\ life' \in [Procs -> {"none", "run", "dead"}]
  BY <1>1 DEF MemType
<1> QED BY <1>2, <1>4, <1>5, <1>6, <1>7, <1>8, <1>9, ZenonT(30) DEF NextType

\* Shm::drop: the frame of a segment that is dropped loses that reference.
LEMMA DroppedSegs ==
    ASSUME SetFacts, MemType, CountInv, NEW as, NEW ts, NEW f \in Frames,
           segFrame' = [s \in Segs |-> IF s \in Orphans(as, ts) THEN NoFrame ELSE segFrame[s]]
    PROVE  Cardinality(SegsOn(f)') = Cardinality(SegsOn(f)) - Dropped(f, as, ts)
<1>1. NoFrame # f
  BY Names
<1>2. CASE OrphanFrame(f, as, ts)
  <2>1. PICK s \in Segs : s \in Orphans(as, ts) /\ segFrame[s] = f
    BY <1>2, Zenon DEF OrphanFrame, Orphans
  <2>2. SegsOn(f) = {s}
    BY <1>1, <2>1, Zenon DEF SegsOn, CountInv
  <2>3. SegsOn(f)' = {}
    BY <1>1, <2>1, <2>2, Zenon DEF SegsOn
  <2>4. Cardinality(SegsOn(f)) = 1
    BY <2>2, SingletonCount, ZenonT(30)
  <2>5. Cardinality(SegsOn(f)') = 0
    BY <2>3, EmptyCount
  <2> QED BY <1>2, <2>4, <2>5 DEF Dropped
<1>3. CASE ~OrphanFrame(f, as, ts)
  <2>1. SegsOn(f)' = SegsOn(f)
    BY <1>1, <1>3, ZenonT(30) DEF SegsOn, OrphanFrame
  <2> QED BY <1>3, <2>1, SegsFinite DEF Dropped
<1> QED BY <1>2, <1>3, Zenon

\* Tables of segments that name no more than before.
SubTables(ts) == ts \in [Procs -> SUBSET Segs] /\ \A q \in Procs : ts[q] \subseteq tables[q]

\* What is left of a after b and c have gone.
LEMMA LessTwice ==
    ASSUME NEW a \in Int, NEW b \in Nat, NEW c \in Nat
    PROVE  (a - b) - c \in Int /\ (a - b) - c <= a
OBVIOUS

\* The same two numbers taken from a count, and from what it counts.
LEMMA LessAlike ==
    ASSUME NEW a \in Int, NEW b \in Nat, NEW c \in Nat, NEW n \in Nat, NEW s \in Nat
    PROVE  ((a - b) - c) - a = ((n - b) - n) + ((s - c) - s)
BY SMTT(30)

\* Released pages and dropped segments decrement each count once per reference.
LEMMA ReleaseCount ==
    ASSUME SetFacts, MemType, CountInv, panic = "no", NEW p \in Running, NEW S \in SUBSET Pages, NEW as, NEW ts,
           Releases(p, S, as, ts), SubTables(ts)
    PROVE  MemType' /\ CountInv'
<1>0. p \in Procs
  BY DEF Running
<1>1. /\ NextType /\ Running' = Running
      /\ \A u \in Pages : pte'[p][u] = IF u \in S THEN Invalid ELSE pte[p][u]
      /\ \A q \in Procs \ {p}, u \in Pages : pte'[q][u] = pte[q][u]
  BY <1>0, ReleaseEntries, Zenon DEF SubTables
<1>2. \A f \in Frames : RefsFrom(pte[p], S, f) \in Nat /\ Dropped(f, as, ts) \in Nat
  BY TableRefs, ZenonT(30) DEF Dropped
<1>3. /\ rc' = [f \in Frames |-> CountsAfter(p, S)[f] - Dropped(f, as, ts)]
      /\ allocated' = {f \in allocated : rc'[f] > 0}
  BY ZenonT(30) DEF Releases, DeallocUnused
<1>4. /\ \A f \in Frames : CountsAfter(p, S)[f] = rc[f] - RefsFrom(pte[p], S, f)
      /\ rc \in [Frames -> Int] /\ allocated = {f \in Frames : rc[f] > 0}
  BY DEF CountsAfter, MemType
<1>5. /\ rc' \in [Frames -> Int]
      /\ \A f \in Frames : /\ rc'[f] = (rc[f] - RefsFrom(pte[p], S, f)) - Dropped(f, as, ts)
                           /\ rc'[f] <= rc[f]
  <2>1. \A f \in Frames : rc[f] \in Int
    BY <1>4
  <2>2. \A f \in Frames : rc'[f] = (rc[f] - RefsFrom(pte[p], S, f)) - Dropped(f, as, ts)
    BY <1>3, <1>4, Zenon
  <2>3. ASSUME NEW f \in Frames
        PROVE  rc'[f] \in Int /\ rc'[f] <= rc[f]
    <3>1. rc[f] \in Int /\ RefsFrom(pte[p], S, f) \in Nat /\ Dropped(f, as, ts) \in Nat
      BY <1>2, <2>1, Zenon
    <3> QED BY <2>2, <3>1, LessTwice, Zenon
  <2> QED BY <1>3, <2>2, <2>3, Zenon
<1>6. allocated' = {f \in Frames : rc'[f] > 0}
  <2>1. ASSUME NEW f \in Frames, rc'[f] > 0
        PROVE  rc[f] > 0
    <3>1. PICK a \in Int, b \in Int : a = rc[f] /\ b = rc'[f] /\ b <= a
      BY <1>4, <1>5, ZenonT(30)
    <3> QED BY <2>1, <3>1
  <2> QED BY <1>3, <1>4, <2>1, Zenon
<1>7. segFrame' = [s \in Segs |-> IF s \in Orphans(as, ts) THEN NoFrame ELSE segFrame[s]]
      /\ tables' = ts /\ keyed' = keyed
  BY DEF Releases
<1>8. ASSUME NEW P \in SUBSET Procs, p \in P, NEW f \in Frames
      PROVE  Count(pte', P, f) = Count(pte, P, f) - RefsFrom(pte[p], S, f)
  <2>1. Invalid.frame # f
    BY Names, ZenonT(30) DEF Invalid, Entry
  <2>2. LosesPages(pte, pte', P, p, S, f)
    BY <1>1, <2>1, ZenonT(30) DEF LosesPages
  <2> QED BY <1>8, <2>2, ReleasedRefs, SMTT(30)
<1>9. ASSUME NEW f \in Frames  PROVE Balanced(f)
  <2>1. Running \in SUBSET Procs /\ Procs \in SUBSET Procs
    BY DEF Running
  <2>2. Count(pte', Procs, f) = Count(pte, Procs, f) - RefsFrom(pte[p], S, f)
    BY <1>0, <1>8, <2>1, ZenonT(30)
  <2>3. Count(pte', Running', f) = Count(pte, Running, f) - RefsFrom(pte[p], S, f)
    BY <1>1, <1>8, <2>1
  <2>4. Cardinality(SegsOn(f)') = Cardinality(SegsOn(f)) - Dropped(f, as, ts)
    BY <1>7, DroppedSegs, Zenon
  <2>5. rc'[f] = (rc[f] - RefsFrom(pte[p], S, f)) - Dropped(f, as, ts)
    BY <1>5, Zenon
  <2>6. rc[f] \in Int /\ RefsFrom(pte[p], S, f) \in Nat /\ Dropped(f, as, ts) \in Nat
    BY <1>2, <1>4, Zenon
  <2>7. /\ Count(pte, Procs, f) \in Nat /\ Count(pte, Running, f) \in Nat
        /\ Cardinality(SegsOn(f)) \in Nat
    BY CountTypes
  <2>8. PICK a \in Int, b \in Nat, c \in Nat, n \in Nat, m \in Nat, s \in Nat :
            /\ a = rc[f] /\ b = RefsFrom(pte[p], S, f) /\ c = Dropped(f, as, ts)
            /\ n = Count(pte, Procs, f) /\ m = Count(pte, Running, f) /\ s = Cardinality(SegsOn(f))
    BY <2>6, <2>7, ZenonT(30)
  <2>9. /\ rc'[f] - rc[f] = ((a - b) - c) - a
        /\ Count(pte', Procs, f) - Count(pte, Procs, f) = (n - b) - n
        /\ Count(pte', Running', f) - Count(pte, Running, f) = (m - b) - m
        /\ Cardinality(SegsOn(f)') - Cardinality(SegsOn(f)) = (s - c) - s
    BY <2>2, <2>3, <2>4, <2>5, <2>8, ZenonT(30)
  <2>10. /\ ((a - b) - c) - a = ((n - b) - n) + ((s - c) - s)
         /\ ((a - b) - c) - a = ((m - b) - m) + ((s - c) - s)
    BY LessAlike
  <2> QED BY <2>9, <2>10 DEF Balanced
<1>10. SegsNext
  <2>1. \A s \in Segs : s \in keyed \/ (\E q \in Procs : s \in ts[q]) =>
            s \notin Orphans(as, ts) /\ segFrame[s] # NoFrame
    BY Zenon DEF Orphans, Held, CountInv, SubTables
  <2>2. \A s, t \in Segs : segFrame'[s] = segFrame'[t] /\ segFrame'[s] # NoFrame => s = t
    BY <1>7, Zenon DEF CountInv
  <2> QED BY <1>7, <2>1, <2>2, Zenon DEF SegsNext
<1> QED BY <1>1, <1>5, <1>6, <1>9, <1>10, BalancedCount, ZenonT(30)

\* attach_shm, when it succeeds.
Attaches(p, s, a, w) ==
    /\ s \in tables[p]
    /\ ~Valid(pte[p][a]) /\ CanInsert(areas[p], a, a + 1)
    /\ areas' = [areas EXCEPT ![p] = @ \cup {Node(a, a + 1, s, w, 0)}]
    /\ rc' = [rc EXCEPT ![segFrame[s]] = @ + 1]
    /\ pte' = [pte EXCEPT ![p][a] = Entry(segFrame[s], w, FALSE)]
    /\ UNCHANGED <<allocated, mem, life, shm, panic>>

\* Attaching panics where the page has a valid entry, or goes through.
LEMMA AttachCases ==
    ASSUME NEW p, NEW s, NEW a, NEW w, s \in tables[p], AttachShm(p, s, a, w)
    PROVE  Panic("Remapping a valid page table entry") \/ Attaches(p, s, a, w)
BY Zenon DEF AttachShm, Attaches, InsertAt, SetEntry

\* The page tables after a segment was attached.
LEMMA AttachEntries ==
    ASSUME MemType, CountInv, NEW p \in Running, NEW s \in Segs, NEW a \in Pages,
           NEW w, Attaches(p, s, a, w)
    PROVE  /\ NextType /\ Running' = Running /\ p \in Procs
           /\ segFrame[s] \in Frames
           /\ pte[p][a].frame = NoFrame /\ pte'[p][a] = Entry(segFrame[s], w, FALSE)
           /\ pte'[p][a].frame = segFrame[s]
           /\ \A q \in Procs, u \in Pages : q # p \/ u # a => pte'[q][u] = pte[q][u]
<1>1. p \in Procs /\ life[p] = "run"
  BY DEF Running
<1>2. segFrame[s] \in Frames
  <2>1. s \in tables[p]
    BY DEF Attaches
  <2> QED BY <1>1, <2>1, Zenon DEF CountInv, MemType
<1>3. /\ pte' = [pte EXCEPT ![p][a] = Entry(segFrame[s], w, FALSE)]
      /\ UNCHANGED <<mem, life, segFrame, tables, keyed>>
  BY DEF Attaches, shm
<1>4. /\ DOMAIN pte' = Procs /\ \A q \in Procs : DOMAIN pte'[q] = Pages
      /\ pte'[p][a] = Entry(segFrame[s], w, FALSE)
      /\ \A q \in Procs, u \in Pages : q # p \/ u # a => pte'[q][u] = pte[q][u]
  BY <1>1, <1>3, Zenon DEF MemType
<1>5. Entry(segFrame[s], w, FALSE).frame = segFrame[s]
  BY DEF Entry
<1>6. \A q \in Procs, u \in Pages : IsEntry(pte'[q][u])
  <2>1. IsEntry(pte'[p][a])
    BY <1>2, <1>4, <1>5, ZenonT(30) DEF IsEntry
  <2>2. \A q \in Procs, u \in Pages : IsEntry(pte[q][u])
    BY ZenonT(30) DEF MemType
  <2> QED BY <1>4, <2>1, <2>2, Zenon
<1>7. \A q \in Procs, u \in Pages : life[q] = "none" => pte'[q][u].frame = NoFrame
  <2>1. \A q \in Procs, u \in Pages : life[q] = "none" => pte[q][u].frame = NoFrame
    BY DEF MemType
  <2>2. \A q \in Procs : life[q] = "none" => q # p
    BY <1>1
  <2> QED BY <1>4, <2>1, <2>2, SMTT(30)
<1>8. NextType
  BY <1>3, <1>4, <1>6, <1>7, ZenonT(30) DEF NextType, MemType
<1>9. pte[p][a].frame = NoFrame
  BY DEF Attaches, Valid
<1>10. Running' = Running
  BY <1>3, ZenonT(30) DEF Running
<1> QED BY <1>1, <1>2, <1>4, <1>5, <1>8, <1>9, <1>10, Zenon

\* Attaching counts the frame of the segment once more.
LEMMA AttachCount ==
    ASSUME SetFacts, MemType, CountInv, panic = "no", NEW p \in Running, NEW s \in Segs,
           NEW a \in Pages, NEW w, Attaches(p, s, a, w)
    PROVE  MemType' /\ CountInv'
<1> DEFINE g == segFrame[s]
<1>1. /\ NextType /\ Running' = Running /\ p \in Procs
      /\ g \in Frames
      /\ pte[p][a].frame = NoFrame /\ pte'[p][a] = Entry(g, w, FALSE)
      /\ pte'[p][a].frame = g
      /\ \A q \in Procs, u \in Pages : q # p \/ u # a => pte'[q][u] = pte[q][u]
  BY AttachEntries, ZenonT(30)
<1>2. rc' = [rc EXCEPT ![g] = rc[g] + 1] /\ UNCHANGED <<allocated, segFrame, tables, keyed>>
  BY DEF Attaches, shm
<1>3. rc \in [Frames -> Int] /\ allocated = {f \in Frames : rc[f] > 0}
  BY ZenonT(30) DEF MemType
<1>4. g \in allocated
  <2>1. ASSUME NEW f \in Frames, f \notin allocated  PROVE segFrame[s] # f
    BY <2>1, FreshFrame, ZenonT(30)
  <2> QED BY <1>1, <2>1, ZenonT(30)
<1>5. rc' \in [Frames -> Int] /\ rc'[g] = rc[g] + 1 /\ \A f \in Frames \ {g} : rc'[f] = rc[f]
  BY <1>1, <1>2, <1>3, SMTT(30)
<1>6. allocated' = {f \in Frames : rc'[f] > 0}
  <2>1. rc[g] > 0 /\ rc[g] \in Int
    BY <1>1, <1>3, <1>4, ZenonT(30)
  <2>2. \A f \in Frames : (rc'[f] > 0) <=> (rc[f] > 0)
    BY <1>5, <2>1
  <2> QED BY <1>2, <1>3, <2>2, ZenonT(30)
<1>7. \A f : SegsOn(f)' = SegsOn(f)
  BY <1>2 DEF SegsOn
<1>8. ASSUME NEW P \in SUBSET Procs, p \in P, NEW f \in Frames
      PROVE  Count(pte', P, f) = IF f = g THEN Count(pte, P, f) + 1 ELSE Count(pte, P, f)
  <2>0. NoFrame # f
    BY Names, ZenonT(30)
  <2>1. OnlyEntry(pte, pte', P, p, a)
    BY <1>1 DEF OnlyEntry
  <2>2. CASE f = g
    <3>1. Gains(pte, pte', P, p, a, f)
      BY <1>1, <2>0, <2>1, <2>2, Zenon DEF Gains
    <3> QED BY <1>8, <2>2, <3>1, OneRefMore, SMTT(30)
  <2>3. CASE f # g
    <3>1. Agree(pte, pte', P, f)
      BY <1>1, <2>0, <2>3, ZenonT(30) DEF Agree
    <3> QED BY <2>3, <3>1, SameRefs
  <2> QED BY <2>2, <2>3
<1>9. ASSUME NEW f \in Frames  PROVE Balanced(f)
  <2>1. Running \in SUBSET Procs /\ Procs \in SUBSET Procs
    BY ZenonT(30) DEF Running
  <2>2. /\ Count(pte', Procs, f) = IF f = g THEN Count(pte, Procs, f) + 1 ELSE Count(pte, Procs, f)
        /\ Count(pte', Running', f) = IF f = g THEN Count(pte, Running, f) + 1 ELSE Count(pte, Running, f)
    BY <1>1, <1>8, <2>1, ZenonT(30)
  <2>3. rc'[f] = IF f = g THEN rc[f] + 1 ELSE rc[f]
    BY <1>5
  <2>4. rc[f] \in Int
    BY <1>3, ZenonT(30)
  <2> HIDE DEF g
  <2> QED BY <1>7, <2>2, <2>3, <2>4, CountTypes, SMTT(30) DEF Balanced
<1>10. SegsNext
  BY <1>2, ZenonT(30) DEF SegsNext, CountInv
<1> QED BY <1>1, <1>5, <1>6, <1>9, <1>10, BalancedCount, ZenonT(30)

\* ShmManager::create: segment s gets a new frame g.
Creates(p, s, g, private) ==
    /\ segFrame[s] = NoFrame /\ segFrame' = [segFrame EXCEPT ![s] = g]
    /\ g \notin allocated /\ allocated' = allocated \cup {g}
    /\ rc' = [rc EXCEPT ![g] = @ + 1]
    /\ mem' = [mem EXCEPT ![g] = Junk]
    /\ keyed' = IF private THEN keyed ELSE keyed \cup {s}
    /\ tables' = [tables EXCEPT ![p] = @ \cup {s}]
    /\ UNCHANGED <<space, life, panic>>

\* A new segment owns a frame that was just allocated.
LEMMA CreateCount ==
    ASSUME SetFacts, MemType, CountInv, panic = "no", NEW p \in Running, NEW s \in Segs, NEW g \in Frames,
           NEW private, Creates(p, s, g, private)
    PROVE  MemType' /\ CountInv' /\ Running' = Running
<1>0. p \in Procs
  BY DEF Running
<1>1. /\ segFrame[s] = NoFrame /\ segFrame' = [segFrame EXCEPT ![s] = g]
      /\ keyed' = (IF private THEN keyed ELSE keyed \cup {s})
      /\ tables' = [tables EXCEPT ![p] = tables[p] \cup {s}]
      /\ mem' = [mem EXCEPT ![g] = Junk] /\ UNCHANGED <<pte, life>>
  BY DEF Creates, space
<1>2. /\ g \notin allocated /\ allocated' = allocated \cup {g} /\ rc' = [rc EXCEPT ![g] = rc[g] + 1]
  BY ZenonT(30) DEF Creates
<1>3. rc[g] = 0 /\ \A t \in Segs : segFrame[t] # g
  BY <1>2, FreshFrame, ZenonT(30)
<1>4. rc \in [Frames -> Int] /\ allocated = {f \in Frames : rc[f] > 0}
  BY DEF MemType
<1>5. /\ rc' \in [Frames -> Int] /\ rc'[g] = 1 /\ \A f \in Frames \ {g} : rc'[f] = rc[f]
      /\ allocated' = {f \in Frames : rc'[f] > 0}
  BY <1>2, <1>3, <1>4, SMTT(30)
<1>6. NextType
  <2>1. segFrame' \in [Segs -> Frames \cup {NoFrame}]
    BY <1>1 DEF MemType
  <2>2. tables' \in [Procs -> SUBSET Segs] /\ keyed' \in SUBSET Segs
    BY <1>1, ZenonT(30) DEF MemType
  <2> QED BY <1>1, <2>1, <2>2, ZenonT(30) DEF NextType, MemType
<1>7. Running' = Running
  BY <1>1, ZenonT(30) DEF Running
<1>8. \A t \in Segs : segFrame'[t] = IF t = s THEN g ELSE segFrame[t]
  BY <1>1 DEF MemType
<1>9. ASSUME NEW f \in Frames  PROVE Balanced(f)
  <2>0. Count(pte', Procs, f) = Count(pte, Procs, f) /\ Count(pte', Running', f) = Count(pte, Running, f)
    BY <1>1, <1>7, ZenonT(30)
  <2>1. CASE f = g
    <3>1. SegsOn(f) = {}
      BY <1>3, <2>1, ZenonT(30) DEF SegsOn
    <3>2. SegsOn(f)' = {s}
      BY <1>3, <1>8, <2>1, ZenonT(30) DEF SegsOn
    <3>3. Cardinality(SegsOn(f)) = 0
      BY <3>1, EmptyCount
    <3>4. Cardinality(SegsOn(f)') = 1
      BY <3>2, SingletonCount, ZenonT(30)
    <3> QED BY <1>3, <1>5, <2>0, <2>1, <3>3, <3>4, CountTypes, SMTT(30) DEF Balanced
  <2>2. CASE f # g
    <3>1. SegsOn(f)' = SegsOn(f)
      BY <1>1, <1>8, <2>2, Names, ZenonT(30) DEF SegsOn
    <3>2. rc'[f] = rc[f] /\ rc[f] \in Int
      BY <1>4, <1>5, <2>2, ZenonT(30)
    <3> QED BY <2>0, <3>1, <3>2, CountTypes, SMTT(30) DEF Balanced
  <2> QED BY <2>1, <2>2, ZenonT(30)
<1>10. SegsNext
  <2>1. g # NoFrame
    BY Names, ZenonT(30)
  <2>2. \A t \in Segs : t \in keyed' \/ (\E q \in Procs : t \in tables'[q]) =>
                        t = s \/ t \in keyed \/ (\E q \in Procs : t \in tables[q])
    BY <1>0, <1>1 DEF MemType
  <2> QED BY <1>3, <1>8, <2>1, <2>2, ZenonT(30) DEF SegsNext, CountInv
<1> QED BY <1>5, <1>6, <1>7, <1>9, <1>10, BalancedCount, ZenonT(30)

-------------------------------------------------------------------------------
(* What a step may be. *)

\* The kernel stops; a process ends and nothing of its memory is released.
Stops == \E what : Panic(what)
Ends(p) == Kill(p) /\ UNCHANGED rc

\* What a lazy page of area n holds.
LazyContent(n, v) == IF n.kind = "file" THEN <<"file", n.off + (v - n.start)>> ELSE Zero

Fills(p, v, n, g) ==
    /\ ~Valid(pte[p][v]) /\ n \in Get(areas[p], v) /\ n.kind \notin Segs
    /\ NewPage(p, v, g, n.w, LazyContent(n, v))

CopiesTo(p, v, g, w) ==
    /\ Valid(pte[p][v]) /\ pte[p][v].shared
    /\ NewPage(p, v, g, w, mem[pte[p][v].frame])

Reuses(p, v, w) ==
    /\ Valid(pte[p][v]) /\ pte[p][v].shared /\ rc[pte[p][v].frame] <= 1
    /\ pte' = [pte EXCEPT ![p][v] = Entry(pte[p][v].frame, w, FALSE)]
    /\ UNCHANGED <<areas, phys, life, shm, panic>>

FaultShape(p, v) ==
    \/ \E g \in Frames : \E n : Fills(p, v, n, g)
    \/ \E g \in Frames : \E w : CopiesTo(p, v, g, w)
    \/ \E w : Reuses(p, v, w)
    \/ Valid(pte[p][v]) /\ LosesRef(p, v, pte[p][v].frame)
    \/ Stops
    \/ Ends(p)

\* A fault on a page without an entry: it gets a frame filled from its area, or
\* the process ends or the kernel stops.
LEMMA FillShape ==
    ASSUME MemType, NEW p \in Procs, NEW v \in Pages, NEW n \in Get(areas[p], v), NEW kernel,
           ~Valid(pte[p][v]), n.kind \notin Segs, FaultIn(p, v, n, kernel)
    PROVE  FaultShape(p, v)
<1>1. ASSUME NEW f \in Frames, AllocFrame(f, rc, LazyContent(n, v)),
             SetEntry(p, v, Entry(f, n.w, FALSE)), UNCHANGED <<areas, life, shm, panic>>
      PROVE  Fills(p, v, n, f)
  <2>1. pte[p][v].frame = NoFrame /\ NoFrame \notin Frames
    BY Names DEF Valid
  <2>2. rc' = [h \in Frames |-> IF h = f THEN rc[h] + 1
                                ELSE IF h = pte[p][v].frame THEN rc[h] - 1 ELSE rc[h]]
    <3>1. rc' = [rc EXCEPT ![f] = rc[f] + 1] /\ rc \in [Frames -> Int]
      BY <1>1 DEF AllocFrame, MemType
    <3> QED BY <2>1, <3>1, ZenonT(30)
  <2> QED BY <1>1, <2>1, <2>2, Zenon DEF Fills, NewPage, AllocFrame, SetEntry
<1>2. CASE Panic("read file failed")
  BY <1>2, ZenonT(30) DEF FaultShape, Stops
<1>3. CASE FaultFails(p, kernel)
  BY <1>3 DEF FaultShape, FaultFails, Ends
<1> QED BY <1>1, <1>2, <1>3, Zenon DEF FaultIn, LazyContent, FaultShape

\* A store to a page marked for copying: it gets a copy, or keeps its frame
\* when nobody else counts it.
LEMMA CowShape ==
    ASSUME MemType, NEW p \in Procs, NEW v \in Pages, NEW n, NEW kernel,
           Valid(pte[p][v]), pte[p][v].shared, CopyOnWrite(p, v, n, kernel)
    PROVE  FaultShape(p, v)
<1> DEFINE f == pte[p][v].frame
<1>0. f \in Frames /\ rc \in [Frames -> Int]
  BY DEF MemType, IsEntry, Valid, Invalid, Entry
<1>1. ASSUME rc[f] <= 1, SetEntry(p, v, Entry(f, n.w, FALSE)),
             UNCHANGED <<areas, phys, life, shm, panic>>
      PROVE  Reuses(p, v, n.w)
  BY <1>1, Zenon DEF Reuses, SetEntry
<1>2. ASSUME rc[f] > 1, NEW g \in Frames, AllocFrame(g, [rc EXCEPT ![f] = @ - 1], mem[f]),
             SetEntry(p, v, Entry(g, n.w, FALSE)), UNCHANGED <<areas, life, shm, panic>>
      PROVE  CopiesTo(p, v, g, n.w)
  <2>1. rc' = [[rc EXCEPT ![f] = @ - 1] EXCEPT ![g] = @ + 1] /\ g \notin allocated
    BY <1>2, ZenonT(30) DEF AllocFrame
  <2>2. g # f
    <3>1. ~(rc[g] > 0)
      BY <1>2, <2>1, Zenon DEF MemType
    <3> QED BY <1>0, <1>2, <3>1
  <2>3. rc' = [h \in Frames |-> IF h = g THEN rc[h] + 1 ELSE IF h = f THEN rc[h] - 1 ELSE rc[h]]
    BY <1>0, <2>1, <2>2, Zenon
  <2> QED BY <1>0, <1>2, <2>3, Zenon, ZenonT(30) DEF CopiesTo, NewPage, AllocFrame, SetEntry
<1>3. ASSUME rc[f] > 1, rc' = [rc EXCEPT ![f] = @ - 1],
             \/ panic' = "count lost" /\ UNCHANGED <<space, allocated, mem, life, shm>>
             \/ Kill(p)
      PROVE  LosesRef(p, v, f)
  BY <1>3, Zenon DEF LosesRef, Kill, space
<1> QED BY <1>1, <1>2, <1>3, Zenon, ZenonT(30) DEF CopyOnWrite, FaultShape

\* handle_pagefault.
LEMMA FaultShapes ==
    ASSUME MemType, NEW p \in Procs, NEW v \in Pages, NEW write, NEW kernel,
           HandlePagefault(p, v, write, kernel)
    PROVE  FaultShape(p, v)
<1>1. CASE FaultFails(p, kernel)
  BY <1>1 DEF FaultShape, FaultFails, Ends
<1>2. ASSUME NEW what, Panic(what)  PROVE FaultShape(p, v)
  BY <1>2, SMTT(30) DEF FaultShape, Stops
<1> QED BY <1>1, <1>2, FillShape, CowShape, Zenon, ZenonT(30) DEF HandlePagefault

\* A step that changes neither entries nor counts nor segments; processes may end.
Still(p) ==
    /\ UNCHANGED <<pte, rc, allocated, segFrame, tables, keyed>> /\ DOMAIN mem' = Frames
    /\ life' = life \/ life' = [life EXCEPT ![p] = "dead"]

\* A step that changes neither entries nor counts nor segments keeps the counts
\* right.
LEMMA StillCount ==
    ASSUME SetFacts, MemType, CountInv, panic = "no", NEW p \in Procs, Still(p)
    PROVE  MemType' /\ CountInv'
<1>1. /\ UNCHANGED <<pte, rc, allocated, segFrame, tables, keyed>> /\ DOMAIN mem' = Frames
      /\ life' = life \/ life' = [life EXCEPT ![p] = "dead"]
  BY SMTT(30) DEF Still
<1>2. /\ life' \in [Procs -> {"none", "run", "dead"}]
      /\ \A q \in Procs : life'[q] \in {"none", "run"} => life'[q] = life[q]
  BY <1>1, ZenonT(30) DEF MemType
<1>3. NextType
  BY <1>1, <1>2, ZenonT(30) DEF NextType, MemType
<1>4. \A s \in Segs : s \in keyed' \/ (\E q \in Procs : s \in tables'[q]) => segFrame[s] # NoFrame
  BY <1>1 DEF CountInv
<1> QED BY <1>1, <1>2, <1>3, <1>4, QuietCount, ZenonT(30)

\* A panic leaves the memory as it is.
LEMMA StopsStill ==
    ASSUME MemType, Stops, NEW p
    PROVE  Still(p)
<1>1. UNCHANGED <<space, phys, life, shm>>
  BY DEF Stops, Panic
<1>2. DOMAIN mem = Frames
  BY DEF MemType
<1> QED BY <1>1, <1>2 DEF Still, space, phys, shm

\* The end of a process releases none of its memory.
LEMMA EndsStill ==
    ASSUME MemType, NEW p, Ends(p)
    PROVE  Still(p)
<1>1. UNCHANGED <<space, rc, allocated, mem, shm>> /\ life' = [life EXCEPT ![p] = "dead"]
  BY DEF Ends, Kill
<1>2. DOMAIN mem = Frames
  BY DEF MemType
<1> QED BY <1>1, <1>2 DEF Still, space, shm

\* A page fault keeps the counts right.
LEMMA FaultCount ==
    ASSUME SetFacts, MemType, CountInv, panic = "no", NEW p \in Running, NEW v \in Pages, FaultShape(p, v)
    PROVE  MemType' /\ CountInv'
<1>0. p \in Procs
  BY SMTT(30) DEF Running
<1>1. ASSUME NEW g \in Frames, NEW n, Fills(p, v, n, g)  PROVE MemType' /\ CountInv'
  BY <1>1, NewPageCount, ZenonT(30) DEF Fills
<1>2. ASSUME NEW g \in Frames, NEW w, CopiesTo(p, v, g, w)  PROVE MemType' /\ CountInv'
  BY <1>2, NewPageCount, SMTT(30) DEF CopiesTo
<1>3. ASSUME NEW w, Reuses(p, v, w)  PROVE MemType' /\ CountInv'
  <2>1. /\ pte' = [pte EXCEPT ![p][v] = Entry(pte[p][v].frame, w, FALSE)] /\ Valid(pte[p][v])
        /\ UNCHANGED <<rc, allocated, mem, life, segFrame, tables, keyed>>
    BY <1>3 DEF Reuses, phys, shm
  <2>2. /\ DOMAIN pte' = Procs /\ \A q \in Procs : DOMAIN pte'[q] = Pages
        /\ pte'[p][v] = Entry(pte[p][v].frame, w, FALSE)
        /\ \A q \in Procs, u \in Pages : q # p \/ u # v => pte'[q][u] = pte[q][u]
    BY <1>0, <2>1, Zenon DEF MemType
  <2>3. pte'[p][v].frame = pte[p][v].frame
    BY <2>2 DEF Entry
  <2>4. \A q \in Procs, u \in Pages : pte'[q][u].frame = pte[q][u].frame
    BY <2>2, <2>3, ZenonT(30)
  <2>5. \A q \in Procs, u \in Pages : IsEntry(pte[q][u])
    BY DEF MemType
  <2>6. IsEntry(pte'[p][v])
    BY <1>0, <2>1, <2>3, <2>5 DEF IsEntry, Valid, Invalid, Entry
  <2>7. \A q \in Procs, u \in Pages : IsEntry(pte'[q][u])
    BY <2>2, <2>5, <2>6, ZenonT(30)
  <2>8. NextType
    <3>3. life' = life
      BY <2>1, SMTT(30)
    <3>4. \A q \in Procs, u \in Pages : life[q] = "none" => pte[q][u].frame = NoFrame
      BY DEF MemType
    <3>1. \A q \in Procs, u \in Pages : life'[q] = "none" => pte'[q][u].frame = NoFrame
      BY <2>4, <3>3, <3>4, SMTT(30)
    <3>2. /\ DOMAIN mem' = Frames /\ segFrame' \in [Segs -> Frames \cup {NoFrame}]
          /\ tables' \in [Procs -> SUBSET Segs] /\ keyed' \in SUBSET Segs
          /\ life' \in [Procs -> {"none", "run", "dead"}]
      BY <2>1 DEF MemType
    <3> QED BY <2>2, <2>7, <3>1, <3>2 DEF NextType
  <2>9. \A s \in Segs : s \in keyed' \/ (\E q \in Procs : s \in tables'[q]) => segFrame[s] # NoFrame
    BY <2>1 DEF CountInv
  <2> QED BY <2>1, <2>4, <2>8, <2>9, QuietCount, Zenon
<1>4. ASSUME Valid(pte[p][v]), LosesRef(p, v, pte[p][v].frame)  PROVE MemType' /\ CountInv'
  <2>1. pte[p][v].frame \in Frames
    BY <1>0, <1>4 DEF MemType, IsEntry, Valid, Invalid, Entry
  <2> QED BY <1>4, <2>1, LostCount, ZenonT(30)
<1>5. CASE Stops
  <2>1. Still(p)
    BY <1>5, StopsStill, ZenonT(30)
  <2> QED BY <1>0, <2>1, StillCount
<1>6. CASE Ends(p)
  <2>1. Still(p)
    BY <1>6, EndsStill
  <2> QED BY <1>0, <2>1, StillCount
<1> QED BY <1>1, <1>2, <1>3, <1>4, <1>5, <1>6, ZenonT(30) DEF FaultShape

\* sys_shmget of a key that exists.
Finds(p, s) ==
    /\ s \in keyed /\ tables' = [tables EXCEPT ![p] = @ \cup {s}]
    /\ UNCHANGED <<space, phys, segFrame, keyed, life, panic>>

\* sys_shmget finds a segment by its key, or creates one.
LEMMA ShmgetShape ==
    ASSUME NEW p, NEW s, NEW private, Shmget(p, s, private)
    PROVE  Finds(p, s) \/ \E g \in Frames : Creates(p, s, g, private)
BY Zenon DEF Shmget, CreateShm, AllocFrame, Finds, Creates

\* Finding a segment changes no count.
LEMMA FindCount ==
    ASSUME SetFacts, MemType, CountInv, panic = "no", NEW p \in Procs, NEW s \in Segs, Finds(p, s)
    PROVE  MemType' /\ CountInv'
<1>1. /\ s \in keyed /\ tables' = [tables EXCEPT ![p] = tables[p] \cup {s}]
      /\ UNCHANGED <<pte, rc, allocated, mem, segFrame, keyed, life>>
  BY SMTT(30) DEF Finds, space, phys
<1>2. tables' \in [Procs -> SUBSET Segs]
  BY <1>1, SMTT(30) DEF MemType
<1>3. \A t \in Segs : t \in keyed' \/ (\E q \in Procs : t \in tables'[q]) =>
                      t = s \/ t \in keyed \/ (\E q \in Procs : t \in tables[q])
  BY <1>1, SMTT(30) DEF MemType
<1>4. \A t \in Segs : t \in keyed' \/ (\E q \in Procs : t \in tables'[q]) => segFrame[t] # NoFrame
  BY <1>1, <1>3, ZenonT(30) DEF CountInv
<1>5. NextType
  BY <1>1, <1>2 DEF NextType, MemType
<1> QED BY <1>1, <1>4, <1>5, QuietCount

-------------------------------------------------------------------------------
(* The shapes of the calls. *)

\* The tables as they are, and without one segment.
LEMMA TablesShrink ==
    ASSUME MemType
    PROVE  SubTables(tables) /\ \A p, s : SubTables([tables EXCEPT ![p] = @ \ {s}])
BY ZenonT(30) DEF MemType, SubTables

\* Pages that calls name.
LEMMA PageSets ==
    /\ \A p : AreaPages(p) \in SUBSET Pages
    /\ \A M : \A r \in Ranges(HeapBeg, ShareEnd) : Released(M, r[1], r[2]) \in SUBSET Pages
    /\ {} \in SUBSET Pages
BY Layout DEF AreaPages, Released, Pages, Ranges

\* sys_shmdt unmaps a page only where there is an entry.
LEMMA ShmdtShape ==
    ASSUME MemType, NEW p \in Procs, NEW v \in Pages, Shmdt(p, v)
    PROVE  \/ Stops
           \/ \E n \in Get(areas[p], v) :
                  /\ \A u \in n.start..(n.end - 1) : Valid(pte[p][u])
                  /\ ReleaseAndDrop(p, n.start..(n.end - 1), [areas EXCEPT ![p] = @ \ {n}], tables)
BY Zenon DEF Shmdt, Stops

\* A call that releases the pages S of p and leaves the map K.
Drops(p, S, K, ts) ==
    /\ S \in SUBSET Pages /\ SubTables(ts) /\ Releasing(areas[p], K, S)
    /\ Releases(p, S, [areas EXCEPT ![p] = K], ts)

\* brk and mmap leave the areas of segments alone.
SameSegments(M, K) == \A n : n.kind \in Segs => (n \in K <=> n \in M)

CallShape(p) ==
    \/ Stops
    \/ \E K : SameSegments(areas[p], K) /\ Moves(p, K)
    \/ \E S, K, ts : Drops(p, S, K, ts)
    \/ \E s \in Segs : Finds(p, s)
    \/ \E s \in Segs, g \in Frames : \E private : Creates(p, s, g, private)
    \/ \E s \in Segs, a \in Pages : InShare(a) /\ \E w : Attaches(p, s, a, w)

\* do_exec, when no page is left.
Renews(p) ==
    /\ \A v \in Pages \ AreaPages(p) : ~Valid(pte[p][v])
    /\ Releases(p, AreaPages(p), [areas EXCEPT ![p] = {Heap}], tables)

StepShape(p) ==
    \/ Stops
    \/ Ends(p)
    \/ \E v \in Pages : FaultShape(p, v)
    \/ \E v \in Pages : Store(p, v)
    \/ \E q \in Procs : Fork(p, q)
    \/ Renews(p)

\* What faults, stores, forks, execs and exits change.
LEMMA StepShapes ==
    ASSUME MemType, NEW p \in Procs, Step(p)
    PROVE  StepShape(p)
<1>1. ASSUME NEW v \in Pages, NEW write, NEW kernel, HandlePagefault(p, v, write, kernel)
      PROVE  StepShape(p)
  BY <1>1, FaultShapes, Zenon DEF StepShape
<1>2. CASE Exec(p)
  <2>1. CASE Panic("Pagetable page should not be valid")
    BY <2>1, Zenon DEF StepShape, Stops
  <2>2. CASE /\ ~\E v \in Pages \ AreaPages(p) : Valid(pte[p][v])
             /\ ReleaseAndDrop(p, AreaPages(p), [areas EXCEPT ![p] = {Heap}], tables)
    BY <2>2, ReleaseCases, Zenon DEF StepShape, Stops, Renews
  <2> QED BY <1>2, <2>1, <2>2, Zenon DEF Exec
<1>3. CASE Exit(p)
  BY <1>3, Zenon DEF Exit, Ends, StepShape
<1> QED BY <1>1, <1>2, <1>3, Zenon
        DEF Step, PageFault, KernelRead, KernelWrite, EnsureUserArea, StepShape

\* A call that releases pages stops at the assertion of Shm::drop or drops them.
LEMMA DropShape ==
    ASSUME NEW p \in Procs, NEW S \in SUBSET Pages, NEW K, NEW ts, SubTables(ts),
           Releasing(areas[p], K, S), ReleaseAndDrop(p, S, [areas EXCEPT ![p] = K], ts)
    PROVE  CallShape(p)
BY ReleaseCases, Zenon, ZenonT(30) DEF CallShape, Drops, Stops

\* Moving the end of the heap leaves the areas of segments alone.
LEMMA BrkKeepsSegments ==
    ASSUME PlacedInv, NEW p \in Procs, NEW b, NEW n \in Get(areas[p], HeapBeg)
    PROVE  /\ SameSegments(areas[p], ExtendBack(areas[p], n, b))
           /\ SameSegments(areas[p], ReduceBack(areas[p], n, b))
<1>1. n.kind \notin Segs
  BY Layout, NotSegment, SMTT(30)
<1>2. Node(n.start, b, n.kind, n.w, n.off).kind \notin Segs
  BY <1>1 DEF Node
<1> QED BY <1>1, <1>2 DEF SameSegments, ExtendBack, ReduceBack

\* What the system calls on memory change.
LEMMA CallShapes ==
    ASSUME PlacedInv, MemType, NEW p \in Procs, Call(p)
    PROVE  CallShape(p)
<1>0. IsMap(areas[p]) /\ AllPlaced(areas[p]) /\ areas = [q \in Procs |-> areas[q]]
  BY DEF PlacedInv, MapsInv
<1>1. CASE Stops
  BY <1>1 DEF CallShape
<1>2. ASSUME NEW b, Brk(p, b)  PROVE CallShape(p)
  BY <1>1, <1>2, BrkShape, BrkKeepsSegments, Zenon DEF Stops, CallShape
<1>3. ASSUME NEW m \in Maps, Mmap(p, m[1], m[2], m[3])  PROVE CallShape(p)
  <2>1. PICK a : Moves(p, areas[p] \cup {Node(a, a + m[1], m[2], m[3], 0)})
    BY <1>3, MmapShape, ZenonT(30)
  <2>2. Node(a, a + m[1], m[2], m[3], 0).kind \notin Segs
    BY MapCalls, Names DEF Node
  <2>3. SameSegments(areas[p], areas[p] \cup {Node(a, a + m[1], m[2], m[3], 0)})
    BY <2>2, Zenon DEF SameSegments
  <2> QED BY <2>1, <2>3, Zenon, ZenonT(30) DEF CallShape
<1>4. ASSUME NEW r \in Ranges(HeapBeg, ShareEnd), Munmap(p, r[1], r[2])  PROVE CallShape(p)
  <2>1. r[1] \in Int /\ r[2] \in Int /\ r[1] < r[2]
    BY Layout DEF Ranges
  <2>2. Releasing(areas[p], Remove(areas[p], r[1], r[2]), Released(areas[p], r[1], r[2]))
    BY <1>0, <2>1, UnmapReleases
  <2> QED BY <1>4, <2>2, PageSets, TablesShrink, DropShape, Zenon, ZenonT(30) DEF Munmap, UnmapRange
<1>5. ASSUME NEW r \in Ranges(MmapBeg, MmapEnd), NEW w, Mprotect(p, r[1], r[2], w)  PROVE CallShape(p)
  <2>1. r[1] \in Int /\ r[2] \in Int /\ r[1] < r[2] /\ r[2] <= MmapEnd
    BY Layout DEF Ranges
  <2>4. PICK n \in Get(areas[p], r[1]) : \E K :
            /\ \/ K = (areas[p] \ {n}) \cup {WithSameKind(n, r[1], r[2], w)}
               \/ K = RemapRange(areas[p], n, r[1], r[2], w)
            /\ ReleaseAndDrop(p, {}, [areas EXCEPT ![p] = K], tables)
    BY <1>5, Zenon, ZenonT(30) DEF Mprotect
  <2>2. PICK K :
            /\ \/ K = (areas[p] \ {n}) \cup {WithSameKind(n, r[1], r[2], w)}
               \/ K = RemapRange(areas[p], n, r[1], r[2], w)
            /\ ReleaseAndDrop(p, {}, [areas EXCEPT ![p] = K], tables)
    BY <2>4, ZenonT(30)
  <2>5. /\ Releasing(areas[p], (areas[p] \ {n}) \cup {WithSameKind(n, r[1], r[2], w)}, {})
        /\ Releasing(areas[p], RemapRange(areas[p], n, r[1], r[2], w), {})
    BY <2>1, ProtectReleases, ZenonT(30)
  <2>3. Releasing(areas[p], K, {})
    BY <2>2, <2>5
  <2> QED BY <2>2, <2>3, PageSets, TablesShrink, DropShape, Zenon, ZenonT(30)
<1>6. ASSUME NEW s \in Segs, NEW private, Shmget(p, s, private)  PROVE CallShape(p)
  BY <1>6, ShmgetShape, Zenon DEF CallShape
<1>7. ASSUME NEW s \in Segs, s \in tables[p], NEW a \in Pages, InShare(a), NEW w, AttachShm(p, s, a, w)
      PROVE  CallShape(p)
  BY <1>1, <1>7, AttachCases, Zenon, ZenonT(30) DEF CallShape, Stops
<1>8. ASSUME NEW s \in Segs, NEW w, Shmat(p, s, w)  PROVE CallShape(p)
  BY <1>7, <1>8, ShareStart, SMTT(30) DEF Shmat
<1>9. ASSUME NEW s \in Segs, NEW a \in Pages, NEW w, ShmatAt(p, s, a, w)  PROVE CallShape(p)
  BY <1>1, <1>7, <1>9, Zenon DEF ShmatAt, Stops
<1>10. ASSUME NEW v \in Pages, Shmdt(p, v)  PROVE CallShape(p)
  <2>1. ASSUME NEW n \in Get(areas[p], v),
               ReleaseAndDrop(p, n.start..(n.end - 1), [areas EXCEPT ![p] = @ \ {n}], tables)
        PROVE  CallShape(p)
    <3>1. n.start..(n.end - 1) \in SUBSET Pages /\ n \in areas[p]
      BY AreaInPages
    <3>2. Releasing(areas[p], areas[p] \ {n}, n.start..(n.end - 1))
      BY <1>0, <3>1, AreaReleases, ZenonT(30)
    <3> QED BY <2>1, <3>1, <3>2, TablesShrink, DropShape, Zenon, ZenonT(30)
  <2> QED BY <1>1, <1>10, <2>1, ShmdtShape, Zenon, ZenonT(30)
<1>11. ASSUME NEW s \in Segs, Shmrm(p, s)  PROVE CallShape(p)
  <2>1. areas = [areas EXCEPT ![p] = areas[p]]
    BY <1>0
  <2>2. Releasing(areas[p], areas[p], {})
    BY DEF Releasing
  <2>3. ReleaseAndDrop(p, {}, [areas EXCEPT ![p] = areas[p]], [tables EXCEPT ![p] = @ \ {s}])
    BY <1>11, <2>1, Zenon DEF Shmrm
  <2> QED BY <2>2, <2>3, PageSets, TablesShrink, DropShape, Zenon
<1>12. CASE EmptyRange(p)
  BY <1>1, <1>12, ZenonT(30) DEF EmptyRange, Stops
<1> QED BY <1>2, <1>3, <1>4, <1>5, <1>6, <1>8, <1>9, <1>10, <1>11, <1>12, Zenon, ZenonT(30) DEF Call

\* Faults, stores, forks, execs and exits keep the counts right.
LEMMA StepCount ==
    ASSUME SetFacts, MemType, CountInv, panic = "no", NEW p \in Running, StepShape(p)
    PROVE  MemType' /\ CountInv'
<1>0. p \in Procs
  BY DEF Running
<1>1. CASE Stops
  <2>1. Still(p)
    BY <1>1, StopsStill, ZenonT(30)
  <2> QED BY <1>0, <2>1, StillCount
<1>2. CASE Ends(p)
  <2>1. Still(p)
    BY <1>2, EndsStill
  <2> QED BY <1>0, <2>1, StillCount
<1>3. ASSUME NEW v \in Pages, FaultShape(p, v)  PROVE MemType' /\ CountInv'
  BY <1>3, FaultCount
<1>4. ASSUME NEW v \in Pages, Store(p, v)  PROVE MemType' /\ CountInv'
  <2>1. Still(p)
    BY <1>4 DEF Store, Still, space, shm, MemType
  <2> QED BY <1>0, <2>1, StillCount, ZenonT(30)
<1>5. ASSUME NEW q \in Procs, Fork(p, q)  PROVE MemType' /\ CountInv'
  BY <1>0, <1>5, ForkCount, ZenonT(30)
<1>6. CASE Renews(p)
  BY <1>6, PageSets, TablesShrink, ReleaseCount, ZenonT(30) DEF Renews
<1> QED BY <1>1, <1>2, <1>3, <1>4, <1>5, <1>6, ZenonT(30) DEF StepShape

\* The system calls on memory keep the counts right.
LEMMA CallCount ==
    ASSUME SetFacts, MemType, CountInv, panic = "no", NEW p \in Running, CallShape(p)
    PROVE  MemType' /\ CountInv'
<1>0. p \in Procs
  BY DEF Running
<1>1. CASE Stops
  <2>1. Still(p)
    BY <1>1, StopsStill
  <2> QED BY <1>0, <2>1, StillCount
<1>2. ASSUME NEW K, Moves(p, K)  PROVE MemType' /\ CountInv'
  <2>1. Still(p)
    BY <1>2, ZenonT(30) DEF Moves, Still, phys, shm, MemType
  <2> QED BY <1>0, <2>1, StillCount
<1>3. ASSUME NEW S, NEW K, NEW ts, Drops(p, S, K, ts)  PROVE MemType' /\ CountInv'
  BY <1>3, ReleaseCount DEF Drops
<1>4. ASSUME NEW s \in Segs, Finds(p, s)  PROVE MemType' /\ CountInv'
  BY <1>0, <1>4, FindCount, SMTT(30)
<1>5. ASSUME NEW s \in Segs, NEW g \in Frames, NEW private, Creates(p, s, g, private)
      PROVE  MemType' /\ CountInv'
  BY <1>5, CreateCount
<1>6. ASSUME NEW s \in Segs, NEW a \in Pages, NEW w, Attaches(p, s, a, w)  PROVE MemType' /\ CountInv'
  BY <1>6, AttachCount
<1> QED BY <1>1, <1>2, <1>3, <1>4, <1>5, <1>6, ZenonT(30) DEF CallShape

\* The inductive invariant of the counts.
FrameInv == PlacedInv /\ MemType /\ CountInv

\* At the start no frame is mapped and none is counted.
LEMMA FrameInit ==
    ASSUME SetFacts, Init
    PROVE  FrameInv
<1>1. /\ pte = [p \in Procs |-> [v \in Pages |-> Invalid]]
      /\ rc = [f \in Frames |-> 0] /\ allocated = {} /\ mem = [f \in Frames |-> Junk]
      /\ life = [p \in Procs |-> IF p = First THEN "run" ELSE "none"]
      /\ segFrame = [s \in Segs |-> NoFrame] /\ tables = [p \in Procs |-> {}] /\ keyed = {}
  BY DEF Init
<1>2. Invalid.frame = NoFrame /\ IsEntry(Invalid) /\ NoFrame \notin Frames
  BY Names, SMTT(30) DEF Invalid, Entry, IsEntry
<1>3. MemType
  <2>1. rc \in [Frames -> Int] /\ DOMAIN mem = Frames /\ allocated = {f \in Frames : rc[f] > 0}
    BY <1>1
  <2>2. /\ DOMAIN pte = Procs /\ \A p \in Procs : DOMAIN pte[p] = Pages
        /\ \A p \in Procs, v \in Pages : pte[p][v] = Invalid
    BY <1>1
  <2>3. /\ segFrame \in [Segs -> Frames \cup {NoFrame}]
        /\ tables \in [Procs -> SUBSET Segs] /\ keyed \in SUBSET Segs
    BY <1>1
  <2>4. life \in [Procs -> {"none", "run", "dead"}]
    BY <1>1, SMTT(30)
  <2> QED BY <1>2, <2>1, <2>2, <2>3, <2>4, ZenonT(30) DEF MemType
<1>4. CountInv
  <2>1. \A P \in SUBSET Procs, f \in Frames : RefsIn(pte, P, f) = {}
    BY <1>1, <1>2, SMTT(30) DEF RefsIn
  <2>2. \A f \in Frames : SegsOn(f) = {}
    BY <1>1, <1>2, SMTT(30) DEF SegsOn
  <2>3. \A f \in Frames : /\ Count(pte, Procs, f) = 0 /\ Count(pte, Running, f) = 0
                          /\ Cardinality(SegsOn(f)) = 0 /\ rc[f] = 0
    BY <1>1, <2>1, <2>2, EmptyCount, ZenonT(30) DEF Count, Running
  <2>4. /\ \A f \in Frames : rc[f] <= Count(pte, Procs, f) + Cardinality(SegsOn(f))
        /\ \A f \in Frames : Count(pte, Running, f) + Cardinality(SegsOn(f)) <= rc[f]
    BY <2>3
  <2> QED BY <1>1, <2>4, ZenonT(30) DEF CountInv
<1> QED BY <1>3, <1>4, PlacedInit, ZenonT(30) DEF FrameInv

\* A process that takes a step runs, and the kernel has not stopped.
LEMMA StepRuns ==
    ASSUME NEW p \in Procs, Call(p) \/ Step(p)
    PROVE  panic = "no" /\ p \in Running
<1>1. CASE Call(p)
  BY <1>1, Zenon, ZenonT(30) DEF Call, Runs, Running, Brk, Mmap, Munmap, Mprotect, Shmget, EmptyRange, Shmat,
                     ShmatAt, Shmdt, Shmrm
<1>2. CASE Step(p)
  BY <1>2, Zenon, ZenonT(30) DEF Step, Runs, Running, PageFault, KernelRead, KernelWrite, EnsureUserArea,
                     Store, Fork, Exec, Exit
<1> QED BY <1>1, <1>2

\* Every step keeps the counts right and the areas where they belong.
LEMMA FrameNext ==
    ASSUME SetFacts, FrameInv, Next
    PROVE  FrameInv'
<1>1. PICK p \in Procs : Call(p) \/ Step(p)
  BY DEF Next
<1>2. panic = "no" /\ p \in Running
  BY <1>1, StepRuns, SMTT(30)
<1>3. MemType' /\ CountInv'
  <2>1. MemType /\ CountInv /\ PlacedInv
    BY DEF FrameInv
  <2>2. CallShape(p) \/ StepShape(p)
    BY <1>1, <2>1, CallShapes, StepShapes, ZenonT(30)
  <2> QED BY <1>2, <2>1, <2>2, CallCount, StepCount, ZenonT(30)
<1>4. PlacedInv'
  BY PlacedNext DEF FrameInv
<1> QED BY <1>3, <1>4 DEF FrameInv

\* So does a step that changes nothing.
LEMMA FrameStutter ==
    ASSUME FrameInv, UNCHANGED vars
    PROVE  FrameInv'
<1>1. UNCHANGED <<areas, pte, rc, allocated, mem, life, segFrame, tables, keyed, panic>>
  BY DEF vars, space, phys, shm
<1>2. PlacedInv'
  BY <1>1, SMTT(30) DEF FrameInv, PlacedInv, MapsInv, AllPlaced, Placed, InShare
<1>3. MemType'
  BY <1>1, ZenonT(30) DEF FrameInv, MemType, IsEntry, Invalid, Entry
<1>4. CountInv'
  BY <1>1, Zenon DEF FrameInv, CountInv, Count, RefsIn, Running, SegsOn
<1> QED BY <1>2, <1>3, <1>4, SMTT(30) DEF FrameInv
===============================================================================
