--------------------------- MODULE UserMemoryProofs ---------------------------
(*****************************************************************************)
(* Facts about the map of an address space, for maps of any size: removal    *)
(* takes away exactly the pages it names and keeps the areas disjoint, and   *)
(* an insertion into a range found free keeps them disjoint.  From them:     *)
(* the areas of every process stay disjoint, for any number of processes,    *)
(* frames and segments, any layout of the address space and any calls, and   *)
(* each lies where its kind belongs (process/user_space/range_map.rs and     *)
(* user_area.rs).                                                            *)
(*****************************************************************************)
EXTENDS UserMemory, TLAPS

-------------------------------------------------------------------------------
(* What the proofs use of finite sets.  Carrying the facts as one assumption *)
(* keeps the library's theorems out of the way of the provers; the last      *)
(* module, IsolationProofs, proves it (SetFactsHold) and the theorems        *)
(* without it.                                                               *)

\* A set of numbers has a least one, and an interval is finite.
NumberFacts ==
    /\ \A S \in SUBSET Nat : S # {} => \E m \in S : \A n \in S : m <= n
    /\ \A a, b \in Int : IsFiniteSet(a..b)

\* How many elements the smallest sets have.
SizeFacts ==
    /\ Cardinality({}) = 0
    /\ \A S : IsFiniteSet(S) => Cardinality(S) \in Nat /\ (Cardinality(S) = 0 <=> S = {})
    /\ \A x : IsFiniteSet({x}) /\ Cardinality({x}) = 1
    /\ \A S : IsFiniteSet(S) /\ Cardinality(S) = 1 => \E x : S = {x}

\* How many elements parts of a finite set have.
PartFacts ==
    \A S, T : IsFiniteSet(S) /\ T \subseteq S => IsFiniteSet(T) /\ Cardinality(T) <= Cardinality(S)

\* One element more or less.
ElementFacts ==
    /\ \A S, x : IsFiniteSet(S) /\ x \notin S => Cardinality(S \cup {x}) = Cardinality(S) + 1
    /\ \A S, x : IsFiniteSet(S) /\ x \in S => Cardinality(S \ {x}) = Cardinality(S) - 1

\* How many elements differences have.
DifferenceFacts ==
    \A S, T : IsFiniteSet(S) => Cardinality(S \ T) = Cardinality(S) - Cardinality(S \cap T)

\* How many elements unions have.
UnionFacts ==
    \A S, T : IsFiniteSet(S) /\ IsFiniteSet(T) =>
        Cardinality(S \cup T) = Cardinality(S) + Cardinality(T) - Cardinality(S \cap T)

\* How many elements products have.
ProductFacts ==
    \A S, T : IsFiniteSet(S) /\ IsFiniteSet(T) =>
        IsFiniteSet(S \X T) /\ Cardinality(S \X T) = Cardinality(S) * Cardinality(T)

SetFacts ==
    /\ NumberFacts /\ SizeFacts /\ PartFacts /\ ElementFacts
    /\ DifferenceFacts /\ UnionFacts /\ ProductFacts

\* The parts of SetFacts.
LEMMA LeastNumber ==
    ASSUME SetFacts, NEW S \in SUBSET Nat, S # {}
    PROVE  \E m \in S : \A n \in S : m <= n
BY Zenon DEF SetFacts, NumberFacts

LEMMA IntervalFinite ==
    ASSUME SetFacts, NEW a \in Int, NEW b \in Int
    PROVE  IsFiniteSet(a..b)
BY Zenon DEF SetFacts, NumberFacts

LEMMA CountIsNat ==
    ASSUME SetFacts, NEW S, IsFiniteSet(S)
    PROVE  Cardinality(S) \in Nat
BY Zenon DEF SetFacts, SizeFacts

LEMMA EmptyCount ==
    ASSUME SetFacts
    PROVE  Cardinality({}) = 0 /\ \A S : IsFiniteSet(S) => (Cardinality(S) = 0 <=> S = {})
BY Zenon DEF SetFacts, SizeFacts

LEMMA SingletonCount ==
    ASSUME SetFacts
    PROVE  /\ \A x : IsFiniteSet({x}) /\ Cardinality({x}) = 1
           /\ \A S : IsFiniteSet(S) /\ Cardinality(S) = 1 => \E x : S = {x}
BY Zenon DEF SetFacts, SizeFacts

LEMMA SubsetCount ==
    ASSUME SetFacts, NEW S, IsFiniteSet(S), NEW T \in SUBSET S
    PROVE  IsFiniteSet(T) /\ Cardinality(T) <= Cardinality(S)
BY Zenon DEF SetFacts, PartFacts

LEMMA AddCount ==
    ASSUME SetFacts, NEW S, NEW x, IsFiniteSet(S), x \notin S
    PROVE  Cardinality(S \cup {x}) = Cardinality(S) + 1
BY Zenon DEF SetFacts, ElementFacts

LEMMA RemoveCount ==
    ASSUME SetFacts, NEW S, NEW x, IsFiniteSet(S), x \in S
    PROVE  IsFiniteSet(S \ {x}) /\ Cardinality(S \ {x}) = Cardinality(S) - 1
<1>1. IsFiniteSet(S \ {x})
  <2>1. S \ {x} \in SUBSET S
    OBVIOUS
  <2> QED BY <2>1, SubsetCount, Zenon
<1> QED BY <1>1, Zenon DEF SetFacts, ElementFacts

LEMMA DifferenceCount ==
    ASSUME SetFacts, NEW S, NEW T, IsFiniteSet(S)
    PROVE  Cardinality(S \ T) = Cardinality(S) - Cardinality(S \cap T)
BY Zenon DEF SetFacts, DifferenceFacts

LEMMA UnionCount ==
    ASSUME SetFacts, NEW S, NEW T, IsFiniteSet(S), IsFiniteSet(T)
    PROVE  Cardinality(S \cup T) = Cardinality(S) + Cardinality(T) - Cardinality(S \cap T)
BY Zenon DEF SetFacts, UnionFacts

LEMMA ProductCount ==
    ASSUME SetFacts, NEW S, NEW T, IsFiniteSet(S), IsFiniteSet(T)
    PROVE  IsFiniteSet(S \X T) /\ Cardinality(S \X T) = Cardinality(S) * Cardinality(T)
BY Zenon DEF SetFacts, ProductFacts

-------------------------------------------------------------------------------
(* Maps. *)

\* The shape of a node.
IsNode(n) ==
    /\ n = Node(n.start, n.end, n.kind, n.w, n.off)
    /\ n.start \in Int /\ n.end \in Int

\* A map whose nodes are nodes, not empty and disjoint.
IsMap(M) == (\A n \in M : IsNode(n)) /\ WellFormed(M)

-------------------------------------------------------------------------------
\* The node with the largest start below x is the only one that can reach
\* over x (range(..x).next_back()).
LEMMA BeforeReaches ==
    ASSUME NEW M, IsMap(M), NEW x \in Int, NEW n \in M, n.start < x, x < n.end
    PROVE  n \in Before(M, x)
BY DEF IsMap, IsNode, WellFormed, Before

\* What is left of a map after remove(): an untouched node, the left part or
\* the right part of a node.
LEMMA RemoveNodes ==
    ASSUME NEW M, IsMap(M), NEW a \in Int, NEW b \in Int, a < b,
           NEW n \in Remove(M, a, b)
    PROVE  \E o \in M :
              \/ n = o /\ (o.end <= a \/ b <= o.start)
              \/ o.start < a /\ a < o.end /\ n = LeftPart(o, a)
              \/ o.start < b /\ b < o.end /\ n = RightPart(o, b)
<1> DEFINE L == CutLeft(M, a, b)
<1>1. n \in CutRight(L, b) /\ ~(a <= n.start /\ n.start < b)
  BY DEF Remove
<1>2. ASSUME NEW o \in L
      PROVE  \/ o \in M /\ (o.start < a => o.end <= a)
             \/ \E m \in M : m.start < a /\ a < m.end /\ o = LeftPart(m, a)
             \/ \E m \in M : m.start < b /\ b < m.end /\ o = RightPart(m, b)
  <2>1. CASE o \in M /\ ~(o \in Before(M, a) /\ a < o.end)
    BY <2>1, BeforeReaches DEF IsMap, IsNode
  <2>2. CASE \E m \in Before(M, a) : a < m.end /\ o = LeftPart(m, a)
    BY <2>2 DEF Before
  <2>3. CASE \E m \in Before(M, a) : a < m.end /\ b < m.end /\ o = RightPart(m, b)
    BY <2>3 DEF Before, IsMap, IsNode
  <2> QED BY <2>1, <2>2, <2>3, <1>2 DEF CutLeft
<1>3. \/ n \in L /\ ~(n \in Before(L, b) /\ b < n.end)
      \/ \E o \in L : o.start < b /\ b < o.end /\ n = RightPart(o, b)
  BY <1>1 DEF CutRight, Before
<1>4. CASE n \in L
  <2>1. CASE n \in M /\ (n.start < a => n.end <= a)
    <3>1. n.start < a \/ b <= n.start
      BY <1>1, <2>1 DEF IsMap, IsNode
    <3> QED BY <2>1, <3>1
  <2> QED BY <1>2, <1>4, <2>1
<1>5. ASSUME NEW o \in L, o.start < b, b < o.end, n = RightPart(o, b)
      PROVE  o \in M
  <2>1. ASSUME NEW m \in M, o = LeftPart(m, a)  PROVE FALSE
    <3>1. o.end = a BY <2>1 DEF LeftPart, IsMap, IsNode, Node
    <3> QED BY <3>1, <1>5
  <2>2. ASSUME NEW m \in M, o = RightPart(m, b)  PROVE FALSE
    <3>1. o.start = b BY <2>2 DEF RightPart, IsMap, IsNode, Node
    <3> QED BY <3>1, <1>5
  <2> QED BY <1>2, <2>1, <2>2
<1> QED BY <1>3, <1>4, <1>5

\* The parts of a node: where they lie.
LEMMA Parts ==
    ASSUME NEW n, IsNode(n), NEW at \in Int
    PROVE  /\ IsNode(LeftPart(n, at))
           /\ LeftPart(n, at).start = n.start /\ LeftPart(n, at).end = at
           /\ IsNode(RightPart(n, at))
           /\ RightPart(n, at).start = at /\ RightPart(n, at).end = n.end
BY DEF IsNode, Node, LeftPart, RightPart

\* An area that remove() leaves comes from an area of the map, as a whole or as
\* the part on one side of the range.
Whole(n, o, a, b) == n = o /\ (o.end <= a \/ b <= o.start)
OnLeft(n, o, a) == o.start < a /\ a < o.end /\ n = LeftPart(o, a)
OnRight(n, o, b) == o.start < b /\ b < o.end /\ n = RightPart(o, b)
ComesFrom(n, o, a, b) ==
    /\ o.start <= n.start /\ n.end <= o.end
    /\ \/ Whole(n, o, a, b)
       \/ OnLeft(n, o, a) /\ n.end = a
       \/ OnRight(n, o, b) /\ n.start = b

\* Where the nodes lie that remove() leaves: outside its range, each within a
\* node of the old map.
LEMMA RemoveInside ==
    ASSUME NEW M, IsMap(M), NEW a \in Int, NEW b \in Int, a < b,
           NEW n \in Remove(M, a, b)
    PROVE  /\ IsNode(n) /\ n.start < n.end
           /\ n.end <= a \/ b <= n.start
           /\ \E o \in M : ComesFrom(n, o, a, b)
<1>1. PICK o \in M : Whole(n, o, a, b) \/ OnLeft(n, o, a) \/ OnRight(n, o, b)
  BY RemoveNodes DEF Whole, OnLeft, OnRight
<1>2. IsNode(o) /\ o.start < o.end /\ o.start \in Int /\ o.end \in Int
  BY DEF IsMap, WellFormed, IsNode
<1>3. CASE Whole(n, o, a, b)
  <2>1. n = o /\ (o.end <= a \/ b <= o.start) BY <1>3 DEF Whole
  <2>2. ComesFrom(n, o, a, b) BY <1>2, <1>3, <2>1 DEF ComesFrom
  <2> QED BY <1>2, <2>1, <2>2
<1>4. CASE OnLeft(n, o, a)
  <2>1. IsNode(n) /\ n.start = o.start /\ n.end = a
    BY <1>2, <1>4, Parts, Zenon DEF OnLeft
  <2>2. o.start < a /\ a < o.end BY <1>4 DEF OnLeft
  <2>3. ComesFrom(n, o, a, b) BY <1>2, <1>4, <2>1, <2>2 DEF ComesFrom
  <2> QED BY <1>2, <2>1, <2>2, <2>3
<1>5. CASE OnRight(n, o, b)
  <2>1. IsNode(n) /\ n.start = b /\ n.end = o.end
    BY <1>2, <1>5, Parts, Zenon DEF OnRight
  <2>2. o.start < b /\ b < o.end BY <1>5 DEF OnRight
  <2>3. ComesFrom(n, o, a, b) BY <1>2, <1>5, <2>1, <2>2 DEF ComesFrom
  <2> QED BY <1>2, <2>1, <2>2, <2>3
<1> QED BY <1>1, <1>3, <1>4, <1>5

\* RangeMap::remove keeps the areas of a map disjoint and not empty.
THEOREM RemoveKeepsMap ==
    ASSUME NEW M, IsMap(M), NEW a \in Int, NEW b \in Int
    PROVE  IsMap(Remove(M, a, b))
<1>1. CASE a >= b
  BY <1>1 DEF Remove
<1>2. CASE a < b
  <2>1. \A n \in Remove(M, a, b) : IsNode(n) /\ n.start < n.end
    BY <1>2, RemoveInside
  <2>2. ASSUME NEW n \in Remove(M, a, b), NEW m \in Remove(M, a, b), n # m
        PROVE  n.end <= m.start \/ m.end <= n.start
    <3>1. PICK o \in M : ComesFrom(n, o, a, b)
      BY <1>2, RemoveInside
    <3>2. PICK q \in M : ComesFrom(m, q, a, b)
      BY <1>2, RemoveInside
    <3>3. /\ n.start \in Int /\ n.end \in Int /\ m.start \in Int /\ m.end \in Int
          /\ o.start \in Int /\ o.end \in Int /\ q.start \in Int /\ q.end \in Int
          /\ n.start < n.end /\ m.start < m.end
      BY <2>1 DEF IsMap, IsNode
    <3>4. CASE o # q
      <4>1. o.end <= q.start \/ q.end <= o.start
        BY <3>4 DEF IsMap, WellFormed
      <4> QED BY <3>1, <3>2, <3>3, <4>1 DEF ComesFrom
    <3>5. CASE o = q
      BY <1>2, <2>2, <3>1, <3>2, <3>3, <3>5 DEF ComesFrom, Whole, OnLeft, OnRight
    <3> QED BY <3>4, <3>5
  <2> QED BY <2>1, <2>2 DEF IsMap, WellFormed
<1> QED BY <1>1, <1>2

\* RangeMap::remove takes away the pages of [a, b) and no other page.
THEOREM RemoveExact ==
    ASSUME NEW M, IsMap(M), NEW a \in Int, NEW b \in Int, a < b, NEW v \in Int
    PROVE  (\E n \in Remove(M, a, b) : Covers(n, v))
               <=> (\E o \in M : Covers(o, v)) /\ ~(a <= v /\ v < b)
<1> DEFINE L == CutLeft(M, a, b)
<1>1. ASSUME NEW n \in Remove(M, a, b), Covers(n, v)
      PROVE  (\E o \in M : Covers(o, v)) /\ ~(a <= v /\ v < b)
  <2>1. PICK o \in M : ComesFrom(n, o, a, b)
    BY RemoveInside
  <2>2. /\ n.start \in Int /\ n.end \in Int /\ o.start \in Int /\ o.end \in Int
        /\ n.end <= a \/ b <= n.start
    BY RemoveInside DEF IsMap, IsNode
  <2> QED BY <1>1, <2>1, <2>2 DEF Covers, ComesFrom
<1>2. ASSUME NEW o \in M, Covers(o, v), ~(a <= v /\ v < b)
      PROVE  \E n \in Remove(M, a, b) : Covers(n, v)
  <2>1. IsNode(o) /\ o.start \in Int /\ o.end \in Int /\ o.start <= v /\ v < o.end
    BY <1>2 DEF IsMap, IsNode, Covers
  <2>2. ASSUME NEW n \in L, n.end <= b \/ ~(n.start < b), ~(a <= n.start /\ n.start < b),
               n.end \in Int
        PROVE  n \in Remove(M, a, b)
    BY <2>2 DEF Remove, CutRight, Before
  <2>3. CASE v < a /\ a < o.end
    <3>1. LeftPart(o, a) \in L
      BY <2>1, <2>3, BeforeReaches DEF CutLeft
    <3>2. LeftPart(o, a).start = o.start /\ LeftPart(o, a).end = a
      BY <2>1, Parts, Zenon
    <3>3. LeftPart(o, a) \in Remove(M, a, b)
      BY <2>1, <2>2, <2>3, <3>1, <3>2
    <3> QED BY <2>1, <2>3, <3>2, <3>3 DEF Covers
  <2>4. CASE o.end <= a \/ b <= o.start
    <3>1. o \in L
      BY <2>1, <2>4 DEF CutLeft, Before
    <3>2. o \in Remove(M, a, b)
      BY <2>1, <2>2, <2>4, <3>1
    <3> QED BY <1>2, <3>2
  <2>5. CASE b <= v /\ o.start < b
    <3> DEFINE r == RightPart(o, b)
    <3>1. r.start = b /\ r.end = o.end
      BY <2>1, Parts, Zenon
    <3>2. Covers(r, v)
      BY <2>1, <2>5, <3>1 DEF Covers
    <3>3. CASE o.start < a
      <4>1. r \in L
        BY <2>1, <2>5, <3>3, BeforeReaches DEF CutLeft
      <4> QED BY <2>1, <2>2, <3>1, <3>2, <4>1
    <3>4. CASE a <= o.start
      <4>1. o \in L
        BY <2>1, <3>4 DEF CutLeft, Before
      <4>2. ASSUME NEW x \in L, x.start < b  PROVE x.start <= o.start
        <5>1. CASE x \in M
          BY <2>1, <2>5, <4>2, <5>1 DEF IsMap, IsNode, WellFormed
        <5>2. CASE \E m \in M : m.start < a /\ x = LeftPart(m, a)
          BY <2>1, <3>4, <5>2, Parts, SMTT(30) DEF IsMap, IsNode
        <5>3. CASE \E m \in M : x = RightPart(m, b)
          BY <4>2, <5>3, Parts DEF IsMap, IsNode
        <5> QED BY <4>2, <5>1, <5>2, <5>3 DEF CutLeft, Before
      <4>3. o \in Before(L, b)
        BY <2>5, <4>1, <4>2 DEF Before
      <4>4. r \in CutRight(L, b)
        BY <2>1, <2>5, <4>3 DEF CutRight
      <4>5. r \in Remove(M, a, b)
        BY <3>1, <4>4 DEF Remove
      <4> QED BY <3>2, <4>5
    <3> QED BY <2>1, <3>3, <3>4
  <2> QED BY <1>2, <2>1, <2>3, <2>4, <2>5
<1> QED BY <1>1, <1>2

\* An area taken out keeps the map disjoint.
LEMMA SubMap ==
    ASSUME NEW M, IsMap(M), NEW K \in SUBSET M
    PROVE  IsMap(K)
BY DEF IsMap, WellFormed

\* An area that overlaps no area of a map can join it.
LEMMA AddNode ==
    ASSUME NEW K, IsMap(K), NEW n, IsNode(n), n.start < n.end,
           \A o \in K : o.end <= n.start \/ n.end <= o.start
    PROVE  IsMap(K \cup {n})
BY DEF IsMap, WellFormed

\* A new area at the place find_free_range found overlaps no other one.
THEOREM InsertKeepsMap ==
    ASSUME NEW M, IsMap(M), NEW lo \in Int, NEW hi \in Int, NEW size \in Int, size > 0,
           NEW a \in FreeStart(M, lo, hi, size), NEW k, NEW w, NEW off
    PROVE  IsMap(M \cup {Node(a, a + size, k, w, off)})
<1> DEFINE n == Node(a, a + size, k, w, off)
<1>1. a \in Int /\ a + size <= hi
  BY DEF FreeStart, IsMap, IsNode
<1>2. n.start = a /\ n.end = a + size /\ IsNode(n)
  BY <1>1 DEF IsNode, Node
<1>3. ASSUME NEW o \in M  PROVE o.end <= a \/ a + size <= o.start
  BY <1>1 DEF FreeStart, IsMap, IsNode
<1>4. a < a + size
  BY <1>1
<1>5. n.start < n.end /\ \A o \in M : o.end <= n.start \/ n.end <= o.start
  BY <1>2, <1>3, <1>4
<1> HIDE DEF n
<1>6. IsMap(M \cup {n})
  BY <1>2, <1>5, AddNode
<1> QED BY <1>6 DEF n

\* Where a node starts below x, range(..x).next_back() finds one: starts are
\* integers, so those below x have a largest.
LEMMA BeforeExists ==
    ASSUME SetFacts, NEW M, IsMap(M), NEW x \in Int, NEW n \in M, n.start < x
    PROVE  \E m \in Before(M, x) : n.start <= m.start
<1> DEFINE T == {x - o.start : o \in {q \in M : q.start < x}}
<1>1. \A o \in M : o.start \in Int
  BY DEF IsMap, IsNode
<1>2. T \subseteq Nat
  BY <1>1
<1>3. x - n.start \in T
  OBVIOUS
<1>4. PICK t \in T : \A u \in T : t <= u
  <2> HIDE DEF T
  <2> QED BY <1>2, <1>3, LeastNumber
<1>5. \A u \in T : ~(u < t)
  <2> HIDE DEF T
  <2> QED BY <1>2, <1>4
<1>6. PICK m \in M : m.start < x /\ t = x - m.start
  OBVIOUS
<1>7. \A o \in M : o.start < x => o.start <= m.start
  <2> SUFFICES ASSUME NEW o \in M, o.start < x  PROVE o.start <= m.start
    OBVIOUS
  <2>1. x - o.start \in T
    OBVIOUS
  <2>2. ~(x - o.start < t)
    BY <1>5, <2>1
  <2> QED BY <1>1, <1>6, <2>2
<1> QED BY <1>6, <1>7 DEF Before

\* try_insert compares the new range with one node only, the last that starts
\* before its end; when that one does not reach into it, no node does.
LEMMA InsertFree ==
    ASSUME SetFacts, NEW M, IsMap(M), NEW a \in Int, NEW b \in Int, CanInsert(M, a, b)
    PROVE  \A o \in M : o.start < b => o.end <= a
<1> SUFFICES ASSUME NEW o \in M, o.start < b  PROVE o.end <= a
  OBVIOUS
<1>1. PICK m \in Before(M, b) : o.start <= m.start
  BY BeforeExists
<1>2. m \in M /\ m.end <= a
  BY <1>1 DEF Before, CanInsert
<1>3. /\ o.start \in Int /\ o.end \in Int /\ m.start \in Int /\ m.end \in Int
      /\ o.start < o.end /\ m.start < m.end
      /\ o = m \/ o.end <= m.start \/ m.end <= o.start
  BY <1>2 DEF IsMap, IsNode, WellFormed
<1> QED BY <1>1, <1>2, <1>3

\* What try_insert returns is a map again.
LEMMA InsertedIsMap ==
    ASSUME SetFacts, NEW M, IsMap(M), NEW a \in Int, NEW b \in Int, CanInsert(M, a, b),
           NEW k, NEW w, NEW off
    PROVE  IsMap(M \cup {Node(a, b, k, w, off)})
<1> DEFINE n == Node(a, b, k, w, off)
<1>1. n.start = a /\ n.end = b /\ IsNode(n) /\ a < b
  BY DEF IsNode, Node, CanInsert
<1>2. \A o \in M : o.start < b => o.end <= a
  BY InsertFree
<1>3. n.start < n.end /\ \A o \in M : o.end <= n.start \/ n.end <= o.start
  <2>1. \A o \in M : o.start \in Int
    BY DEF IsMap, IsNode
  <2> QED BY <1>1, <1>2, <2>1
<1> HIDE DEF n
<1>4. IsMap(M \cup {n})
  BY <1>1, <1>3, AddNode
<1> QED BY <1>4 DEF n

\* A new area in the place of a removed range overlaps no other one.
THEOREM ReplaceKeepsMap ==
    ASSUME NEW M, IsMap(M), NEW a \in Int, NEW b \in Int, a < b, NEW k, NEW w, NEW off
    PROVE  IsMap(Remove(M, a, b) \cup {Node(a, b, k, w, off)})
<1> DEFINE n == Node(a, b, k, w, off)
<1>1. n.start = a /\ n.end = b /\ IsNode(n)
  BY DEF IsNode, Node
<1>2. IsMap(Remove(M, a, b))
  BY RemoveKeepsMap
<1>3. \A o \in Remove(M, a, b) : o.end <= a \/ b <= o.start
  BY RemoveInside
<1>4. n.start < n.end /\ \A o \in Remove(M, a, b) : o.end <= n.start \/ n.end <= o.start
  BY <1>1, <1>3
<1> HIDE DEF n
<1>5. IsMap(Remove(M, a, b) \cup {n})
  BY <1>1, <1>2, <1>4, AddNode
<1> QED BY <1>5 DEF n

\* Moving the end of an area (extend_back into free pages, reduce_back) keeps
\* the map disjoint.
THEOREM ResizeKeepsMap ==
    ASSUME NEW M, IsMap(M), NEW n \in M, NEW b \in Int, n.start < b,
           b < n.end \/ IsFree(M, n.end, b)
    PROVE  IsMap((M \ {n}) \cup {Node(n.start, b, n.kind, n.w, n.off)})
<1> DEFINE r == Node(n.start, b, n.kind, n.w, n.off)
<1>1. r.start = n.start /\ r.end = b /\ IsNode(r)
  BY DEF IsMap, IsNode, Node
<1>2. n.start \in Int /\ n.end \in Int /\ n.start < n.end
  BY DEF IsMap, IsNode, WellFormed
<1>3. ASSUME NEW o \in M \ {n}  PROVE o.end <= n.start \/ b <= o.start
  <2>1. /\ o.start \in Int /\ o.end \in Int
        /\ o.end <= n.start \/ n.end <= o.start
    BY DEF IsMap, IsNode, WellFormed
  <2>2. b < n.end \/ ~(n.end <= o.start /\ o.start < b)
    BY DEF IsFree
  <2> QED BY <1>2, <2>1, <2>2
<1>4. r.start < r.end /\ \A o \in M \ {n} : o.end <= r.start \/ r.end <= o.start
  BY <1>1, <1>3
<1>5. IsMap(M \ {n})
  BY SubMap
<1> HIDE DEF r
<1>6. IsMap((M \ {n}) \cup {r})
  BY <1>1, <1>4, <1>5, AddNode
<1> QED BY <1>6 DEF r

-------------------------------------------------------------------------------
(* The areas of every process. *)

\* The inductive invariant: every process has a map.  Disjointness alone is not
\* inductive, because the proofs about maps need bounds that are integers.
MapsInv == DOMAIN areas = Procs /\ \A p \in Procs : IsMap(areas[p])

\* A step that leaves the areas alone, or gives one process another map.
AreasStep ==
    \/ areas' = areas
    \/ \E p \in Procs : \E K : IsMap(K) /\ areas' = [areas EXCEPT ![p] = K]

\* A change of one map into another map keeps the maps of all processes.
LEMMA StepKeepsMaps ==
    ASSUME MapsInv, AreasStep
    PROVE  MapsInv'
<1>1. CASE areas' = areas
  BY <1>1 DEF MapsInv
<1>2. ASSUME NEW p \in Procs, NEW K, IsMap(K), areas' = [areas EXCEPT ![p] = K]
      PROVE  MapsInv'
  BY <1>2 DEF MapsInv
<1> QED BY <1>1, <1>2 DEF AreasStep

\* What every call that releases pages does to the areas.
LEMMA ReleaseAreas ==
    ASSUME NEW p, NEW S, NEW as, NEW ts, ReleaseAndDrop(p, S, as, ts)
    PROVE  areas' = areas \/ areas' = as
BY Zenon DEF ReleaseAndDrop, Panic, space

\* The heap that exec leaves is a map.
LEMMA HeapIsMap == IsMap({Heap})
BY Layout DEF IsMap, IsNode, WellFormed, Heap, Node

\* A page fault changes no area, whoever takes it and however it ends.
LEMMA FaultAreas ==
    ASSUME NEW p \in Procs, NEW v \in Pages, NEW write \in BOOLEAN, NEW kernel \in BOOLEAN,
           HandlePagefault(p, v, write, kernel)
    PROVE  areas' = areas
<1>1. ASSUME NEW n, FaultIn(p, v, n, kernel)
      PROVE  areas' = areas
  BY <1>1, Zenon DEF FaultIn, FaultFails, Kill, Panic, space
<1>2. ASSUME NEW n, CopyOnWrite(p, v, n, kernel)
      PROVE  areas' = areas
  BY <1>2, Zenon DEF CopyOnWrite, Kill, space
<1>3. ASSUME FaultFails(p, kernel)
      PROVE  areas' = areas
  BY <1>3 DEF FaultFails, Kill, space
<1> QED BY <1>1, <1>2, <1>3, Zenon DEF HandlePagefault, Panic, space

\* A step of a process outside the calls that change mappings or segments.
LEMMA StepAreas ==
    ASSUME MapsInv, NEW p \in Procs, Step(p)
    PROVE  AreasStep
<1>1. ASSUME NEW v \in Pages, NEW write \in BOOLEAN, PageFault(p, v, write)
      PROVE  areas' = areas
  BY <1>1, FaultAreas, Zenon DEF PageFault
<1>2. ASSUME NEW v \in Pages, Store(p, v)
      PROVE  areas' = areas
  BY <1>2 DEF Store, space
<1>3. ASSUME NEW q \in Procs, Fork(p, q)
      PROVE  IsMap(areas[p]) /\ areas' = [areas EXCEPT ![q] = areas[p]]
  BY <1>3 DEF Fork, MapsInv
<1>4. ASSUME Exec(p)
      PROVE  areas' = areas \/ areas' = [areas EXCEPT ![p] = {Heap}]
  BY <1>4, ReleaseAreas, Zenon DEF Exec, Panic, space
<1>5. ASSUME Exit(p)
      PROVE  areas' = areas
  BY <1>5 DEF Exit, Kill, space
<1>6. ASSUME NEW v \in Pages, KernelRead(p, v) \/ KernelWrite(p, v)
      PROVE  areas' = areas
  BY <1>6, FaultAreas, Zenon DEF KernelRead, KernelWrite, EnsureUserArea
<1> QED BY <1>1, <1>2, <1>3, <1>4, <1>5, <1>6, HeapIsMap DEF Step, AreasStep

\* The nodes of a map have integer bounds.
LEMMA Bounds ==
    ASSUME MapsInv, NEW p \in Procs, NEW v \in Int, NEW n \in Get(areas[p], v)
    PROVE  n \in areas[p] /\ n.start \in Int /\ n.end \in Int /\ n.start < n.end
BY DEF MapsInv, Get, Before, IsMap, IsNode, WellFormed

\* sys_brk moves the end of the heap area, up to the next area at most.
LEMMA BrkAreas ==
    ASSUME MapsInv, NEW p \in Procs, NEW b \in Int, Brk(p, b)
    PROVE  AreasStep
<1>1. CASE Get(areas[p], HeapBeg) = {} /\ Panic("brk without heap")
  BY <1>1, Zenon DEF Panic, space, AreasStep
<1>2. ASSUME NEW n \in Get(areas[p], HeapBeg)
      PROVE  /\ CanExtend(areas[p], n, b) => IsMap(ExtendBack(areas[p], n, b))
             /\ CanReduce(n, b) => IsMap(ReduceBack(areas[p], n, b))
  <2> DEFINE M == areas[p]
  <2>1. IsMap(M) /\ n \in M /\ n.start \in Int /\ n.end \in Int /\ n.start < n.end
    BY Bounds, Layout DEF MapsInv
  <2>2. ASSUME n.start < b, b < n.end \/ IsFree(M, n.end, b)
        PROVE  IsMap((M \ {n}) \cup {Node(n.start, b, n.kind, n.w, n.off)})
    BY <2>1, <2>2, ResizeKeepsMap, Zenon
  <2>3. CASE b = n.start
    <3>1. M \ {n} \in SUBSET M OBVIOUS
    <3> QED BY <2>1, <2>3, <3>1, SubMap DEF CanExtend, ReduceBack
  <2>4. CASE b # n.start
    BY <2>1, <2>2, <2>4 DEF CanExtend, CanReduce, ExtendBack, ReduceBack
  <2> QED BY <2>3, <2>4
<1> QED BY <1>1, <1>2, Zenon DEF Brk, ResetHeapBreak, AreasStep

\* find_free_range gives addresses.
LEMMA FreeStartIsInt ==
    ASSUME MapsInv, NEW p \in Procs, NEW kind, NEW size, NEW a \in FindFreeArea(p, kind, size)
    PROVE  a \in Int
BY Layout DEF MapsInv, IsMap, IsNode, FindFreeArea, FreeStart

\* What every call that adds an area does to the areas.
LEMMA InsertAreas ==
    ASSUME SetFacts, MapsInv, NEW p \in Procs, NEW a \in Int, NEW size \in Int, NEW kind, NEW w,
           InsertAt(p, a, size, kind, w)
    PROVE  AreasStep
<1>1. /\ CanInsert(areas[p], a, a + size)
      /\ areas' = [areas EXCEPT ![p] = areas[p] \cup {Node(a, a + size, kind, w, 0)}]
  BY DEF InsertAt
<1>2. IsMap(areas[p]) /\ a + size \in Int
  BY DEF MapsInv
<1>3. IsMap(areas[p] \cup {Node(a, a + size, kind, w, 0)})
  BY <1>1, <1>2, InsertedIsMap
<1> QED BY <1>1, <1>3, Zenon DEF AreasStep

\* sys_mmap inserts an area into a range that was found free.
LEMMA MmapAreas ==
    ASSUME SetFacts, MapsInv, NEW p \in Procs, NEW m \in Maps, Mmap(p, m[1], m[2], m[3])
    PROVE  AreasStep
<1>1. PICK a \in FindFreeArea(p, m[2], m[1]) : InsertAt(p, a, m[1], m[2], m[3])
  BY DEF Mmap, InsertMmap
<1>2. a \in Int /\ m[1] \in Int
  BY MapCalls, FreeStartIsInt
<1> QED BY <1>1, <1>2, InsertAreas

\* sys_shmat inserts an area of one page, checked by try_insert.
LEMMA AttachAreas ==
    ASSUME SetFacts, MapsInv, NEW p \in Procs, NEW s \in Segs, NEW a \in Int, NEW w \in BOOLEAN,
           AttachShm(p, s, a, w)
    PROVE  AreasStep
<1>1. areas' = areas \/ InsertAt(p, a, 1, s, w)
  BY Zenon DEF AttachShm, Panic, space
<1> QED BY <1>1, InsertAreas DEF AreasStep

\* sys_mprotect replaces an area, or cuts its range out and puts it back.
LEMMA MprotectAreas ==
    ASSUME MapsInv, NEW p \in Procs, NEW a \in Int, NEW b \in Int, a < b,
           NEW w \in BOOLEAN, Mprotect(p, a, b, w)
    PROVE  AreasStep
<1>1. PICK n \in Get(areas[p], a) :
          \/ areas' = areas
          \/ /\ a = n.start /\ b = n.end
             /\ areas' = [areas EXCEPT ![p] = (areas[p] \ {n}) \cup {Node(a, b, n.kind, w, n.off)}]
          \/ areas' = [areas EXCEPT ![p] = Remove(areas[p], a, b) \cup {Node(a, b, n.kind, w, n.off)}]
  BY ReleaseAreas DEF Mprotect, RemapRange, WithSameKind
<1>2. IsMap(areas[p]) /\ n \in areas[p] /\ n.start \in Int /\ n.end \in Int /\ n.start < n.end
  BY Bounds DEF MapsInv
<1>3. ASSUME a = n.start, b = n.end
      PROVE  IsMap((areas[p] \ {n}) \cup {Node(a, b, n.kind, w, n.off)})
  <2> DEFINE r == Node(a, b, n.kind, w, n.off)
  <2>1. r.start = a /\ r.end = b /\ IsNode(r)
    BY DEF Node, IsNode
  <2>2. IsMap(areas[p] \ {n})
    BY <1>2, SubMap
  <2>3. \A o \in areas[p] \ {n} : o.end <= a \/ b <= o.start
    BY <1>2, <1>3 DEF IsMap, WellFormed
  <2> HIDE DEF r
  <2>4. IsMap((areas[p] \ {n}) \cup {r})
    BY <2>1, <2>2, <2>3, AddNode
  <2> QED BY <2>4 DEF r
<1>4. IsMap(Remove(areas[p], a, b) \cup {Node(a, b, n.kind, w, n.off)})
  BY <1>2, ReplaceKeepsMap, Zenon
<1> QED BY <1>1, <1>3, <1>4 DEF AreasStep

\* A system call.
LEMMA CallAreas ==
    ASSUME SetFacts, MapsInv, NEW p \in Procs, Call(p)
    PROVE  AreasStep
<1>1. ASSUME NEW b \in HeapBeg..HeapEnd, Brk(p, b)  PROVE AreasStep
  BY <1>1, BrkAreas, Layout
<1>2. ASSUME NEW m \in Maps, Mmap(p, m[1], m[2], m[3])  PROVE AreasStep
  BY <1>2, MmapAreas
<1>3. ASSUME NEW r \in Ranges(HeapBeg, ShareEnd), Munmap(p, r[1], r[2])  PROVE AreasStep
  <2>1. r[1] \in Int /\ r[2] \in Int
    BY Layout DEF Ranges
  <2>2. areas' = areas \/ areas' = [areas EXCEPT ![p] = Remove(areas[p], r[1], r[2])]
    BY <1>3, ReleaseAreas DEF Munmap, UnmapRange
  <2>3. IsMap(Remove(areas[p], r[1], r[2]))
    BY <2>1, RemoveKeepsMap DEF MapsInv
  <2> QED BY <2>2, <2>3 DEF AreasStep
<1>4. ASSUME NEW r \in Ranges(MmapBeg, MmapEnd), NEW w \in BOOLEAN, Mprotect(p, r[1], r[2], w)
      PROVE  AreasStep
  <2>1. r[1] \in Int /\ r[2] \in Int /\ r[1] < r[2]
    BY Layout DEF Ranges
  <2> QED BY <1>4, <2>1, MprotectAreas
<1>5. ASSUME NEW s \in Segs, NEW private \in BOOLEAN, Shmget(p, s, private)  PROVE AreasStep
  BY <1>5 DEF Shmget, space, AreasStep
<1>6. ASSUME NEW s \in Segs, NEW w \in BOOLEAN, Shmat(p, s, w)  PROVE AreasStep
  BY <1>6, FreeStartIsInt, AttachAreas DEF Shmat
<1>7. ASSUME NEW v \in Pages, Shmdt(p, v)  PROVE AreasStep
  <2>1. PICK n \in Get(areas[p], v) :
            areas' = areas \/ areas' = [areas EXCEPT ![p] = areas[p] \ {n}]
    BY <1>7, ReleaseAreas, Zenon DEF Shmdt, Panic, space
  <2>2. IsMap(areas[p] \ {n})
    BY SubMap DEF MapsInv
  <2> QED BY <2>1, <2>2 DEF AreasStep
<1>8. ASSUME NEW s \in Segs, Shmrm(p, s)  PROVE AreasStep
  BY <1>8, ReleaseAreas DEF Shmrm, AreasStep
<1>9. ASSUME NEW s \in Segs, NEW w \in BOOLEAN, NEW a \in Pages, ShmatAt(p, s, a, w)
      PROVE  AreasStep
  <2>1. a \in Int
    BY Layout DEF Pages
  <2>2. areas' = areas \/ AttachShm(p, s, a, w)
    BY <1>9, Zenon DEF ShmatAt, Panic, space
  <2> QED BY <2>1, <2>2, AttachAreas DEF AreasStep
<1>10. ASSUME EmptyRange(p)  PROVE AreasStep
  BY <1>10, Zenon DEF EmptyRange, Panic, space, AreasStep
<1> QED BY <1>1, <1>2, <1>3, <1>4, <1>5, <1>6, <1>7, <1>8, <1>9, <1>10 DEF Call

-------------------------------------------------------------------------------
(* Where areas lie. *)

\* A call that changes the areas of p and nothing else.
Moves(p, K) == areas' = [areas EXCEPT ![p] = K] /\ UNCHANGED <<pte, phys, life, shm, panic>>

\* What sys_mmap changes: a new area in a free range and nothing else.
LEMMA MmapShape ==
    ASSUME NEW p, NEW size, NEW kind, NEW w, Mmap(p, size, kind, w)
    PROVE  \E a \in FindFreeArea(p, kind, size) :
               /\ CanInsert(areas[p], a, a + size)
               /\ Moves(p, areas[p] \cup {Node(a, a + size, kind, w, 0)})
BY ZenonT(30) DEF Mmap, InsertMmap, InsertAt, Moves

\* What sys_brk changes: the heap area, or the kernel panics without one.
LEMMA BrkShape ==
    ASSUME NEW p, NEW b, Brk(p, b)
    PROVE  \/ Panic("brk without heap")
           \/ \E n \in Get(areas[p], HeapBeg) :
                  \/ CanExtend(areas[p], n, b) /\ Moves(p, ExtendBack(areas[p], n, b))
                  \/ CanReduce(n, b) /\ Moves(p, ReduceBack(areas[p], n, b))
BY Zenon DEF Brk, ResetHeapBreak, Moves

\* The area of a segment is one page of the share region; every other area is
\* memory or a file, below that region.
Placed(n) ==
    IF n.kind \in Segs THEN n.end = n.start + 1 /\ InShare(n.start)
    ELSE n.kind \in {"anon", "file"} /\ HeapBeg <= n.start /\ n.end <= MmapEnd
AllPlaced(M) == \A n \in M : Placed(n)
PlacedInv ==
    /\ MapsInv /\ areas = [p \in Procs |-> areas[p]]
    /\ \A p \in Procs : AllPlaced(areas[p])

\* An area below the share region is not that of a segment.
LEMMA NotSegment ==
    ASSUME PlacedInv, NEW p \in Procs, NEW v \in Int, v < ShareBeg, NEW n \in Get(areas[p], v)
    PROVE  /\ n \in areas[p] /\ n.start \in Int /\ n.end \in Int /\ n.start <= v /\ v < n.end
           /\ n.kind \notin Segs /\ n.kind \in {"anon", "file"} /\ HeapBeg <= n.start /\ n.end <= MmapEnd
<1>1. n \in areas[p] /\ n.start \in Int /\ n.end \in Int /\ n.start <= v /\ v < n.end
  BY Bounds DEF PlacedInv, Get, Before
<1>2. ShareBeg \in Int
  BY Layout
<1>3. Placed(n)
  BY <1>1 DEF PlacedInv, AllPlaced
<1> QED BY <1>1, <1>2, <1>3, SMTT(30) DEF Placed, InShare

\* remove() cuts no area of a segment in two.
LEMMA RemovePlaced ==
    ASSUME NEW M, IsMap(M), AllPlaced(M), NEW a \in Int, NEW b \in Int, a < b,
           NEW n \in Remove(M, a, b)
    PROVE  Placed(n) /\ (n.kind \in Segs => n \in M /\ (n.end <= a \/ b <= n.start))
<1>1. PICK o \in M : ComesFrom(n, o, a, b)
  BY RemoveInside
<1>2. n.start \in Int /\ n.end \in Int /\ n.start < n.end
  BY RemoveInside DEF IsNode
<1>3. o.start \in Int /\ o.end \in Int /\ IsNode(o) /\ Placed(o)
  BY DEF IsMap, IsNode, AllPlaced
<1>4. CASE Whole(n, o, a, b)
  BY <1>3, <1>4 DEF Whole
<1>5. CASE OnLeft(n, o, a) \/ OnRight(n, o, b)
  <2>1. n.kind = o.kind
    BY <1>5 DEF OnLeft, OnRight, LeftPart, RightPart, Node
  <2>2. o.start + 1 < o.end
    BY <1>3, <1>5 DEF OnLeft, OnRight
  <2>3. o.kind \notin Segs
    BY <1>3, <2>2 DEF Placed
  <2>4. o.start <= n.start /\ n.end <= o.end /\ {HeapBeg, MmapEnd} \subseteq Int
    BY <1>1, Layout DEF ComesFrom
  <2> QED BY <1>2, <1>3, <2>1, <2>3, <2>4, SMTT(30) DEF Placed
<1> QED BY <1>1, <1>4, <1>5 DEF ComesFrom

\* The areas stay, or one process gets others.
PlacedStep ==
    \/ areas' = areas
    \/ \E p \in Procs : \E K : AllPlaced(K) /\ areas' = [areas EXCEPT ![p] = K]

\* The heap area is where the heap belongs.
LEMMA HeapPlaced == AllPlaced({Heap})
<1>1. Heap.kind = "anon" /\ Heap.start = HeapBeg /\ Heap.end = HeapBeg + 1
  BY DEF Heap, Node
<1>2. Heap.kind \notin Segs
  BY <1>1, Names
<1>3. HeapBeg <= HeapBeg /\ HeapBeg + 1 <= MmapEnd
  BY Layout
<1> QED BY <1>1, <1>2, <1>3 DEF AllPlaced, Placed

\* An area that is well placed, added to areas that are.
LEMMA NewPlaced ==
    ASSUME NEW a \in Int, NEW b \in Int, NEW k, NEW w, NEW off,
           Placed(Node(a, b, k, w, off)), NEW K, AllPlaced(K), NEW p \in Procs,
           areas' = [areas EXCEPT ![p] = K \cup {Node(a, b, k, w, off)}]
    PROVE  PlacedStep
<1>1. AllPlaced(K \cup {Node(a, b, k, w, off)})
  BY Zenon DEF AllPlaced
<1> QED BY <1>1, Zenon DEF PlacedStep

\* sys_brk keeps the heap below its limit.
LEMMA BrkPlaced ==
    ASSUME PlacedInv, NEW p \in Procs, NEW b \in HeapBeg..HeapEnd, Brk(p, b)
    PROVE  PlacedStep
<1>1. CASE Panic("brk without heap")
  BY <1>1, Zenon DEF Panic, space, PlacedStep
<1>2. ASSUME NEW n \in Get(areas[p], HeapBeg), Moves(p, ReduceBack(areas[p], n, b)) \/ Moves(p, ExtendBack(areas[p], n, b))
      PROVE  PlacedStep
  <2>1. /\ n.start \in Int /\ n.kind \notin Segs /\ n.kind \in {"anon", "file"}
        /\ HeapBeg <= n.start /\ b \in Int /\ b <= MmapEnd
    BY NotSegment, Layout
  <2>2. Placed(Node(n.start, b, n.kind, n.w, n.off))
    BY <2>1 DEF Placed, Node
  <2>3. AllPlaced(areas[p] \ {n})
    BY DEF PlacedInv, AllPlaced
  <2>4. AllPlaced((areas[p] \ {n}) \cup {Node(n.start, b, n.kind, n.w, n.off)})
    BY <2>2, <2>3, Zenon, ZenonT(30) DEF AllPlaced
  <2>5. AllPlaced(ExtendBack(areas[p], n, b)) /\ AllPlaced(ReduceBack(areas[p], n, b))
    BY <2>3, <2>4, SMTT(30) DEF ExtendBack, ReduceBack
  <2> QED BY <1>2, <2>5, Zenon, ZenonT(30) DEF Moves, PlacedStep
<1> QED BY <1>1, <1>2, BrkShape, Zenon

\* sys_mmap places areas below the end of the mmap region.
LEMMA MmapPlaced ==
    ASSUME PlacedInv, NEW p \in Procs, NEW m \in Maps, Mmap(p, m[1], m[2], m[3])
    PROVE  PlacedStep
<1>1. PICK a \in FindFreeArea(p, m[2], m[1]) : Moves(p, areas[p] \cup {Node(a, a + m[1], m[2], m[3], 0)})
  BY MmapShape, Zenon
<1>2. a \in Int /\ m[1] \in Int /\ m[2] \in {"anon", "file"} /\ m[2] \notin Segs
  BY MapCalls, Names, FreeStartIsInt, SMTT(30) DEF PlacedInv
<1>3. HeapBeg <= a /\ a + m[1] <= MmapEnd
  BY <1>2, Layout, SMTT(30) DEF FindFreeArea, FreeStart
<1>4. Placed(Node(a, a + m[1], m[2], m[3], 0))
  BY <1>2, <1>3 DEF Placed, Node
<1>5. AllPlaced(areas[p]) /\ a + m[1] \in Int
  BY <1>2 DEF PlacedInv
<1>6. areas' = [areas EXCEPT ![p] = areas[p] \cup {Node(a, a + m[1], m[2], m[3], 0)}]
  BY <1>1 DEF Moves
<1> QED BY <1>2, <1>4, <1>5, <1>6, NewPlaced, Zenon

\* sys_shmat places one page in the share region.
LEMMA AttachPlaced ==
    ASSUME PlacedInv, NEW p \in Procs, NEW s \in Segs, NEW a \in Int, InShare(a), NEW w,
           AttachShm(p, s, a, w)
    PROVE  PlacedStep
<1>1. areas' = areas \/ areas' = [areas EXCEPT ![p] = areas[p] \cup {Node(a, a + 1, s, w, 0)}]
  BY Zenon DEF AttachShm, InsertAt, Panic, space
<1>2. Placed(Node(a, a + 1, s, w, 0))
  BY DEF Placed, Node
<1>3. AllPlaced(areas[p]) /\ a + 1 \in Int
  BY DEF PlacedInv
<1>4. CASE areas' = areas
  BY <1>4 DEF PlacedStep
<1>5. CASE areas' = [areas EXCEPT ![p] = areas[p] \cup {Node(a, a + 1, s, w, 0)}]
  BY <1>2, <1>3, <1>5, NewPlaced, ZenonT(30)
<1> QED BY <1>1, <1>4, <1>5

\* find_free_share_area finds a page of the share region.
LEMMA ShareStart ==
    ASSUME PlacedInv, NEW p \in Procs, NEW s \in Segs, NEW a \in FindFreeArea(p, s, 1)
    PROVE  a \in Int /\ InShare(a) /\ a \in Pages
BY FreeStartIsInt, Layout DEF PlacedInv, FindFreeArea, FreeStart, InShare, Pages

\* sys_mprotect changes areas of the mmap region only.
LEMMA MprotectPlaced ==
    ASSUME PlacedInv, NEW p \in Procs, NEW r \in Ranges(MmapBeg, MmapEnd), NEW w,
           Mprotect(p, r[1], r[2], w)
    PROVE  PlacedStep
<1> DEFINE a == r[1]
           b == r[2]
<1>1. a \in Int /\ b \in Int /\ a < b /\ a < ShareBeg /\ HeapBeg <= a /\ b <= MmapEnd
  BY Layout, SMTT(30) DEF Ranges
<1> HIDE DEF a, b
<1>2. PICK n \in Get(areas[p], a) :
          \/ areas' = areas
          \/ areas' = [areas EXCEPT ![p] = (areas[p] \ {n}) \cup {Node(a, b, n.kind, w, n.off)}]
          \/ areas' = [areas EXCEPT ![p] = Remove(areas[p], a, b) \cup {Node(a, b, n.kind, w, n.off)}]
  BY ReleaseAreas, ZenonT(30) DEF Mprotect, RemapRange, WithSameKind, a, b
<1>3. n.kind \notin Segs /\ n.kind \in {"anon", "file"}
  BY <1>1, NotSegment, SMTT(30)
<1>4. Placed(Node(a, b, n.kind, w, n.off))
  BY <1>1, <1>3 DEF Placed, Node
<1>5. AllPlaced(areas[p] \ {n})
  BY SMTT(30) DEF PlacedInv, AllPlaced
<1>6. AllPlaced(Remove(areas[p], a, b))
  <2>1. IsMap(areas[p]) /\ AllPlaced(areas[p])
    BY DEF PlacedInv, MapsInv
  <2> QED BY <1>1, <2>1, RemovePlaced, SMTT(30) DEF AllPlaced
<1>7. CASE areas' = areas
  BY <1>7 DEF PlacedStep
<1>8. CASE areas' = [areas EXCEPT ![p] = (areas[p] \ {n}) \cup {Node(a, b, n.kind, w, n.off)}]
  BY <1>1, <1>4, <1>5, <1>8, NewPlaced, Zenon
<1>9. CASE areas' = [areas EXCEPT ![p] = Remove(areas[p], a, b) \cup {Node(a, b, n.kind, w, n.off)}]
  BY <1>1, <1>4, <1>6, <1>9, NewPlaced, ZenonT(30)
<1> QED BY <1>2, <1>7, <1>8, <1>9

\* Every system call on memory leaves areas where they belong.
LEMMA CallPlaced ==
    ASSUME PlacedInv, NEW p \in Procs, Call(p)
    PROVE  PlacedStep
<1>1. ASSUME NEW b \in HeapBeg..HeapEnd, Brk(p, b)  PROVE PlacedStep
  BY <1>1, BrkPlaced
<1>2. ASSUME NEW m \in Maps, Mmap(p, m[1], m[2], m[3])  PROVE PlacedStep
  BY <1>2, MmapPlaced, SMTT(30)
<1>3. ASSUME NEW r \in Ranges(HeapBeg, ShareEnd), Munmap(p, r[1], r[2])  PROVE PlacedStep
  <2>1. r[1] \in Int /\ r[2] \in Int /\ r[1] < r[2]
    BY Layout DEF Ranges
  <2>2. areas' = areas \/ areas' = [areas EXCEPT ![p] = Remove(areas[p], r[1], r[2])]
    BY <1>3, ReleaseAreas DEF Munmap, UnmapRange
  <2>3. IsMap(areas[p]) /\ AllPlaced(areas[p])
    BY DEF PlacedInv, MapsInv
  <2>4. AllPlaced(Remove(areas[p], r[1], r[2]))
    BY <2>1, <2>3, RemovePlaced, SMTT(30) DEF AllPlaced
  <2> QED BY <2>2, <2>4, SMTT(30) DEF PlacedStep
<1>4. ASSUME NEW r \in Ranges(MmapBeg, MmapEnd), NEW w \in BOOLEAN, Mprotect(p, r[1], r[2], w)
      PROVE  PlacedStep
  BY <1>4, MprotectPlaced
<1>5. ASSUME NEW s \in Segs, NEW private \in BOOLEAN, Shmget(p, s, private)  PROVE PlacedStep
  BY <1>5, SMTT(30) DEF Shmget, space, PlacedStep
<1>6. ASSUME NEW s \in Segs, NEW w \in BOOLEAN, Shmat(p, s, w)  PROVE PlacedStep
  BY <1>6, ShareStart, AttachPlaced, SMTT(30) DEF Shmat
<1>7. ASSUME NEW v \in Pages, Shmdt(p, v)  PROVE PlacedStep
  <2>1. PICK n \in Get(areas[p], v) :
            areas' = areas \/ areas' = [areas EXCEPT ![p] = areas[p] \ {n}]
    BY <1>7, ReleaseAreas, Zenon DEF Shmdt, Panic, space
  <2>2. AllPlaced(areas[p] \ {n})
    BY DEF PlacedInv, AllPlaced
  <2> QED BY <2>1, <2>2 DEF PlacedStep
<1>8. ASSUME NEW s \in Segs, Shmrm(p, s)  PROVE PlacedStep
  BY <1>8, ReleaseAreas, SMTT(30) DEF Shmrm, PlacedStep
<1>9. ASSUME NEW s \in Segs, NEW w \in BOOLEAN, NEW a \in Pages, ShmatAt(p, s, a, w)
      PROVE  PlacedStep
  <2>1. a \in Int
    BY Layout DEF Pages
  <2>2. areas' = areas \/ (InShare(a) /\ AttachShm(p, s, a, w))
    BY <1>9, Zenon DEF ShmatAt, Panic, space
  <2> QED BY <2>1, <2>2, AttachPlaced, SMTT(30) DEF PlacedStep
<1>10. ASSUME EmptyRange(p)  PROVE PlacedStep
  BY <1>10, Zenon, ZenonT(30) DEF EmptyRange, Panic, space, PlacedStep
<1> QED BY <1>1, <1>2, <1>3, <1>4, <1>5, <1>6, <1>7, <1>8, <1>9, <1>10 DEF Call

\* Faults, forks, execs and exits leave areas where they belong.
LEMMA StepPlaced ==
    ASSUME PlacedInv, NEW p \in Procs, Step(p)
    PROVE  PlacedStep
<1>1. ASSUME NEW v \in Pages, NEW write \in BOOLEAN, PageFault(p, v, write)
      PROVE  areas' = areas
  BY <1>1, FaultAreas, Zenon, ZenonT(30) DEF PageFault
<1>2. ASSUME NEW v \in Pages, Store(p, v)
      PROVE  areas' = areas
  BY <1>2, SMTT(30) DEF Store, space
<1>3. ASSUME NEW q \in Procs, Fork(p, q)
      PROVE  AllPlaced(areas[p]) /\ areas' = [areas EXCEPT ![q] = areas[p]]
  BY <1>3 DEF Fork, PlacedInv
<1>4. ASSUME Exec(p)
      PROVE  areas' = areas \/ areas' = [areas EXCEPT ![p] = {Heap}]
  BY <1>4, ReleaseAreas, Zenon DEF Exec, Panic, space
<1>5. ASSUME Exit(p)
      PROVE  areas' = areas
  BY <1>5 DEF Exit, Kill, space
<1>6. ASSUME NEW v \in Pages, KernelRead(p, v) \/ KernelWrite(p, v)
      PROVE  areas' = areas
  BY <1>6, FaultAreas, Zenon, ZenonT(30) DEF KernelRead, KernelWrite, EnsureUserArea
<1> QED BY <1>1, <1>2, <1>3, <1>4, <1>5, <1>6, HeapPlaced, SMTT(30) DEF Step, PlacedStep

\* Every step keeps the maps, and the areas where they belong.
LEMMA PlacedNext ==
    ASSUME SetFacts, PlacedInv, Next
    PROVE  PlacedInv'
<1>1. MapsInv'
  BY StepAreas, CallAreas, StepKeepsMaps DEF Next, PlacedInv
<1>2. PlacedStep
  BY StepPlaced, CallPlaced DEF Next
<1>3. DOMAIN areas = Procs /\ \A p \in Procs : AllPlaced(areas[p])
  BY DEF PlacedInv, MapsInv
<1>4. \A p \in Procs : AllPlaced(areas'[p])
  <2>1. CASE areas' = areas
    BY <1>3, <2>1
  <2>2. ASSUME NEW p \in Procs, NEW K, AllPlaced(K), areas' = [areas EXCEPT ![p] = K]
        PROVE  \A q \in Procs : AllPlaced(areas'[q])
    BY <1>3, <2>2
  <2> QED BY <1>2, <2>1, <2>2 DEF PlacedStep
<1>5. areas' = [p \in Procs |-> areas'[p]]
  BY <1>2, <1>3 DEF PlacedStep, PlacedInv
<1> QED BY <1>1, <1>4, <1>5, SMTT(30) DEF PlacedInv, AllPlaced, Placed, InShare

\* At the start there is the heap of the first process.
LEMMA PlacedInit ==
    ASSUME Init
    PROVE  PlacedInv
<1>1. areas = [p \in Procs |-> IF p = First THEN {Heap} ELSE {}]
  BY DEF Init
<1>2. IsMap({}) /\ AllPlaced({})
  BY SMTT(30) DEF IsMap, WellFormed, AllPlaced
<1> QED BY <1>1, <1>2, HeapIsMap, HeapPlaced, SMTT(30) DEF PlacedInv, MapsInv

\* The pages of an area.
LEMMA AreaInPages ==
    ASSUME PlacedInv, NEW p \in Procs, NEW v \in Pages, NEW n \in Get(areas[p], v)
    PROVE  /\ n \in areas[p] /\ n.start \in Int /\ n.end \in Int /\ n.start < n.end
           /\ n.start <= v /\ v < n.end
           /\ n.start..(n.end - 1) \in SUBSET Pages
<1>1. v \in Int
  BY Layout DEF Pages
<1>2. n \in areas[p] /\ n.start \in Int /\ n.end \in Int /\ n.start < n.end
  BY <1>1, Bounds, SMTT(30) DEF PlacedInv
<1>3. n.start <= v /\ v < n.end
  BY <1>1, <1>2 DEF Get, Before
<1>4. Placed(n)
  BY <1>2, SMTT(30) DEF PlacedInv, AllPlaced
<1>5. n.end <= ShareEnd /\ HeapBeg <= n.start
  BY <1>2, <1>4, Layout, SMTT(30) DEF Placed, InShare
<1> QED BY <1>2, <1>3, <1>5, Layout DEF Pages

\* The maps M and K of a process before and after pages S were released: the
\* areas of segments that go are those whose page is released, and a released
\* page had an area and has none.
Releasing(M, K, S) ==
    /\ \A n \in K : n.kind \in Segs => n \in M /\ n.start \notin S
    /\ \A n \in M : n.kind \in Segs => n \in K \/ n.start \in S
    /\ \A v \in S : (\E n \in M : Covers(n, v)) /\ ~\E n \in K : Covers(n, v)

\* remove() keeps an area of one page outside its range.
LEMMA RemoveKeepsUnit ==
    ASSUME NEW M, IsMap(M), NEW a \in Int, NEW b \in Int, a < b, NEW n \in M,
           n.end = n.start + 1, ~(a <= n.start /\ n.start < b)
    PROVE  n \in Remove(M, a, b)
<1>1. n.start \in Int /\ n.end \in Int /\ Covers(n, n.start)
  BY DEF IsMap, IsNode, Covers
<1>2. PICK m \in Remove(M, a, b) : Covers(m, n.start)
  BY <1>1, RemoveExact
<1>3. PICK o \in M : ComesFrom(m, o, a, b)
  BY RemoveInside, SMTT(30)
<1>4. m.start \in Int /\ m.end \in Int /\ o.start \in Int /\ o.end \in Int
  BY RemoveInside, SMTT(30) DEF IsMap, IsNode
<1>5. Covers(o, n.start)
  BY <1>1, <1>2, <1>3, <1>4, SMTT(30) DEF Covers, ComesFrom
<1>6. o = n
  BY <1>1, <1>4, <1>5, SMTT(30) DEF IsMap, WellFormed, Covers
<1>7. Whole(m, o, a, b)
  BY <1>1, <1>3, <1>4, <1>6, SMTT(30) DEF ComesFrom, OnLeft, OnRight
<1> QED BY <1>6, <1>7, SMTT(30) DEF Whole

\* sys_munmap releases the pages of the range that had an area.
LEMMA UnmapReleases ==
    ASSUME NEW M, IsMap(M), AllPlaced(M), NEW a \in Int, NEW b \in Int, a < b
    PROVE  Releasing(M, Remove(M, a, b), Released(M, a, b))
<1>1. ASSUME NEW n \in Remove(M, a, b), n.kind \in Segs
      PROVE  n \in M /\ n.start \notin Released(M, a, b)
  <2>1. n \in M /\ (n.end <= a \/ b <= n.start)
    BY <1>1, RemovePlaced
  <2>2. n.start \in Int /\ n.end \in Int /\ n.start < n.end
    BY <2>1 DEF IsMap, IsNode, WellFormed
  <2> QED BY <2>1, <2>2, SMTT(30) DEF Released
<1>2. ASSUME NEW n \in M, n.kind \in Segs
      PROVE  n \in Remove(M, a, b) \/ n.start \in Released(M, a, b)
  <2>1. n.start \in Int /\ n.end = n.start + 1 /\ Covers(n, n.start)
    BY <1>2 DEF IsMap, IsNode, AllPlaced, Placed, Covers
  <2>2. CASE a <= n.start /\ n.start < b
    BY <2>1, <2>2, SMTT(30) DEF Released
  <2>3. CASE ~(a <= n.start /\ n.start < b)
    BY <2>1, <2>3, RemoveKeepsUnit, SMTT(30)
  <2> QED BY <2>2, <2>3
<1>3. ASSUME NEW v \in Released(M, a, b)
      PROVE  (\E n \in M : Covers(n, v)) /\ ~\E n \in Remove(M, a, b) : Covers(n, v)
  <2>1. v \in Int /\ a <= v /\ v < b /\ \E n \in M : Covers(n, v)
    BY DEF Released
  <2> QED BY <2>1, RemoveExact
<1> QED BY <1>1, <1>2, <1>3, SMTT(30) DEF Releasing

\* sys_shmdt releases the pages of the area it removes.
LEMMA AreaReleases ==
    ASSUME NEW M, IsMap(M), NEW n \in M
    PROVE  Releasing(M, M \ {n}, n.start..(n.end - 1))
<1>1. n.start \in Int /\ n.end \in Int /\ n.start < n.end
  BY DEF IsMap, IsNode, WellFormed
<1>2. \A m \in M \ {n} : /\ m.start \in Int /\ m.end \in Int /\ m.start < m.end
                         /\ n.end <= m.start \/ m.end <= n.start
  BY DEF IsMap, IsNode, WellFormed
<1>3. \A m \in M \ {n} : m.start \notin n.start..(n.end - 1)
  BY <1>1, <1>2
<1>4. n.start \in n.start..(n.end - 1)
  BY <1>1
<1>5. ASSUME NEW v \in n.start..(n.end - 1)
      PROVE  Covers(n, v) /\ ~\E m \in M \ {n} : Covers(m, v)
  <2>1. v \in Int /\ n.start <= v /\ v < n.end
    BY <1>1, SMTT(30)
  <2> QED BY <1>1, <1>2, <2>1 DEF Covers
<1> QED BY <1>3, <1>4, <1>5 DEF Releasing

\* sys_mprotect releases no page and leaves the areas of segments alone.
LEMMA ProtectReleases ==
    ASSUME PlacedInv, NEW p \in Procs, NEW a \in Int, NEW b \in Int, a < b, b <= MmapEnd,
           NEW n \in Get(areas[p], a), NEW w
    PROVE  /\ Releasing(areas[p], (areas[p] \ {n}) \cup {WithSameKind(n, a, b, w)}, {})
           /\ Releasing(areas[p], RemapRange(areas[p], n, a, b, w), {})
<1> DEFINE M == areas[p]
           r == WithSameKind(n, a, b, w)
<1>1. IsMap(M) /\ AllPlaced(M) /\ {MmapEnd, ShareBeg} \subseteq Int /\ MmapEnd <= ShareBeg
  BY Layout DEF PlacedInv, MapsInv
<1>2. n.kind \notin Segs
  <2>1. a < ShareBeg
    BY <1>1
  <2> QED BY <2>1, NotSegment
<1>3. r.kind \notin Segs
  BY <1>2, SMTT(30) DEF WithSameKind, Node
<1>4. ASSUME NEW m \in M, m.kind \in Segs  PROVE m \in Remove(M, a, b)
  <2>1. m.start \in Int /\ m.end = m.start + 1 /\ ShareBeg <= m.start
    BY <1>1, <1>4 DEF IsMap, IsNode, AllPlaced, Placed, InShare
  <2>2. ~(a <= m.start /\ m.start < b)
    BY <1>1, <2>1, SMTT(30)
  <2> QED BY <1>1, <2>1, <2>2, RemoveKeepsUnit, ZenonT(30)
<1>5. ASSUME NEW m \in Remove(M, a, b), m.kind \in Segs  PROVE m \in M
  BY <1>1, <1>5, RemovePlaced
<1> HIDE DEF r, M
<1>6. Releasing(M, (M \ {n}) \cup {r}, {})
  BY <1>2, <1>3, Zenon DEF Releasing
<1>7. Releasing(M, Remove(M, a, b) \cup {r}, {})
  BY <1>3, <1>4, <1>5, Zenon DEF Releasing
<1> QED BY <1>6, <1>7 DEF RemapRange, r, M
===============================================================================
