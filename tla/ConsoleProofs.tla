----------------------------- MODULE ConsoleProofs -----------------------------
(***************************************************************************)
(* Proofs about Console for any set of tasks, any capacity of the ring and *)
(* any number of bytes, reads and stale wakes.                             *)
(***************************************************************************)
EXTENDS Console, SequenceTheorems, FiniteSetTheorems, TLAPS

-------------------------------------------------------------------------------
(* Sequences of bytes. *)

\* A byte put at the end of a sequence of bytes.
LEMMA AppendByte ==
    ASSUME NEW q \in Seq(Nat), NEW b \in Nat
    PROVE  /\ Append(q, b) \in Seq(Nat) /\ Append(q, b) # <<>> /\ Len(Append(q, b)) = Len(q) + 1
           /\ RangeOf(Append(q, b)) = RangeOf(q) \cup {b}
           /\ Increasing(q) /\ (\A c \in RangeOf(q) : c < b) => Increasing(Append(q, b))
           /\ Head(Append(q, b)) = IF q = <<>> THEN b ELSE Head(q)
<1>1. /\ Append(q, b) \in Seq(Nat)
      /\ Len(Append(q, b)) = Len(q) + 1
      /\ \A i \in 1..Len(q) : Append(q, b)[i] = q[i]
      /\ Append(q, b)[Len(q) + 1] = b
      /\ Len(q) \in Nat
  BY AppendProperties, LenProperties
<1>2. 1..(Len(q) + 1) = (1..Len(q)) \cup {Len(q) + 1}
  BY <1>1
<1>3. RangeOf(Append(q, b)) = RangeOf(q) \cup {b}
  BY <1>1, <1>2 DEF RangeOf
<1>4. Append(q, b) # <<>>
  BY <1>1
<1>5. ASSUME Increasing(q), \A c \in RangeOf(q) : c < b
      PROVE  Increasing(Append(q, b))
  <2> SUFFICES ASSUME NEW i \in 1..(Len(q) + 1), NEW j \in 1..(Len(q) + 1), i < j
               PROVE  Append(q, b)[i] < Append(q, b)[j]
    BY <1>1 DEF Increasing
  <2>1. i \in 1..Len(q) /\ Append(q, b)[i] = q[i] /\ q[i] \in RangeOf(q)
    BY <1>1 DEF RangeOf
  <2>2. CASE j \in 1..Len(q)
    BY <1>1, <1>5, <2>1, <2>2 DEF Increasing
  <2>3. CASE j = Len(q) + 1
    BY <1>1, <1>5, <2>1, <2>3
  <2> QED BY <1>2, <2>2, <2>3
<1>6. Head(Append(q, b)) = IF q = <<>> THEN b ELSE Head(q)
  BY HeadTailAppend
<1> QED BY <1>1, <1>3, <1>4, <1>5, <1>6

\* The first byte taken from a sequence whose bytes are in the order of typing.
LEMMA FirstByte ==
    ASSUME NEW q \in Seq(Nat), q # <<>>, Increasing(q)
    PROVE  /\ Head(q) \in Nat /\ Tail(q) \in Seq(Nat) /\ Len(Tail(q)) = Len(q) - 1
           /\ RangeOf(q) = RangeOf(Tail(q)) \cup {Head(q)}
           /\ Increasing(Tail(q))
           /\ \A b \in RangeOf(Tail(q)) : Head(q) < b
           /\ Tail(q) # <<>> => Head(Tail(q)) \in RangeOf(Tail(q))
<1>1. /\ Head(q) \in Nat /\ Tail(q) \in Seq(Nat)
      /\ Len(Tail(q)) = Len(q) - 1 /\ Head(q) = q[1]
      /\ \A i \in 1..Len(Tail(q)) : Tail(q)[i] = q[i + 1]
      /\ Len(q) \in Nat /\ Len(q) > 0
  BY HeadTailProperties, EmptySeq, LenProperties
<1>2. \A i \in 1..Len(q) : i = 1 \/ (i - 1 \in 1..Len(Tail(q)) /\ i = (i - 1) + 1)
  BY <1>1
<1>3. \A i \in 1..Len(Tail(q)) : i + 1 \in 1..Len(q)
  BY <1>1
<1>4. 1 \in 1..Len(q)
  BY <1>1
<1>5. RangeOf(q) = RangeOf(Tail(q)) \cup {Head(q)}
  BY <1>1, <1>2, <1>3, <1>4 DEF RangeOf
<1>6. Increasing(Tail(q))
  BY <1>1, <1>3 DEF Increasing
<1>7. \A b \in RangeOf(Tail(q)) : Head(q) < b
  BY <1>1, <1>3, <1>4 DEF Increasing, RangeOf
<1>8. Tail(q) # <<>> => Head(Tail(q)) \in RangeOf(Tail(q))
  <2> SUFFICES ASSUME Tail(q) # <<>> PROVE Head(Tail(q)) \in RangeOf(Tail(q))
    OBVIOUS
  <2>1. PICK s \in Seq(Nat) : s = Tail(q) /\ s # <<>>
    BY <1>1, ZenonT(30)
  <2>2. Len(s) \in Nat \ {0} /\ Head(s) = s[1]
    BY <2>1, EmptySeq
  <2>3. Head(s) \in RangeOf(s)
    BY <2>2 DEF RangeOf
  <2> QED BY <2>1, <2>3
<1> QED BY <1>1, <1>5, <1>6, <1>7, <1>8

\* The ring is followed by the bytes in the UART.
LEMMA RingThenLine ==
    ASSUME NEW r \in Seq(Nat), NEW l \in Seq(Nat)
    PROVE  /\ r \o l \in Seq(Nat) /\ Len(r \o l) = Len(r) + Len(l)
           /\ r # <<>> => r \o l # <<>> /\ Head(r \o l) = Head(r) /\ Tail(r \o l) = Tail(r) \o l
           /\ l # <<>> => Append(r, Head(l)) \o Tail(l) = r \o l
           /\ \A b \in Nat : r \o Append(l, b) = Append(r \o l, b)
<1>1. /\ r \o l \in Seq(Nat) /\ Len(r \o l) = Len(r) + Len(l)
      /\ \A i \in 1..(Len(r) + Len(l)) : (r \o l)[i] = IF i <= Len(r) THEN r[i] ELSE l[i - Len(r)]
      /\ Len(r) \in Nat /\ Len(l) \in Nat
  BY ConcatProperties, LenProperties
<1>2. ASSUME r # <<>>
      PROVE  r \o l # <<>> /\ Head(r \o l) = Head(r) /\ Tail(r \o l) = Tail(r) \o l
  <2>1. Len(r) > 0 /\ Tail(r) \in Seq(Nat) /\ Len(Tail(r)) = Len(r) - 1 /\ Head(r) = r[1]
        /\ \A i \in 1..Len(Tail(r)) : Tail(r)[i] = r[i + 1]
    BY <1>1, <1>2, HeadTailProperties, EmptySeq
  <2>2. r \o l # <<>>
    BY <1>1, <2>1
  <2>3. Head(r \o l) = (r \o l)[1]
    BY <1>1, <2>2
  <2>4. Head(r \o l) = Head(r)
    BY <1>1, <2>1, <2>3
  <2>5. /\ Tail(r \o l) \in Seq(Nat) /\ Len(Tail(r \o l)) = Len(r) + Len(l) - 1
        /\ \A i \in 1..(Len(r) + Len(l) - 1) : Tail(r \o l)[i] = (r \o l)[i + 1]
    BY <1>1, <2>2, HeadTailProperties
  <2>6. /\ Tail(r) \o l \in Seq(Nat) /\ Len(Tail(r) \o l) = Len(r) - 1 + Len(l)
        /\ \A i \in 1..(Len(r) - 1 + Len(l)) :
             (Tail(r) \o l)[i] = IF i <= Len(r) - 1 THEN Tail(r)[i] ELSE l[i - (Len(r) - 1)]
    BY <2>1, ConcatProperties
  <2>7. \A i \in 1..Len(Tail(r \o l)) : Tail(r \o l)[i] = (Tail(r) \o l)[i]
    <3> SUFFICES ASSUME NEW i \in 1..(Len(r) + Len(l) - 1)
                 PROVE  Tail(r \o l)[i] = (Tail(r) \o l)[i]
      BY <2>5, ZenonT(30)
    <3>1. i \in 1..(Len(r) - 1 + Len(l)) /\ i + 1 \in 1..(Len(r) + Len(l))
      BY <1>1
    <3>2. CASE i <= Len(r) - 1
      <4>1. i + 1 <= Len(r) /\ i \in 1..Len(Tail(r))
        BY <1>1, <2>1, <3>2
      <4> QED BY <1>1, <2>1, <2>5, <2>6, <3>1, <3>2, <4>1
    <3>3. CASE ~(i <= Len(r) - 1)
      <4>1. ~(i + 1 <= Len(r)) /\ (i + 1) - Len(r) = i - (Len(r) - 1)
        BY <1>1, <3>3
      <4> QED BY <1>1, <2>5, <2>6, <3>1, <3>3, <4>1
    <3> QED BY <3>2, <3>3
  <2>8. Len(Tail(r \o l)) = Len(Tail(r) \o l)
    BY <1>1, <2>5, <2>6
  <2>9. Tail(r \o l) = Tail(r) \o l
    BY <2>5, <2>6, <2>7, <2>8, SeqEqual, ZenonT(30)
  <2> QED BY <2>2, <2>4, <2>9, ZenonT(30)
<1>3. ASSUME NEW b \in Nat
      PROVE  /\ Append(r, b) = r \o <<b>>
             /\ Append(l, b) = l \o <<b>>
             /\ Append(r \o l, b) = (r \o l) \o <<b>>
             /\ <<b>> \in Seq(Nat)
  <2>1. \A q \in Seq(Nat) : Append(q, b) = q \o <<b>>
    BY AppendIsConcat
  <2> QED BY <1>1, <2>1
<1>4. ASSUME l # <<>>
      PROVE  Append(r, Head(l)) \o Tail(l) = r \o l
  <2>1. Head(l) \in Nat /\ Tail(l) \in Seq(Nat) /\ l = <<Head(l)>> \o Tail(l)
    <3>1. Len(l) > 0 /\ 1 \in 1..Len(l) /\ Len(l) \in 1..Len(l)
      <4>1. Len(l) \in Nat \ {0}
        BY <1>4, EmptySeq
      <4> QED BY <4>1
    <3>2. SubSeq(l, 1, Len(l)) = <<l[1]>> \o SubSeq(l, 1 + 1, Len(l))
      BY <3>1, SubSeqRecursiveFirst
    <3>3. SubSeq(l, 1, Len(l)) = l
      BY SubSeqFull
    <3>4. SubSeq(l, 2, Len(l)) = Tail(l)
      BY <1>4, TailIsSubSeq
    <3>5. Head(l) \in Nat /\ Tail(l) \in Seq(Nat) /\ Head(l) = l[1]
      BY <1>4, HeadTailProperties
    <3> QED BY <3>2, <3>3, <3>4, <3>5
  <2>2. (r \o <<Head(l)>>) \o Tail(l) = r \o (<<Head(l)>> \o Tail(l))
    <3>1. <<Head(l)>> \in Seq(Nat)
      BY <1>3, <2>1
    <3> QED BY <2>1, <3>1, ConcatAssociative, SMTT(30)
  <2> QED BY <1>3, <2>1, <2>2, ZenonT(30)
<1>5. ASSUME NEW b \in Nat
      PROVE  r \o Append(l, b) = Append(r \o l, b)
  BY <1>3, <1>5, ConcatAssociative
<1> QED BY <1>1, <1>2, <1>4, <1>5, ZenonT(30)

-------------------------------------------------------------------------------
(* Each byte is in one place. *)

Read == UNION {RangeOf(got[t]) : t \in Tasks}
Kept == ring \o line

\* Of the bytes 1..n, some were read, some are gone and the last are kept.
Accounts(read, gone, kept, n) ==
    /\ read \cup gone \cup RangeOf(kept) = 1..n
    /\ Cardinality(read) + Cardinality(gone) + Len(kept) = n
    /\ Increasing(kept)
    /\ \A b \in read \cup gone : kept # <<>> => b < Head(kept)

\* InputAccounted in terms of the bytes kept by the kernel and the UART.
LEMMA AccountedIs ==
    InputAccounted <=> Accounts(Read, lost, Kept, typed) /\ \A t \in Tasks : Increasing(got[t])
BY DEF InputAccounted, Accounts, Read, Kept

\* The first of the kept bytes is read or lost.
LEMMA TakeFirst ==
    ASSUME NEW n \in Nat, NEW kept \in Seq(Nat), kept # <<>>, NEW read, NEW gone,
           Accounts(read, gone, kept, n)
    PROVE  /\ Accounts(read \cup {Head(kept)}, gone, Tail(kept), n)
           /\ Accounts(read, gone \cup {Head(kept)}, Tail(kept), n)
<1> DEFINE b == Head(kept)
           rest == Tail(kept)
<1>1. /\ b \in Nat /\ rest \in Seq(Nat) /\ Len(rest) = Len(kept) - 1
      /\ RangeOf(kept) = RangeOf(rest) \cup {b}
      /\ Increasing(rest)
      /\ \A c \in RangeOf(rest) : b < c
      /\ rest # <<>> => Head(rest) \in RangeOf(rest)
  BY FirstByte DEF Accounts
<1> HIDE DEF b, rest
<1>2. /\ read \cup gone \cup RangeOf(kept) = 1..n
      /\ Cardinality(read) + Cardinality(gone) + Len(kept) = n
      /\ \A c \in read \cup gone : c < b
  BY DEF Accounts, b
<1>3. /\ IsFiniteSet(read) /\ IsFiniteSet(gone)
      /\ Cardinality(read) \in Nat /\ Cardinality(gone) \in Nat
      /\ b \notin read /\ b \notin gone
  <2>1. IsFiniteSet(1..n) /\ read \in SUBSET (1..n) /\ gone \in SUBSET (1..n)
    BY <1>2, FS_Interval
  <2>2. \A S \in SUBSET (1..n) : IsFiniteSet(S) /\ Cardinality(S) \in Nat
    BY <2>1, FS_Subset, FS_CardinalityType, ZenonT(30)
  <2>3. b \notin read /\ b \notin gone
    BY <1>1, <1>2
  <2> QED BY <2>1, <2>2, <2>3
<1>4. /\ Cardinality(read \cup {b}) = Cardinality(read) + 1
      /\ Cardinality(gone \cup {b}) = Cardinality(gone) + 1
  BY <1>3, FS_AddElement, ZenonT(30)
<1>5. Len(kept) \in Nat
  BY LenProperties
<1>6. \A c \in read \cup gone \cup {b} : rest # <<>> => c < Head(rest)
  <2> SUFFICES ASSUME NEW c \in read \cup gone \cup {b}, rest # <<>>
               PROVE  c < Head(rest)
    OBVIOUS
  <2>1. c = b \/ c < b
    BY <1>2
  <2>2. b < Head(rest) /\ Head(rest) \in 1..n
    BY <1>1, <1>2
  <2>3. c \in 1..n
    BY <1>1, <1>2
  <2> QED BY <1>1, <2>1, <2>2, <2>3
<1>7. Accounts(read \cup {b}, gone, rest, n)
  <2>1. Cardinality(read \cup {b}) + Cardinality(gone) + Len(rest) = n
    BY <1>1, <1>2, <1>3, <1>4, <1>5
  <2> QED BY <1>1, <1>2, <1>6, <2>1 DEF Accounts
<1>8. Accounts(read, gone \cup {b}, rest, n)
  <2>1. Cardinality(read) + Cardinality(gone \cup {b}) + Len(rest) = n
    BY <1>1, <1>2, <1>3, <1>4, <1>5
  <2> QED BY <1>1, <1>2, <1>6, <2>1 DEF Accounts
<1> QED BY <1>7, <1>8 DEF b, rest

\* One more byte is typed.
LEMMA AddLast ==
    ASSUME NEW n \in Nat, NEW kept \in Seq(Nat), NEW read, NEW gone, Accounts(read, gone, kept, n)
    PROVE  Accounts(read, gone, Append(kept, n + 1), n + 1)
<1> DEFINE more == Append(kept, n + 1)
<1>1. /\ read \cup gone \cup RangeOf(kept) = 1..n
      /\ Cardinality(read) + Cardinality(gone) + Len(kept) = n
      /\ Increasing(kept)
      /\ \A b \in read \cup gone : kept # <<>> => b < Head(kept)
  BY DEF Accounts
<1>2. \A c \in RangeOf(kept) : c < n + 1
  BY <1>1
<1>3. /\ more \in Seq(Nat) /\ more # <<>> /\ Len(more) = Len(kept) + 1
      /\ RangeOf(more) = RangeOf(kept) \cup {n + 1}
      /\ Increasing(more)
      /\ Head(more) = IF kept = <<>> THEN n + 1 ELSE Head(kept)
  BY <1>1, <1>2, AppendByte
<1> HIDE DEF more
<1>4. 1..(n + 1) = (1..n) \cup {n + 1}
  OBVIOUS
<1>5. Cardinality(read) + Cardinality(gone) + Len(more) = n + 1
  <2>1. IsFiniteSet(1..n) /\ read \in SUBSET (1..n) /\ gone \in SUBSET (1..n)
    BY <1>1, FS_Interval
  <2>2. Cardinality(read) \in Nat /\ Cardinality(gone) \in Nat /\ Len(kept) \in Nat
    BY <2>1, FS_Subset, FS_CardinalityType, LenProperties, ZenonT(30)
  <2> QED BY <1>1, <1>3, <2>2
<1>6. \A b \in read \cup gone : b < Head(more)
  BY <1>1, <1>3
<1>7. read \cup gone \cup RangeOf(more) = 1..(n + 1)
  BY <1>1, <1>3, <1>4
<1> QED BY <1>3, <1>5, <1>6, <1>7 DEF Accounts, more

ByteInv ==
    /\ typed \in Nat
    /\ ring \in Seq(Nat) /\ line \in Seq(Nat)
    /\ got \in [Tasks -> Seq(Nat)]
    /\ InputAccounted

\* The oldest byte in the ring is the oldest byte kept.
LEMMA KeptFacts ==
    ASSUME ByteInv
    PROVE  /\ Accounts(Read, lost, Kept, typed) /\ Kept \in Seq(Nat)
           /\ ring # <<>> => Kept # <<>> /\ Head(Kept) = Head(ring) /\ Head(ring) \in Nat
                            /\ Tail(ring) \in Seq(Nat) /\ Tail(Kept) = Tail(ring) \o line
<1>1. ring # <<>> => Head(ring) \in Nat /\ Tail(ring) \in Seq(Nat)
  BY HeadTailProperties DEF ByteInv
<1> QED BY <1>1, AccountedIs, RingThenLine, ZenonT(30) DEF ByteInv, Kept

\* What a step leaves to be shown.
LEMMA ByteStep ==
    ASSUME typed' \in Nat, ring' \in Seq(Nat), line' \in Seq(Nat), got' \in [Tasks -> Seq(Nat)],
           Accounts(Read', lost', Kept', typed'), \A t \in Tasks : Increasing(got'[t])
    PROVE  ByteInv'
BY DEF ByteInv, InputAccounted, Accounts, Read, Kept

\* A byte that arrives is the last one the UART keeps.
LEMMA TypeBytes ==
    ASSUME ByteInv, Type
    PROVE  ByteInv'
<1>1. typed' = typed + 1 /\ line' = Append(line, typed + 1) /\ UNCHANGED <<ring, got, lost>>
  BY DEF Type
<1>2. line' \in Seq(Nat) /\ Kept' = Append(Kept, typed + 1)
  BY <1>1, AppendByte, RingThenLine DEF ByteInv, Kept
<1>3. Accounts(Read, lost, Kept', typed + 1)
  BY <1>2, KeptFacts, AddLast DEF ByteInv
<1>4. Read' = Read
  BY <1>1 DEF Read
<1>5. \A t \in Tasks : Increasing(got[t])
  BY ZenonT(30) DEF ByteInv, InputAccounted
<1> QED BY <1>1, <1>2, <1>3, <1>4, <1>5, ByteStep DEF ByteInv

\* A byte moves from the UART into the ring, whose first byte goes if it is full.
LEMMA InterruptBytes ==
    ASSUME ByteInv, InterruptHandler
    PROVE  ByteInv'
<1>1. /\ line # <<>> /\ line' = Tail(line) /\ ring' = Enqueued(Head(line))
      /\ lost' = IF Len(ring) = RingSize THEN lost \cup {Head(ring)} ELSE lost
      /\ UNCHANGED <<typed, got>>
  BY DEF InterruptHandler, Pending, SerialInterrupt, Received
<1>2. line' \in Seq(Nat) /\ Head(line) \in Nat
  BY <1>1, HeadTailProperties DEF ByteInv
<1>3. Read' = Read /\ \A t \in Tasks : Increasing(got'[t])
  BY <1>1 DEF Read, ByteInv, InputAccounted
<1>4. CASE Len(ring) = RingSize
  <2>1. ring # <<>>
    BY <1>4, ConsoleBoundsAreNat
  <2>2. Tail(ring) \in Seq(Nat) /\ ring' = Append(Tail(ring), Head(line))
    BY <1>1, <1>4, <2>1, KeptFacts DEF Enqueued
  <2>3. ring' \in Seq(Nat)
    BY <1>2, <2>2, AppendByte
  <2>4. Append(Tail(ring), Head(line)) \o Tail(line) = Tail(ring) \o line
    BY <1>1, <2>2, RingThenLine, ZenonT(30) DEF ByteInv
  <2>5. Kept' = Tail(Kept) /\ lost' = lost \cup {Head(Kept)}
    BY <1>1, <1>4, <2>1, <2>2, <2>4, KeptFacts, ZenonT(30) DEF Kept
  <2>6. Accounts(Read, lost \cup {Head(Kept)}, Tail(Kept), typed)
    BY <2>1, KeptFacts, TakeFirst, ZenonT(30) DEF ByteInv
  <2>7. Accounts(Read', lost', Kept', typed')
    BY <1>1, <1>3, <2>5, <2>6, ZenonT(30)
  <2> QED BY <1>1, <1>2, <1>3, <2>3, <2>7, ByteStep DEF ByteInv
<1>5. CASE Len(ring) # RingSize
  <2>1. ring' = Append(ring, Head(line)) /\ lost' = lost
    BY <1>1, <1>5 DEF Enqueued
  <2>2. ring' \in Seq(Nat)
    BY <1>2, <2>1, AppendByte DEF ByteInv
  <2>3. Kept' = Kept
    <3>1. Append(ring, Head(line)) \o Tail(line) = ring \o line
      BY <1>1, RingThenLine, ZenonT(30) DEF ByteInv
    <3> QED BY <1>1, <2>1, <3>1, ZenonT(30) DEF Kept
  <2>4. Accounts(Read', lost', Kept', typed')
    BY <1>1, <1>3, <2>1, <2>3, KeptFacts, ZenonT(30)
  <2> QED BY <1>1, <1>2, <1>3, <2>2, <2>4, ByteStep DEF ByteInv
<1> QED BY <1>4, <1>5

\* A read takes the oldest byte of the ring (SerialReadFuture::poll).
LEMMA ReadByteBytes ==
    ASSUME ByteInv, NEW t \in Tasks, ReadByte(t)
    PROVE  ByteInv'
<1>1. /\ ring # <<>> /\ ring' = Tail(ring) /\ got' = [got EXCEPT ![t] = Append(got[t], Head(ring))]
      /\ UNCHANGED <<typed, line, lost>>
  BY DEF ReadByte
<1>2. PICK b \in Nat : b = Head(ring)
  BY <1>1, KeptFacts
<1>3. /\ Append(got[t], b) \in Seq(Nat)
      /\ RangeOf(Append(got[t], b)) = RangeOf(got[t]) \cup {b}
      /\ Increasing(got[t]) /\ (\A c \in RangeOf(got[t]) : c < b) => Increasing(Append(got[t], b))
  BY AppendByte DEF ByteInv
<1>4. got'[t] = Append(got[t], b) /\ \A u \in Tasks \ {t} : got'[u] = got[u]
  BY <1>1, <1>2 DEF ByteInv
<1>5. Read' = Read \cup {b}
  BY <1>3, <1>4, ZenonT(30) DEF Read
<1>6. \A c \in RangeOf(got[t]) : c < b
  BY <1>1, <1>2, KeptFacts DEF Accounts, Read
<1>7. \A u \in Tasks : Increasing(got'[u])
  BY <1>3, <1>4, <1>6, ZenonT(30) DEF ByteInv, InputAccounted
<1>8. ring' \in Seq(Nat) /\ Kept' = Tail(Kept) /\ b = Head(Kept)
  BY <1>1, <1>2, KeptFacts, ZenonT(30) DEF Kept
<1>9. Accounts(Read \cup {Head(Kept)}, lost, Tail(Kept), typed)
  BY <1>1, KeptFacts, TakeFirst, ZenonT(30) DEF ByteInv
<1>10. Accounts(Read', lost', Kept', typed')
  BY <1>1, <1>5, <1>8, <1>9
<1>11. got' \in [Tasks -> Seq(Nat)]
  BY <1>1, <1>2, <1>3 DEF ByteInv
<1> QED BY <1>1, <1>7, <1>8, <1>10, <1>11, ByteStep DEF ByteInv

\* Every step of the console keeps the account of the bytes.
LEMMA ByteInvStep == ByteInv /\ [Next]_vars => ByteInv'
<1> SUFFICES ASSUME ByteInv, [Next]_vars PROVE ByteInv'
  OBVIOUS
<1>1. ASSUME UNCHANGED <<device, got>>
      PROVE  ByteInv'
  BY <1>1 DEF ByteInv, InputAccounted, device
<1>2. ASSUME NEW t \in Tasks, Start(t) \/ StaleWake(t) \/ FindEmpty(t) \/ PushWaker(t)
                              \/ ReadPending(t) \/ Preempt(t) \/ Finish(t)
      PROVE  ByteInv'
  BY <1>1, <1>2 DEF Start, StaleWake, FindEmpty, PushWaker, ReadPending, Preempt, Finish
<1>3. CASE Poll \/ UNCHANGED vars
  BY <1>1, <1>3 DEF Poll, vars
<1> QED BY <1>2, <1>3, TypeBytes, InterruptBytes, ReadByteBytes DEF Next, TaskStep

\* Before the first byte there is nothing to account for.
LEMMA ByteInvInit == Init => ByteInv
<1> SUFFICES ASSUME Init PROVE ByteInv
  OBVIOUS
<1>1. typed = 0 /\ ring = <<>> /\ line = <<>> /\ lost = {} /\ got = [t \in Tasks |-> <<>>]
  BY DEF Init
<1>2. <<>> \in Seq(Nat) /\ RangeOf(<<>>) = {} /\ Increasing(<<>>) /\ <<>> \o <<>> = <<>>
  BY DEF RangeOf, Increasing
<1>3. Read = {} /\ Kept = <<>> /\ \A t \in Tasks : Increasing(got[t])
  BY <1>1, <1>2 DEF Read, Kept
<1>4. Cardinality({}) = 0 /\ 1..0 = {} /\ Len(<<>>) = 0
  BY FS_EmptySet
<1>5. Accounts({}, {}, <<>>, 0)
  BY <1>2, <1>4 DEF Accounts
<1>6. InputAccounted
  BY <1>1, <1>3, <1>5, AccountedIs
<1> QED BY <1>1, <1>2, <1>6 DEF ByteInv

\* Each byte that was typed is in the UART, in the ring, in the input of one
\* reader or among those that the full ring has overwritten, in the order of
\* the typing (serial/mod.rs 99-105 and 147-149): InputAccounted is an invariant.
THEOREM InputAccountedHolds == Spec => []InputAccounted
<1>1. ByteInv => InputAccounted
  BY DEF ByteInv
<1> QED BY <1>1, ByteInvInit, ByteInvStep, PTL DEF Spec

-------------------------------------------------------------------------------
(* The executor and the tasks. *)

Distinct(q) == \A i, j \in 1..Len(q) : q[i] = q[j] => i = j

\* A task put at the end of a queue.
LEMMA AppendTask ==
    ASSUME NEW q \in Seq(Tasks), NEW x \in Tasks
    PROVE  /\ Append(q, x) \in Seq(Tasks) /\ Append(q, x) # <<>>
           /\ \A u : InQueue(Append(q, x), u) <=> InQueue(q, u) \/ u = x
           /\ Distinct(q) /\ ~InQueue(q, x) => Distinct(Append(q, x))
<1>1. /\ Append(q, x) \in Seq(Tasks) /\ Append(q, x) # <<>>
      /\ Len(Append(q, x)) = Len(q) + 1
      /\ \A i \in 1..Len(q) : Append(q, x)[i] = q[i]
      /\ Append(q, x)[Len(q) + 1] = x
      /\ Len(q) \in Nat
  BY AppendProperties, LenProperties
<1>2. 1..(Len(q) + 1) = (1..Len(q)) \cup {Len(q) + 1}
  BY <1>1
<1>3. \A u : InQueue(Append(q, x), u) <=> InQueue(q, u) \/ u = x
  BY <1>1, <1>2 DEF InQueue
<1>4. Distinct(q) /\ ~InQueue(q, x) => Distinct(Append(q, x))
  BY <1>1, <1>2 DEF Distinct, InQueue
<1> QED BY <1>1, <1>3, <1>4

\* The task taken from the front of a queue.
LEMMA FirstTask ==
    ASSUME NEW q \in Seq(Tasks), q # <<>>
    PROVE  /\ Head(q) \in Tasks /\ Tail(q) \in Seq(Tasks)
           /\ \A u : InQueue(q, u) <=> u = Head(q) \/ InQueue(Tail(q), u)
           /\ Distinct(q) => Distinct(Tail(q)) /\ ~InQueue(Tail(q), Head(q))
<1>1. /\ Head(q) \in Tasks /\ Tail(q) \in Seq(Tasks)
      /\ Len(Tail(q)) = Len(q) - 1 /\ Head(q) = q[1]
      /\ \A i \in 1..Len(Tail(q)) : Tail(q)[i] = q[i + 1]
      /\ Len(q) \in Nat /\ Len(q) > 0
  BY HeadTailProperties, EmptySeq, LenProperties
<1>2. \A i \in 1..Len(q) : i = 1 \/ (i - 1 \in 1..Len(Tail(q)) /\ i = (i - 1) + 1)
  BY <1>1
<1>3. \A i \in 1..Len(Tail(q)) : i + 1 \in 1..Len(q) /\ i + 1 # 1
  BY <1>1
<1>4. 1 \in 1..Len(q)
  BY <1>1
<1>5. \A u : InQueue(q, u) <=> u = Head(q) \/ InQueue(Tail(q), u)
  BY <1>1, <1>2, <1>3, <1>4, ZenonT(30) DEF InQueue
<1>6. ASSUME Distinct(q)
      PROVE  Distinct(Tail(q)) /\ ~InQueue(Tail(q), Head(q))
  BY <1>1, <1>3, <1>4, <1>6 DEF Distinct, InQueue
<1> QED BY <1>1, <1>5, <1>6

States == {"new", "idle", "check", "leave", "wait", "done"}

\* The runnable tasks are in the queue once and are not the one that runs.
QueueInv ==
    /\ queue \in Seq(Tasks) /\ Distinct(queue)
    /\ running \in Tasks \cup {NoTask}
    /\ notified \in BOOLEAN
    /\ running \in Tasks => running \in live
    /\ \A t \in Tasks : InQueue(queue, t) => t \in live /\ t # running

\* A task between the look at the ring and its return runs, and with interrupts
\* off until it has pushed its waker.
TaskInv ==
    /\ QueueInv
    /\ ring \in Seq(Nat)
    /\ waiting \in Seq(Tasks)
    /\ st \in [Tasks -> States]
    /\ spurious \in Nat
    /\ \A t \in Tasks : st[t] \in {"idle", "check", "leave", "wait"} => t \in live
    /\ \A t \in Tasks : st[t] \in {"check", "leave"} => running = t
    /\ \A t \in Tasks : st[t] = "check" => masked /\ ring = <<>>

\* What a wake does to the run queue: only a live task that is not running is
\* queued.
LEMMA WakeQueue ==
    ASSUME QueueInv, NEW t \in Tasks
    PROVE  /\ WakeQ(queue, t) \in Seq(Tasks) /\ Distinct(WakeQ(queue, t))
           /\ \A u \in Tasks : InQueue(WakeQ(queue, t), u) <=>
                InQueue(queue, u) \/ (u = t /\ t \in live /\ t # running)
<1>1. CASE t \in live /\ t # running /\ ~InQueue(queue, t)
  <2>1. WakeQ(queue, t) = Append(queue, t)
    BY <1>1 DEF WakeQ
  <2> QED BY <1>1, <2>1, AppendTask DEF QueueInv
<1>2. CASE ~(t \in live /\ t # running /\ ~InQueue(queue, t))
  <2>1. WakeQ(queue, t) = queue
    BY <1>2 DEF WakeQ
  <2> QED BY <1>2, <2>1 DEF QueueInv
<1> QED BY <1>1, <1>2

\* Each operation on the executor keeps a task in the run queue at most once.
LEMMA QueueStep ==
    ASSUME QueueInv, NEW t \in Tasks,
           \/ Spawn(t) \/ Wake(t) \/ UNCHANGED execVars
           \/ running = t /\ (Suspend \/ YieldNow \/ Complete)
    PROVE  QueueInv'
<1>1. CASE Spawn(t)
  <2>1. ~InQueue(queue, t)
    BY <1>1 DEF Spawn, QueueInv
  <2> QED BY <1>1, <2>1, AppendTask DEF Spawn, QueueInv
<1>2. CASE Wake(t)
  <2>1. queue' = WakeQ(queue, t) /\ notified' \in BOOLEAN /\ UNCHANGED <<running, live>>
    BY <1>2 DEF Wake, WakeN
  <2> QED BY <2>1, WakeQueue DEF QueueInv
<1>3. CASE UNCHANGED execVars
  BY <1>3 DEF execVars, QueueInv
<1>4. CASE running = t /\ (Suspend \/ YieldNow \/ Complete)
  <2>1. running' = NoTask /\ notified' = FALSE
    BY <1>4 DEF Suspend, YieldNow, Complete
  <2>2. ~InQueue(queue, t)
    BY <1>4 DEF QueueInv
  <2>3. CASE queue' = Append(queue, t) /\ live' = live
    BY <1>4, <2>1, <2>2, <2>3, AppendTask, NoTaskIsNone, ZenonT(30) DEF QueueInv
  <2>4. CASE queue' = queue /\ live' \in {live, live \ {t}}
    BY <1>4, <2>1, <2>2, <2>4, NoTaskIsNone, ZenonT(30) DEF QueueInv
  <2> QED BY <1>4, <2>3, <2>4 DEF Suspend, YieldNow, Complete
<1> QED BY <1>1, <1>2, <1>3, <1>4

\* Taking the next task from the run queue.
LEMMA FetchQueue ==
    ASSUME QueueInv, Fetch
    PROVE  QueueInv' /\ running' \in Tasks
<1>1. /\ queue # <<>> /\ running' = Head(queue) /\ queue' = Tail(queue)
      /\ UNCHANGED <<notified, live>>
  BY DEF Fetch
<1>2. /\ Head(queue) \in Tasks /\ Tail(queue) \in Seq(Tasks)
      /\ \A u : InQueue(queue, u) <=> u = Head(queue) \/ InQueue(Tail(queue), u)
      /\ Distinct(Tail(queue)) /\ ~InQueue(Tail(queue), Head(queue))
  BY <1>1, FirstTask DEF QueueInv
<1> QED BY <1>1, <1>2 DEF QueueInv

\* The wake in the interrupt handler.
LEMMA InterruptQueue ==
    ASSUME QueueInv, waiting \in Seq(Tasks), InterruptHandler, waiting # <<>>
    PROVE  /\ Wake(Head(waiting)) /\ Head(waiting) \in Tasks
           /\ waiting' = Tail(waiting) /\ waiting' \in Seq(Tasks)
<1>1. Head(waiting) \in Tasks /\ Tail(waiting) \in Seq(Tasks)
  BY FirstTask
<1>2. notified' = (notified \/ Head(waiting) = running)
  BY DEF InterruptHandler, SerialInterrupt
<1> QED BY <1>1, <1>2 DEF InterruptHandler, SerialInterrupt, Wake, WakeN

\* Every step keeps the run queue and the queue of wakers as TaskInv says.
LEMMA TaskInvStep ==
    ASSUME TaskInv, ByteInv', [Next]_vars
    PROVE  TaskInv'
<1>1. ring' \in Seq(Nat)
  BY DEF ByteInv
<1>2. CASE InterruptHandler
  <2>1. /\ ~masked /\ UNCHANGED <<running, live, masked, st, spurious>>
    BY <1>2 DEF InterruptHandler
  <2>2. QueueInv' /\ waiting' \in Seq(Tasks)
    <3>1. CASE waiting = <<>>
      <4>1. UNCHANGED <<queue, waiting>> /\ notified' = (notified \/ FALSE)
        BY <1>2, <3>1 DEF InterruptHandler, SerialInterrupt
      <4> QED BY <2>1, <4>1 DEF TaskInv, QueueInv
    <3>2. CASE waiting # <<>>
      BY <1>2, <3>2, InterruptQueue, QueueStep DEF TaskInv
    <3> QED BY <3>1, <3>2
  <2> QED BY <1>1, <2>1, <2>2 DEF TaskInv
<1>3. CASE Poll
  <2>1. UNCHANGED <<ring, waiting, masked, st, spurious, live>> /\ Fetch /\ running = NoTask
    BY <1>3 DEF Poll, Fetch, device
  <2>2. QueueInv'
    BY <2>1, FetchQueue DEF TaskInv
  <2> QED BY <1>1, <2>1, <2>2, NoTaskIsNone DEF TaskInv
<1>4. ASSUME NEW t \in Tasks, Start(t)
      PROVE  TaskInv'
  <2>1. /\ UNCHANGED <<ring, waiting, masked, spurious, running>> /\ Spawn(t)
        /\ st' = [st EXCEPT ![t] = "idle"] /\ live' = live \cup {t}
    BY <1>4 DEF Start, Spawn, device
  <2>2. QueueInv'
    BY <2>1, QueueStep DEF TaskInv
  <2> QED BY <1>1, <2>1, <2>2 DEF TaskInv, States
<1>5. ASSUME NEW t \in Tasks, StaleWake(t)
      PROVE  TaskInv'
  <2>1. UNCHANGED <<ring, waiting, masked, st, live, running>> /\ Wake(t) /\ spurious' = spurious + 1
    BY <1>5 DEF StaleWake, Wake, device
  <2>2. QueueInv'
    BY <2>1, QueueStep DEF TaskInv
  <2> QED BY <1>1, <2>1, <2>2 DEF TaskInv
<1>6. ASSUME NEW t \in Tasks, ReadByte(t) \/ FindEmpty(t)
      PROVE  TaskInv'
  <2>1. running = t /\ st[t] \in {"idle", "wait"} /\ UNCHANGED <<execVars, waiting, spurious>>
    BY <1>6 DEF ReadByte, FindEmpty, Reads
  <2>2. QueueInv'
    BY <2>1, QueueStep DEF TaskInv
  <2>3. \A u \in Tasks : st[u] \notin {"check", "leave"}
    BY <2>1 DEF TaskInv
  <2>4. running' = running /\ live' = live
    BY <2>1 DEF execVars
  <2>5. CASE ReadByte(t)
    <3>1. st' = [st EXCEPT ![t] = "idle"]
      BY <2>5 DEF ReadByte
    <3> QED BY <1>1, <2>1, <2>2, <2>3, <2>4, <3>1 DEF TaskInv, States
  <2>6. CASE FindEmpty(t)
    <3>1. st' = [st EXCEPT ![t] = "check"] /\ masked' = TRUE /\ ring' = <<>>
      BY <2>6 DEF FindEmpty, device
    <3> QED BY <1>1, <2>1, <2>2, <2>3, <2>4, <3>1 DEF TaskInv, States
  <2> QED BY <1>6, <2>5, <2>6
<1>7. ASSUME NEW t \in Tasks, PushWaker(t)
      PROVE  TaskInv'
  <2>1. /\ running = t /\ UNCHANGED <<execVars, ring, spurious>> /\ st[t] = "check"
        /\ waiting' = Append(waiting, t) /\ st' = [st EXCEPT ![t] = "leave"]
    BY <1>7 DEF PushWaker, device
  <2>2. QueueInv' /\ running' = running /\ live' = live
    BY <2>1, QueueStep DEF TaskInv, execVars
  <2>3. waiting' \in Seq(Tasks)
    BY <2>1, AppendTask DEF TaskInv
  <2> QED BY <1>1, <2>1, <2>2, <2>3 DEF TaskInv, States
<1>8. ASSUME NEW t \in Tasks, ReadPending(t) \/ Preempt(t) \/ Finish(t)
      PROVE  TaskInv'
  <2>1. /\ running = t /\ UNCHANGED <<ring, waiting, masked, spurious>>
        /\ st[t] \in {"leave", "idle"}
    BY <1>8 DEF ReadPending, Preempt, Finish, device
  <2>2. QueueInv'
    BY <1>8, <2>1, QueueStep DEF TaskInv, ReadPending, Preempt, Finish
  <2>3. \A u \in Tasks \ {t} : st[u] \notin {"check", "leave"}
    BY <2>1 DEF TaskInv
  <2>4. CASE ReadPending(t)
    <3>1. live' = live /\ st' = [st EXCEPT ![t] = "wait"] /\ st[t] = "leave"
      BY <2>4 DEF ReadPending, Suspend
    <3> QED BY <1>1, <2>1, <2>2, <2>3, <3>1 DEF TaskInv, States
  <2>5. CASE Preempt(t)
    <3>1. live' = live /\ st' = st /\ st[t] = "idle"
      BY <2>5 DEF Preempt, YieldNow
    <3> QED BY <1>1, <2>1, <2>2, <2>3, <3>1 DEF TaskInv
  <2>6. CASE Finish(t)
    <3>1. live' = live \ {t} /\ st' = [st EXCEPT ![t] = "done"]
      BY <2>1, <2>6 DEF Finish, Complete
    <3> QED BY <1>1, <2>1, <2>2, <2>3, <3>1 DEF TaskInv, States
  <2> QED BY <1>8, <2>4, <2>5, <2>6
<1>9. CASE Type
  <2>1. UNCHANGED <<execVars, ring, waiting, masked, st, spurious>>
    BY <1>9 DEF Type
  <2> QED BY <2>1 DEF TaskInv, QueueInv, execVars
<1>10. CASE UNCHANGED vars
  BY <1>10, SMTT(30) DEF vars, device, execVars, TaskInv, QueueInv
<1> QED BY <1>2, <1>3, <1>4, <1>5, <1>6, <1>7, <1>8, <1>9, <1>10 DEF Next, TaskStep

-------------------------------------------------------------------------------
(* Which readers sleep. *)

Sleeps(t) == Waits(t) /\ ~WillPoll(t)
Woken == {t \in Tasks : Waits(t) /\ WillPoll(t)}

\* Without stale wakes the readers that sleep are those with a waker in the
\* queue of the device, each once, and while one sleeps as many others were
\* woken as there are bytes in the ring: a woken reader that is late finds the
\* ring empty and sleeps again.
WakeInv ==
    /\ Distinct(waiting)
    /\ \A t \in Tasks : InQueue(waiting, t) <=> Sleeps(t)
    /\ notified => running \in Tasks /\ st[running] = "leave"
    /\ IsFiniteSet(Woken)
    /\ (\E t \in Tasks : Sleeps(t)) => Len(ring) <= Cardinality(Woken)

\* The steps that neither wake a reader nor put one to sleep.
LEMMA SameReaders ==
    ASSUME WakeInv, UNCHANGED <<waiting, ring>>,
           notified' => running' \in Tasks /\ st'[running'] = "leave",
           \A u \in Tasks : /\ Waits(u)' <=> Waits(u)
                            /\ Waits(u) => (WillPoll(u)' <=> WillPoll(u))
    PROVE  WakeInv'
<1>1. \A u \in Tasks : Sleeps(u)' <=> Sleeps(u)
  BY DEF Sleeps
<1>2. Woken' = Woken
  BY DEF Woken
<1> QED BY <1>1, <1>2 DEF WakeInv

\* A poll looks at the ring: the reader was awake, and takes a byte if there is one.
LEMMA OneReaderLess ==
    ASSUME TaskInv, WakeInv, NEW t \in Tasks, ReadByte(t) \/ FindEmpty(t)
    PROVE  WakeInv'
<1>1. /\ running = t /\ st[t] \in {"idle", "wait"} /\ UNCHANGED <<execVars, waiting>>
      /\ st' = [st EXCEPT ![t] = "idle"] \/ st' = [st EXCEPT ![t] = "check"]
  BY DEF ReadByte, FindEmpty, Reads
<1>2. ~notified
  BY <1>1 DEF WakeInv
<1>3. ~Waits(t)' /\ WillPoll(t)
  BY <1>1 DEF Waits, WillPoll, TaskInv
<1>4. \A u \in Tasks \ {t} : (Waits(u)' <=> Waits(u)) /\ (WillPoll(u)' <=> WillPoll(u))
  BY <1>1 DEF Waits, WillPoll, TaskInv, execVars
<1>5. \A u \in Tasks : Sleeps(u)' <=> Sleeps(u)
  BY <1>3, <1>4 DEF Sleeps
<1>6. Woken' = Woken \ {t}
  BY <1>3, <1>4 DEF Woken
<1>7. /\ IsFiniteSet(Woken \ {t}) /\ Cardinality(Woken) \in Nat
      /\ Cardinality(Woken \ {t}) \in Nat /\ Cardinality(Woken \ {t}) >= Cardinality(Woken) - 1
  <2>1. IsFiniteSet(Woken)
    BY DEF WakeInv
  <2>2. Cardinality(Woken) \in Nat
    BY <2>1, FS_CardinalityType
  <2>3. IsFiniteSet(Woken \ {t})
    BY <2>1, FS_RemoveElement
  <2>4. Cardinality(Woken \ {t}) \in Nat
    BY <2>3, FS_CardinalityType
  <2>5. Cardinality(Woken \ {t}) = IF t \in Woken THEN Cardinality(Woken) - 1 ELSE Cardinality(Woken)
    BY <2>1, FS_RemoveElement
  <2> QED BY <2>2, <2>3, <2>4, <2>5
<1>8. Len(ring') = 0 \/ (Len(ring) \in Nat /\ Len(ring') = Len(ring) - 1)
  <2>1. CASE FindEmpty(t)
    BY <2>1 DEF FindEmpty, device
  <2>2. CASE ReadByte(t)
    BY <2>2, HeadTailProperties, LenProperties DEF ReadByte, TaskInv
  <2> QED BY <2>1, <2>2
<1>9. (\E u \in Tasks : Sleeps(u)) => Len(ring') <= Cardinality(Woken \ {t})
  <2> SUFFICES ASSUME NEW u \in Tasks, Sleeps(u) PROVE Len(ring') <= Cardinality(Woken \ {t})
    OBVIOUS
  <2>1. Len(ring) <= Cardinality(Woken)
    BY DEF WakeInv
  <2> QED BY <1>7, <1>8, <2>1
<1>10. notified' = notified
  BY <1>1 DEF execVars
<1> QED BY <1>1, <1>2, <1>5, <1>6, <1>7, <1>9, <1>10 DEF WakeInv

\* A reader goes to sleep while the ring is empty.
LEMMA OneSleeperMore ==
    ASSUME TaskInv, WakeInv, NEW t \in Tasks, PushWaker(t)
    PROVE  WakeInv'
<1>1. /\ running = t /\ st[t] = "check" /\ UNCHANGED <<execVars, ring>>
      /\ waiting' = Append(waiting, t) /\ st' = [st EXCEPT ![t] = "leave"]
  BY DEF PushWaker, device
<1>2. ~notified /\ ~InQueue(queue, t) /\ ring = <<>>
  BY <1>1 DEF WakeInv, TaskInv, QueueInv
<1>3. ~Waits(t) /\ Waits(t)' /\ ~WillPoll(t)'
  BY <1>1, <1>2 DEF Waits, WillPoll, TaskInv, execVars
<1>4. \A u \in Tasks \ {t} : (Waits(u)' <=> Waits(u)) /\ (WillPoll(u)' <=> WillPoll(u))
  BY <1>1 DEF Waits, WillPoll, TaskInv, execVars
<1>5. ~Sleeps(t) /\ Sleeps(t)' /\ \A u \in Tasks \ {t} : Sleeps(u)' <=> Sleeps(u)
  BY <1>3, <1>4 DEF Sleeps
<1>6. Woken' = Woken
  BY <1>3, <1>4 DEF Woken
<1>7. ~InQueue(waiting, t)
  BY <1>5 DEF WakeInv
<1>8. /\ Distinct(Append(waiting, t))
      /\ \A u : InQueue(Append(waiting, t), u) <=> InQueue(waiting, u) \/ u = t
  BY <1>7, AppendTask DEF WakeInv, TaskInv
<1>9. \A u \in Tasks : InQueue(waiting', u) <=> Sleeps(u)'
  BY <1>1, <1>5, <1>8 DEF WakeInv
<1>10. Len(ring') <= Cardinality(Woken)
  <2>1. Cardinality(Woken) \in Nat
    BY FS_CardinalityType DEF WakeInv
  <2> QED BY <1>1, <1>2, <2>1
<1>11. notified' = notified
  BY <1>1 DEF execVars
<1> QED BY <1>1, <1>2, <1>6, <1>8, <1>9, <1>10, <1>11 DEF WakeInv

\* One byte more in the ring, one reader more awake, if there is one.
LEMMA InterruptReaders ==
    ASSUME TaskInv, WakeInv, InterruptHandler
    PROVE  WakeInv'
<1>1. UNCHANGED <<running, live, st>> /\ ring' = Enqueued(Head(line)) /\ line # <<>>
  BY DEF InterruptHandler, SerialInterrupt, Received, Pending
<1>2. CASE waiting = <<>>
  <2>1. UNCHANGED <<queue, waiting>> /\ notified' = (notified \/ FALSE)
    BY <1>2 DEF InterruptHandler, SerialInterrupt
  <2>2. notified' = notified
    BY <2>1 DEF TaskInv, QueueInv
  <2>3. \A u \in Tasks : (Waits(u)' <=> Waits(u)) /\ (WillPoll(u)' <=> WillPoll(u))
    BY <1>1, <2>1, <2>2 DEF Waits, WillPoll
  <2>4. \A u \in Tasks : ~InQueue(waiting, u)
    BY <1>2 DEF InQueue
  <2>5. Woken' = Woken /\ \A u \in Tasks : ~Sleeps(u) /\ ~Sleeps(u)'
    BY <2>3, <2>4 DEF Woken, Sleeps, WakeInv
  <2> QED BY <1>1, <2>1, <2>2, <2>4, <2>5 DEF WakeInv
<1>3. CASE waiting # <<>>
  <2>1. PICK h \in Tasks : h = Head(waiting)
    BY <1>3, InterruptQueue DEF TaskInv
  <2>2. Wake(h) /\ waiting' = Tail(waiting)
    BY <1>3, <2>1, InterruptQueue DEF TaskInv
  <2>3. /\ \A u : InQueue(waiting, u) <=> u = h \/ InQueue(Tail(waiting), u)
        /\ Distinct(Tail(waiting)) /\ ~InQueue(Tail(waiting), h)
    BY <1>3, <2>1, FirstTask DEF TaskInv, WakeInv
  <2>4. Sleeps(h)
    BY <2>3 DEF WakeInv
  <2>5. h \in live /\ Waits(h) /\ ~InQueue(queue, h) /\ (running = h => ~notified /\ st[h] = "leave")
    BY <2>4 DEF Sleeps, Waits, WillPoll, TaskInv
  <2>6. /\ \A u \in Tasks : InQueue(queue', u) <=> InQueue(queue, u) \/ (u = h /\ h # running)
        /\ notified' <=> notified \/ h = running
    BY <2>2, <2>5, WakeQueue, ZenonT(30) DEF Wake, WakeN, TaskInv
  <2>7. \A u \in Tasks : Waits(u)' <=> Waits(u)
    BY <1>1 DEF Waits
  <2>8. WillPoll(h)' /\ \A u \in Tasks \ {h} : WillPoll(u)' <=> WillPoll(u)
    BY <1>1, <2>6 DEF WillPoll
  <2>9. h \notin Woken /\ Woken' = Woken \cup {h}
    BY <2>4, <2>5, <2>7, <2>8 DEF Woken, Sleeps
  <2>10. ~Sleeps(h)' /\ \A u \in Tasks \ {h} : Sleeps(u)' <=> Sleeps(u)
    BY <2>7, <2>8 DEF Sleeps
  <2>11. \A u \in Tasks : InQueue(waiting', u) <=> Sleeps(u)'
    BY <2>2, <2>3, <2>10 DEF WakeInv
  <2>12. notified' => running' \in Tasks /\ st'[running'] = "leave"
    BY <1>1, <2>5, <2>6 DEF WakeInv
  <2>13. Len(ring') <= Len(ring) + 1 /\ Len(ring') \in Nat /\ Len(ring) \in Nat
    <3>1. CASE Len(ring) = RingSize
      <4>1. ring # <<>>
        BY <3>1, ConsoleBoundsAreNat
      <4>2. Tail(ring) \in Seq(Nat) /\ Len(Tail(ring)) = Len(ring) - 1 /\ Len(ring) \in Nat
        BY <4>1, HeadTailProperties, LenProperties DEF TaskInv
      <4>3. ring' = Append(Tail(ring), Head(line))
        BY <1>1, <3>1 DEF Enqueued
      <4> QED BY <4>2, <4>3
    <3>2. CASE Len(ring) # RingSize
      <4>1. ring' = Append(ring, Head(line)) /\ ring \in Seq(Nat)
        BY <1>1, <3>2 DEF Enqueued, TaskInv
      <4> QED BY <4>1
    <3> QED BY <3>1, <3>2
  <2>14. IsFiniteSet(Woken') /\ Len(ring') <= Cardinality(Woken')
    <3>1. IsFiniteSet(Woken) /\ Len(ring) <= Cardinality(Woken)
      BY <2>4 DEF WakeInv
    <3>2. Cardinality(Woken) \in Nat
      BY <3>1, FS_CardinalityType
    <3>3. IsFiniteSet(Woken \cup {h}) /\ Cardinality(Woken \cup {h}) = Cardinality(Woken) + 1
      BY <2>9, <3>1, FS_AddElement
    <3> QED BY <2>9, <2>13, <3>1, <3>2, <3>3
  <2> QED BY <2>2, <2>3, <2>11, <2>12, <2>14 DEF WakeInv
<1> QED BY <1>2, <1>3

\* Every step keeps enough readers awake for the bytes in the ring, unless it
\* wakes somebody who does not wait.
LEMMA WakeInvStep ==
    ASSUME TaskInv, WakeInv, [Next]_vars
    PROVE  WakeInv' \/ spurious' # 0
<1>1. ASSUME NEW t \in Tasks, Start(t)
      PROVE  WakeInv'
  <2>1. /\ UNCHANGED <<ring, waiting, running, notified>> /\ st[t] = "new"
        /\ st' = [st EXCEPT ![t] = "idle"] /\ queue' = Append(queue, t)
    BY <1>1 DEF Start, Spawn, device
  <2>2. \A u : InQueue(queue', u) <=> InQueue(queue, u) \/ u = t
    BY <2>1, AppendTask DEF TaskInv, QueueInv
  <2>3. ~Waits(t) /\ ~Waits(t)'
    BY <2>1 DEF Waits, TaskInv
  <2>4. \A u \in Tasks \ {t} : (Waits(u)' <=> Waits(u)) /\ (WillPoll(u)' <=> WillPoll(u))
    BY <2>1, <2>2 DEF Waits, WillPoll, TaskInv
  <2>5. notified' => running' \in Tasks /\ st'[running'] = "leave"
    BY <2>1 DEF WakeInv, TaskInv
  <2> QED BY <2>1, <2>3, <2>4, <2>5, SameReaders
<1>2. CASE Poll
  <2>1. /\ UNCHANGED <<ring, waiting, st, notified>> /\ running = NoTask /\ queue # <<>>
        /\ running' = Head(queue) /\ queue' = Tail(queue)
    BY <1>2 DEF Poll, Fetch, device
  <2>2. /\ Head(queue) \in Tasks
        /\ \A u : InQueue(queue, u) <=> u = Head(queue) \/ InQueue(Tail(queue), u)
    BY <2>1, FirstTask DEF TaskInv, QueueInv
  <2>3. ~notified
    BY <2>1, NoTaskIsNone DEF WakeInv
  <2>4. \A u \in Tasks : st[u] # "leave"
    BY <2>1, NoTaskIsNone DEF TaskInv
  <2>5. \A u \in Tasks : (Waits(u)' <=> Waits(u)) /\ (WillPoll(u)' <=> WillPoll(u))
    BY <2>1, <2>2, <2>4, NoTaskIsNone DEF Waits, WillPoll
  <2> QED BY <2>1, <2>3, <2>5, SameReaders
<1>3. ASSUME NEW t \in Tasks, ReadPending(t)
      PROVE  WakeInv'
  <2>1. /\ UNCHANGED <<ring, waiting>> /\ running = t /\ running' = NoTask /\ ~notified'
        /\ queue' = IF notified THEN Append(queue, t) ELSE queue
        /\ st[t] = "leave" /\ st' = [st EXCEPT ![t] = "wait"]
    BY <1>3 DEF ReadPending, Suspend, device
  <2>2. ~InQueue(queue, t) /\ \A u \in Tasks \ {t} : InQueue(queue', u) <=> InQueue(queue, u)
    BY <2>1, AppendTask DEF TaskInv, QueueInv
  <2>3. InQueue(queue', t) <=> notified
    BY <2>1, <2>2, AppendTask DEF TaskInv, QueueInv
  <2>4. \A u \in Tasks : Waits(u)' <=> Waits(u)
    BY <2>1 DEF Waits, TaskInv
  <2>5. \A u \in Tasks \ {t} : WillPoll(u)' <=> WillPoll(u)
    BY <2>1, <2>2, NoTaskIsNone DEF WillPoll
  <2>6. WillPoll(t)' <=> WillPoll(t)
    BY <2>1, <2>2, <2>3, NoTaskIsNone DEF WillPoll
  <2> QED BY <2>1, <2>4, <2>5, <2>6, SameReaders
<1>4. ASSUME NEW t \in Tasks, Preempt(t) \/ Finish(t)
      PROVE  WakeInv'
  <2>1. /\ UNCHANGED <<ring, waiting>> /\ running = t /\ running' = NoTask /\ ~notified'
        /\ queue' = Append(queue, t) \/ queue' = queue
        /\ st[t] = "idle" /\ st' \in {st, [st EXCEPT ![t] = "done"]}
    BY <1>4 DEF Preempt, Finish, YieldNow, Complete, device
  <2>2. \A u \in Tasks \ {t} : InQueue(queue', u) <=> InQueue(queue, u)
    <3>1. \A u : InQueue(Append(queue, t), u) <=> InQueue(queue, u) \/ u = t
      BY AppendTask DEF TaskInv, QueueInv
    <3> QED BY <2>1, <3>1, ZenonT(30)
  <2>3. ~Waits(t) /\ ~Waits(t)'
    BY <2>1 DEF Waits, TaskInv
  <2>4. \A u \in Tasks \ {t} : (Waits(u)' <=> Waits(u)) /\ (WillPoll(u)' <=> WillPoll(u))
    BY <2>1, <2>2, NoTaskIsNone DEF Waits, WillPoll, TaskInv
  <2> QED BY <2>1, <2>3, <2>4, SameReaders
<1>5. ASSUME NEW t \in Tasks, StaleWake(t)
      PROVE  spurious' # 0
  BY <1>5 DEF StaleWake, TaskInv
<1>6. CASE Type \/ UNCHANGED vars
  <2>1. UNCHANGED <<queue, running, notified, ring, waiting, st>>
    BY <1>6 DEF Type, vars, device, execVars
  <2>2. \A u \in Tasks : (Waits(u)' <=> Waits(u)) /\ (WillPoll(u)' <=> WillPoll(u))
    BY <2>1 DEF Waits, WillPoll
  <2> QED BY <2>1, <2>2, SameReaders DEF WakeInv
<1> QED BY <1>1, <1>2, <1>3, <1>4, <1>5, <1>6, OneReaderLess, OneSleeperMore, InterruptReaders
        DEF Next, TaskStep

\* Stale wakes are counted and never forgotten.
LEMMA SpuriousGrows ==
    ASSUME TaskInv, [Next]_vars
    PROVE  spurious' = 0 => spurious = 0
<1>1. UNCHANGED spurious \/ spurious' = spurious + 1
  BY DEF Next, Type, InterruptHandler, Poll, Start, StaleWake, TaskStep, ReadByte, FindEmpty,
         PushWaker, ReadPending, Preempt, Finish, vars
<1> QED BY <1>1 DEF TaskInv

\* No reader sleeps on input, however the interrupt, the newcomers and the polls
\* of the woken readers interleave (serial/mod.rs 107 and 147-153), as long as
\* no stale waker has woken a reader.  Each byte wakes one reader only; that it
\* suffices rests on the count in WakeInv.
THEOREM InputWakesReaderHolds == Spec => []InputWakesReader
<1> DEFINE IInv == ByteInv /\ TaskInv /\ (spurious = 0 => WakeInv)
<1>1. Init => TaskInv /\ WakeInv
  <2> SUFFICES ASSUME Init PROVE TaskInv /\ WakeInv
    OBVIOUS
  <2>1. /\ queue = <<>> /\ running = NoTask /\ notified = FALSE /\ ring = <<>> /\ waiting = <<>>
        /\ spurious = 0 /\ st = [t \in Tasks |-> "new"]
    BY DEF Init, ExecInit
  <2>2. /\ <<>> \in Seq(Tasks) /\ <<>> \in Seq(Nat) /\ Distinct(<<>>)
        /\ \A u : ~InQueue(<<>>, u)
    BY DEF Distinct, InQueue
  <2>3. TaskInv
    <3>1. QueueInv
      BY <2>1, <2>2, NoTaskIsNone, ZenonT(30) DEF QueueInv
    <3>2. st \in [Tasks -> States] /\ \A t \in Tasks : st[t] = "new"
      BY <2>1 DEF States
    <3> QED BY <2>1, <2>2, <3>1, <3>2 DEF TaskInv
  <2>4. Woken = {} /\ \A u \in Tasks : ~Sleeps(u)
    BY <2>1 DEF Woken, Sleeps, Waits
  <2>5. WakeInv
    BY <2>1, <2>2, <2>4, FS_EmptySet DEF WakeInv
  <2> QED BY <2>3, <2>5
<1>2. Init => ByteInv
  BY ByteInvInit
<1>3. IInv /\ [Next]_vars => IInv'
  BY ByteInvStep, TaskInvStep, WakeInvStep, SpuriousGrows
<1>4. IInv => InputWakesReader
  <2> SUFFICES ASSUME TaskInv, WakeInv, ring # <<>>, NEW t \in Tasks, Waits(t)
               PROVE  \E u \in Tasks : Waits(u) /\ WillPoll(u)
    BY DEF InputWakesReader
  <2>1. CASE WillPoll(t)
    BY <2>1
  <2>2. CASE ~WillPoll(t)
    <3>1. Len(ring) <= Cardinality(Woken) /\ IsFiniteSet(Woken)
      BY <2>2 DEF WakeInv, Sleeps
    <3>2. Len(ring) \in Nat \ {0}
      BY EmptySeq DEF TaskInv
    <3>3. Woken # {}
      BY <3>1, <3>2, FS_EmptySet
    <3> QED BY <3>3 DEF Woken
  <2> QED BY <2>1, <2>2
<1> QED BY <1>1, <1>2, <1>3, <1>4, PTL DEF Spec
===============================================================================
