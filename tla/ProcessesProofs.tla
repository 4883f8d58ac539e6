---------------------------- MODULE ProcessesProofs ----------------------------
(***************************************************************************)
(* Proofs about Processes for any number of processes. Then FdTable, for   *)
(* any number of descriptors, any limits and any lower bounds: what the    *)
(* number pool and the table of a process keep together.                   *)
(***************************************************************************)
EXTENDS Processes, FdTable, TLAPS

-------------------------------------------------------------------------------
(* Lists of children. *)

Distinct(s) == \A i, j \in 1..Len(s) : s[i] = s[j] => i = j

\* A process put at the end of a list of children.
LEMMA AppendChild ==
    ASSUME NEW s \in Seq(Pids), NEW x \in Pids
    PROVE  /\ Append(s, x) \in Seq(Pids)
           /\ \A c : IsChild(c, Append(s, x)) <=> IsChild(c, s) \/ c = x
           /\ Distinct(s) /\ ~IsChild(x, s) => Distinct(Append(s, x))
<1>1. /\ Append(s, x) \in Seq(Pids)
      /\ Len(Append(s, x)) = Len(s) + 1
      /\ \A i \in 1..Len(s) : Append(s, x)[i] = s[i]
      /\ Append(s, x)[Len(s) + 1] = x
      /\ Len(s) \in Nat
  OBVIOUS
<1>2. 1..(Len(s) + 1) = (1..Len(s)) \cup {Len(s) + 1}
  BY <1>1
<1>3. \A c : IsChild(c, Append(s, x)) <=> IsChild(c, s) \/ c = x
  BY <1>1, <1>2 DEF IsChild
<1>4. Distinct(s) /\ ~IsChild(x, s) => Distinct(Append(s, x))
  BY <1>1, <1>2 DEF Distinct, IsChild
<1> QED BY <1>1, <1>3, <1>4

\* do_exit extends init's list by the list of the process that ends.
LEMMA ExtendChildren ==
    ASSUME NEW s \in Seq(Pids), NEW m \in Seq(Pids)
    PROVE  /\ s \o m \in Seq(Pids)
           /\ \A c : IsChild(c, s \o m) <=> IsChild(c, s) \/ IsChild(c, m)
           /\ Distinct(s) /\ Distinct(m) /\ (\A c : ~(IsChild(c, s) /\ IsChild(c, m)))
                => Distinct(s \o m)
<1> DEFINE r == s \o m
<1>1. /\ r \in Seq(Pids) /\ Len(r) = Len(s) + Len(m)
      /\ \A i \in 1..(Len(s) + Len(m)) : r[i] = IF i <= Len(s) THEN s[i] ELSE m[i - Len(s)]
      /\ Len(s) \in Nat /\ Len(m) \in Nat
  OBVIOUS
<1> HIDE DEF r
<1>2. /\ \A i \in 1..Len(s) : i \in 1..Len(r) /\ r[i] = s[i]
      /\ \A i \in 1..Len(m) : Len(s) + i \in 1..Len(r) /\ r[Len(s) + i] = m[i]
  <2>1. \A i \in 1..Len(m) : /\ Len(s) + i \in 1..(Len(s) + Len(m))
                             /\ ~(Len(s) + i <= Len(s)) /\ (Len(s) + i) - Len(s) = i
    BY <1>1
  <2> QED BY <1>1, <2>1
<1>3. \A i \in 1..Len(r) : \/ i \in 1..Len(s) /\ r[i] = s[i]
                           \/ i - Len(s) \in 1..Len(m) /\ r[i] = m[i - Len(s)]
  BY <1>1
<1>4. \A c : IsChild(c, r) <=> IsChild(c, s) \/ IsChild(c, m)
  BY <1>2, <1>3, ZenonT(30) DEF IsChild
<1>5. ASSUME Distinct(s), Distinct(m), \A c : ~(IsChild(c, s) /\ IsChild(c, m))
      PROVE  Distinct(r)
  <2> SUFFICES ASSUME NEW i \in 1..Len(r), NEW j \in 1..Len(r), r[i] = r[j]
               PROVE  i = j
    BY DEF Distinct
  <2>1. CASE i \in 1..Len(s) /\ j \in 1..Len(s)
    BY <1>2, <1>5, <2>1, ZenonT(30) DEF Distinct
  <2>2. CASE i \notin 1..Len(s) /\ j \notin 1..Len(s)
    <3>1. i - Len(s) = j - Len(s)
      BY <1>3, <1>5, <2>2 DEF Distinct
    <3> QED BY <1>1, <3>1
  <2>3. ASSUME NEW a \in 1..Len(r), NEW b \in 1..Len(r), a \in 1..Len(s), b \notin 1..Len(s), r[a] = r[b]
        PROVE  FALSE
    <3>1. IsChild(r[a], s)
      BY <1>2, <2>3, Zenon DEF IsChild
    <3>2. IsChild(r[b], m)
      BY <1>3, <2>3, Zenon DEF IsChild
    <3> QED BY <1>5, <2>3, <3>1, <3>2, Zenon
  <2> QED BY <2>1, <2>2, <2>3
<1> QED BY <1>1, <1>4, <1>5 DEF r

\* remove_child: one position goes.
LEMMA RemoveChild ==
    ASSUME NEW s \in Seq(Pids), NEW k \in 1..Len(s)
    PROVE  LET r == SubSeq(s, 1, k - 1) \o SubSeq(s, k + 1, Len(s))
           IN /\ r \in Seq(Pids)
              /\ \A c : IsChild(c, r) => IsChild(c, s)
              /\ \A c : IsChild(c, s) /\ c # s[k] => IsChild(c, r)
              /\ Distinct(s) => Distinct(r) /\ ~IsChild(s[k], r)
<1> DEFINE a == SubSeq(s, 1, k - 1)
           b == SubSeq(s, k + 1, Len(s))
           r == a \o b
<1>1. Len(s) \in Nat /\ k \in Nat /\ 1 <= k /\ k <= Len(s) /\ \A i \in 1..Len(s) : s[i] \in Pids
  OBVIOUS
<1>2. /\ a \in Seq(Pids) /\ Len(a) = k - 1
      /\ \A i \in 1..(k - 1) : a[i] = s[i]
  <2>1. 1 \in Int /\ k - 1 \in Int /\ \A i \in 1..(k - 1) : s[i] \in Pids
    BY <1>1
  <2>2. /\ a \in Seq(Pids)
        /\ Len(a) = IF 1 <= k - 1 THEN (k - 1) - 1 + 1 ELSE 0
        /\ \A i \in 1..((k - 1) - 1 + 1) : a[i] = s[1 + i - 1]
    BY <2>1
  <2>3. \A i \in 1..(k - 1) : i \in 1..((k - 1) - 1 + 1) /\ 1 + i - 1 = i
    BY <1>1
  <2> HIDE DEF a
  <2> QED BY <1>1, <2>2, <2>3
<1>3. /\ b \in Seq(Pids) /\ Len(b) = Len(s) - k
      /\ \A i \in 1..(Len(s) - k) : b[i] = s[k + i]
  <2>1. k + 1 \in Int /\ Len(s) \in Int /\ \A i \in (k + 1)..Len(s) : s[i] \in Pids
    BY <1>1
  <2>2. /\ b \in Seq(Pids)
        /\ Len(b) = IF k + 1 <= Len(s) THEN Len(s) - (k + 1) + 1 ELSE 0
        /\ \A i \in 1..(Len(s) - (k + 1) + 1) : b[i] = s[(k + 1) + i - 1]
    BY <2>1
  <2>3. \A i \in 1..(Len(s) - k) : i \in 1..(Len(s) - (k + 1) + 1) /\ (k + 1) + i - 1 = k + i
    BY <1>1
  <2> HIDE DEF b
  <2> QED BY <1>1, <2>2, <2>3
<1> HIDE DEF a, b
<1>4. /\ r \in Seq(Pids)
      /\ \A c : IsChild(c, r) <=> IsChild(c, a) \/ IsChild(c, b)
  BY <1>2, <1>3, ExtendChildren
<1> HIDE DEF r
<1>5. \A i \in 1..Len(s) : \/ i = k
                           \/ i \in 1..(k - 1) /\ a[i] = s[i]
                           \/ i - k \in 1..(Len(s) - k) /\ b[i - k] = s[i]
  <2>1. \A i \in 1..Len(s) : \/ i = k \/ i \in 1..(k - 1)
                             \/ i - k \in 1..(Len(s) - k) /\ k + (i - k) = i
    BY <1>1
  <2> QED BY <1>2, <1>3, <2>1
<1>6. /\ \A i \in 1..(k - 1) : i \in 1..Len(s) /\ i # k
      /\ \A i \in 1..(Len(s) - k) : k + i \in 1..Len(s) /\ k + i # k
  <2>1. \A i \in 1..(k - 1) : i \in 1..Len(s) /\ i # k
    BY <1>1
  <2>2. \A i \in 1..(Len(s) - k) : k + i \in 1..Len(s) /\ k + i # k
    BY <1>1
  <2> QED BY <2>1, <2>2
<1>7. \A c : IsChild(c, r) => IsChild(c, s)
  <2>1. \A c : IsChild(c, a) => IsChild(c, s)
    BY <1>2, <1>6, SMTT(30) DEF IsChild
  <2>2. \A c : IsChild(c, b) => IsChild(c, s)
    BY <1>3, <1>6 DEF IsChild
  <2> QED BY <1>4, <2>1, <2>2
<1>8. \A c : IsChild(c, s) /\ c # s[k] => IsChild(c, r)
  BY <1>2, <1>3, <1>4, <1>5, ZenonT(30) DEF IsChild
<1>9. ASSUME Distinct(s)
      PROVE  Distinct(r) /\ ~IsChild(s[k], r)
  <2>1. Distinct(a)
    BY <1>2, <1>6, <1>9 DEF Distinct
  <2>2. Distinct(b)
    <3> SUFFICES ASSUME NEW i \in 1..(Len(s) - k), NEW j \in 1..(Len(s) - k), b[i] = b[j]
                 PROVE  i = j
      BY <1>3 DEF Distinct
    <3>1. k + i = k + j
      BY <1>3, <1>6, <1>9 DEF Distinct
    <3> QED BY <1>1, <3>1
  <2>3. \A c : ~(IsChild(c, a) /\ IsChild(c, b))
    <3> SUFFICES ASSUME NEW i \in 1..(k - 1), NEW j \in 1..(Len(s) - k), a[i] = b[j]
                 PROVE  FALSE
      BY <1>2, <1>3 DEF IsChild
    <3>1. i = k + j
      BY <1>2, <1>3, <1>6, <1>9 DEF Distinct
    <3> QED BY <1>1, <3>1
  <2>4. Distinct(r)
    BY <1>2, <1>3, <2>1, <2>2, <2>3, ExtendChildren DEF r
  <2>5. ~IsChild(s[k], a) /\ ~IsChild(s[k], b)
    BY <1>2, <1>3, <1>6, <1>9 DEF IsChild, Distinct
  <2> QED BY <1>4, <2>4, <2>5
<1> QED BY <1>4, <1>7, <1>8, <1>9 DEF a, b, r

-------------------------------------------------------------------------------
(* The tree of processes. *)

TreeInv ==
    /\ next \in Nat /\ 2 <= next
    /\ task \in [Pids -> {"none", "run", "wait", "gone"}]
    /\ leader \in [Pids -> Pids] /\ leader[InitPid] = InitPid
    /\ parent \in [Pids -> Nat]
    /\ children \in [Pids -> Seq(Pids)]
    /\ reaped \in [Pids -> Nat]
    /\ \A p \in Pids : task[p] # "none" => Exists(p)
    /\ \A p \in Pids : IF Exists(p) THEN Exists(leader[p]) ELSE leader[p] = p /\ reaped[p] = 0
    /\ \A c \in Pids \ {InitPid} : Exists(c) /\ leader[c] = c => parent[c] \in Pids /\ Exists(parent[c])
    /\ \A g, c \in Pids : IsChild(c, children[g]) => Exists(c)

\* The init process is a process, and 0 (nobody) is none.
LEMMA InitInPids == InitPid \in Pids /\ 0 \notin Pids /\ Pids \subseteq Nat
BY ProcessBounds DEF InitPid, Pids

\* Who is in a list of children is a process.
LEMMA ChildInPids ==
    ASSUME NEW s \in Seq(Pids), NEW c, IsChild(c, s)
    PROVE  c \in Pids
BY DEF IsChild

\* A new pid.
LEMMA NewPid ==
    ASSUME TreeInv, next <= MaxPid, next' = next + 1
    PROVE  /\ next \in Pids /\ ~Exists(next) /\ next # InitPid
           /\ \A p \in Pids : Exists(p)' <=> Exists(p) \/ p = next
<1>1. next \in Pids /\ next # InitPid
  BY DEF TreeInv, Pids, InitPid
<1>2. \A p \in Pids : p < next + 1 <=> p < next \/ p = next
  BY InitInPids DEF TreeInv
<1> QED BY <1>1, <1>2 DEF Exists, TreeInv

\* A clone of a process adds one new process to one list.
LEMMA ForkTree ==
    ASSUME TreeInv, NEW p \in Pids, Fork(p)
    PROVE  TreeInv'
<1>1. /\ next <= MaxPid /\ next' = next + 1 /\ task[p] = "run"
      /\ task' = [task EXCEPT ![next] = "run"]
      /\ parent' = [parent EXCEPT ![next] = p]
      /\ children' = [children EXCEPT ![leader[p]] = Append(children[leader[p]], next)]
      /\ UNCHANGED <<leader, reaped>>
  BY DEF Fork, Runs
<1>2. /\ next \in Pids /\ ~Exists(next) /\ next # InitPid
      /\ \A q \in Pids : Exists(q)' <=> Exists(q) \/ q = next
  BY <1>1, NewPid
<1>3. Exists(p)
  BY <1>1 DEF TreeInv
<1>4. /\ Append(children[leader[p]], next) \in Seq(Pids)
      /\ \A c : IsChild(c, Append(children[leader[p]], next)) <=> IsChild(c, children[leader[p]]) \/ c = next
  BY <1>2, AppendChild, ZenonT(30) DEF TreeInv
<1>5. children' \in [Pids -> Seq(Pids)]
  BY <1>1, <1>4 DEF TreeInv
<1>6. \A g, c \in Pids : IsChild(c, children'[g]) => Exists(c)'
  BY <1>1, <1>2, <1>4, ZenonT(30) DEF TreeInv
<1>7. next' \in Nat /\ 2 <= next'
  BY <1>1 DEF TreeInv
<1>8. /\ task' \in [Pids -> {"none", "run", "wait", "gone"}]
      /\ parent' \in [Pids -> Nat]
      /\ \A q \in Pids : task'[q] # "none" => Exists(q)'
  BY <1>1, <1>2, InitInPids DEF TreeInv
<1>9. \A q \in Pids : IF q < next' THEN leader[q] < next' ELSE leader[q] = q /\ reaped[q] = 0
  BY <1>1, <1>2, InitInPids, ZenonT(30) DEF TreeInv, Exists
<1>10. \A c \in Pids \ {InitPid} :
            c < next' /\ leader[c] = c => parent'[c] \in Pids /\ parent'[c] < next'
  <2> SUFFICES ASSUME NEW c \in Pids \ {InitPid}, c < next', leader[c] = c
               PROVE  parent'[c] \in Pids /\ parent'[c] < next'
    OBVIOUS
  <2>1. CASE c = next
    BY <1>1, <1>2, <1>3, <2>1, InitInPids DEF TreeInv, Exists
  <2>2. CASE c # next
    BY <1>1, <1>2, <2>2, InitInPids, ZenonT(30) DEF TreeInv, Exists
  <2> QED BY <2>1, <2>2
<1> QED BY <1>1, <1>5, <1>6, <1>7, <1>8, <1>9, <1>10, ZenonT(30) DEF TreeInv, Exists

\* A new thread joins the group of its creator.
LEMMA CloneTree ==
    ASSUME TreeInv, NEW p \in Pids, CloneThread(p)
    PROVE  TreeInv' /\ leader[p] # next
<1>1. /\ next <= MaxPid /\ next' = next + 1 /\ task[p] = "run"
      /\ task' = [task EXCEPT ![next] = "run"]
      /\ leader' = [leader EXCEPT ![next] = leader[p]]
      /\ UNCHANGED <<parent, children, reaped>>
  BY DEF CloneThread, Runs
<1>2. /\ next \in Pids /\ ~Exists(next) /\ next # InitPid
      /\ \A q \in Pids : Exists(q)' <=> Exists(q) \/ q = next
  BY <1>1, NewPid
<1>3. Exists(p) /\ Exists(leader[p]) /\ leader[p] # next /\ leader[p] \in Pids
  BY <1>1, <1>2 DEF TreeInv
<1>4. next' \in Nat /\ 2 <= next'
  BY <1>1 DEF TreeInv
<1>5. /\ task' \in [Pids -> {"none", "run", "wait", "gone"}]
      /\ leader' \in [Pids -> Pids] /\ leader'[InitPid] = InitPid
      /\ \A q \in Pids : task'[q] # "none" => Exists(q)'
  BY <1>1, <1>2, <1>3, InitInPids DEF TreeInv
<1>6. \A q \in Pids : IF q < next' THEN leader'[q] < next' ELSE leader'[q] = q /\ reaped[q] = 0
  <2> SUFFICES ASSUME NEW q \in Pids
               PROVE  IF q < next' THEN leader'[q] < next' ELSE leader'[q] = q /\ reaped[q] = 0
    OBVIOUS
  <2>1. CASE q = next
    BY <1>1, <1>2, <1>3, <2>1, InitInPids, ZenonT(30) DEF TreeInv, Exists
  <2>2. CASE q # next
    BY <1>1, <1>2, <2>2, InitInPids, ZenonT(30) DEF TreeInv, Exists
  <2> QED BY <2>1, <2>2
<1>7. \A c \in Pids \ {InitPid} :
            c < next' /\ leader'[c] = c => parent[c] \in Pids /\ parent[c] < next'
  BY <1>1, <1>2, <1>3, InitInPids, SMTT(30) DEF TreeInv, Exists
<1>8. \A g, c \in Pids : IsChild(c, children[g]) => Exists(c)'
  BY <1>2 DEF TreeInv
<1>9. TreeInv'
  BY <1>1, <1>4, <1>5, <1>6, <1>7, <1>8 DEF TreeInv, Exists
<1> QED BY <1>3, <1>9

\* What do_exit does to the lists and the parents where it does not hang.
LEMMA DoExitLists ==
    ASSUME TreeInv, NEW p \in Pids, DoExit(p)
    PROVE  /\ children' \in [Pids -> Seq(Pids)] /\ parent' \in [Pids -> Nat]
           /\ ~hung' => children[leader[p]] = <<>> \/ leader[p] # InitPid
           /\ \A g \in Pids \ {InitPid} : children'[g] = children[g]
           /\ \A c : IsChild(c, children[InitPid]) => IsChild(c, children'[InitPid])
           /\ \A c : IsChild(c, children'[InitPid]) =>
                        IsChild(c, children[InitPid]) \/ IsChild(c, children[leader[p]])
           /\ ~hung' => \A c : IsChild(c, children[leader[p]]) => IsChild(c, children'[InitPid])
           /\ \A c \in Pids : parent'[c] = IF IsChild(c, children[leader[p]]) THEN InitPid ELSE parent[c]
           /\ /\ Distinct(children[InitPid]) /\ Distinct(children[leader[p]])
              /\ ~hung' => \A c : ~(IsChild(c, children[InitPid]) /\ IsChild(c, children[leader[p]]))
              => Distinct(children'[InitPid])
<1>1. leader[InitPid] = InitPid /\ leader[p] \in Pids /\ InitPid \in Pids /\ InitPid \in Nat
  BY InitInPids DEF TreeInv
<1>2. PICK m \in Seq(Pids) : m = children[leader[p]]
  BY <1>1, ZenonT(30) DEF TreeInv
<1>3. /\ parent' = [c \in Pids |-> IF IsChild(c, m) THEN InitPid ELSE parent[c]]
      /\ children' = IF m # <<>> /\ leader[p] = InitPid THEN children
                     ELSE [children EXCEPT ![InitPid] = children[InitPid] \o m]
      /\ hung' = (m # <<>> /\ leader[p] = InitPid)
  BY <1>1, <1>2 DEF DoExit
<1>4. parent' \in [Pids -> Nat]
  BY <1>1, <1>3 DEF TreeInv
<1>5. /\ children[InitPid] \o m \in Seq(Pids)
      /\ \A c : IsChild(c, children[InitPid] \o m) <=> IsChild(c, children[InitPid]) \/ IsChild(c, m)
      /\ /\ Distinct(children[InitPid]) /\ Distinct(m)
         /\ \A c : ~(IsChild(c, children[InitPid]) /\ IsChild(c, m))
         => Distinct(children[InitPid] \o m)
  BY <1>1, ExtendChildren DEF TreeInv
<1> QED BY <1>1, <1>2, <1>3, <1>4, <1>5, ZenonT(30) DEF TreeInv

\* do_exit gives the children of a group that ends to init.
LEMMA DoExitTree ==
    ASSUME TreeInv, NEW p \in Pids, task[p] = "run", DoExit(p)
    PROVE  TreeInv'
<1>1. task' = [task EXCEPT ![p] = "gone"] /\ UNCHANGED <<next, leader, reaped>>
  BY DEF DoExit
<1>2. /\ children' \in [Pids -> Seq(Pids)] /\ parent' \in [Pids -> Nat]
      /\ \A g \in Pids \ {InitPid} : children'[g] = children[g]
      /\ \A c : IsChild(c, children'[InitPid]) =>
                   IsChild(c, children[InitPid]) \/ IsChild(c, children[leader[p]])
      /\ \A c \in Pids : parent'[c] = IF IsChild(c, children[leader[p]]) THEN InitPid ELSE parent[c]
  BY DoExitLists
<1>3. leader[p] \in Pids /\ InitPid \in Pids
  BY InitInPids DEF TreeInv
<1>4. \A g, c \in Pids : IsChild(c, children'[g]) => c < next
  BY <1>2, <1>3, ZenonT(30) DEF TreeInv, Exists
<1>5. \A c \in Pids \ {InitPid} : c < next /\ leader[c] = c => parent'[c] \in Pids /\ parent'[c] < next
  <2>1. InitPid < next
    BY DEF TreeInv, InitPid
  <2> QED BY <1>2, <1>3, <2>1, ZenonT(30) DEF TreeInv, Exists
<1>6. /\ task' \in [Pids -> {"none", "run", "wait", "gone"}]
      /\ \A q \in Pids : task'[q] # "none" => task[q] # "none"
  BY <1>1 DEF TreeInv
<1> QED BY <1>1, <1>2, <1>4, <1>5, <1>6, ZenonT(30) DEF TreeInv, Exists

\* A child is taken off the list.
LEMMA ReapList ==
    ASSUME TreeInv, NEW p \in Pids, Reap(p)
    PROVE  \E c \in Pids :
              /\ children' \in [Pids -> Seq(Pids)]
              /\ \A g \in Pids \ {leader[p]} : children'[g] = children[g]
              /\ IsChild(c, children[leader[p]])
              /\ \A d : IsChild(d, children'[leader[p]]) => IsChild(d, children[leader[p]])
              /\ \A d : IsChild(d, children[leader[p]]) /\ d # c => IsChild(d, children'[leader[p]])
              /\ Distinct(children[leader[p]]) =>
                    Distinct(children'[leader[p]]) /\ ~IsChild(c, children'[leader[p]])
              /\ reaped' = [reaped EXCEPT ![c] = reaped[c] + 1]
<1>1. PICK g \in Pids : g = leader[p]
  BY DEF TreeInv
<1>2. PICK s \in Seq(Pids) : s = children[g]
  BY DEF TreeInv
<1>3. PICK i \in 1..Len(s) :
        /\ children' = [children EXCEPT ![g] = SubSeq(s, 1, i - 1) \o SubSeq(s, i + 1, Len(s))]
        /\ reaped' = [reaped EXCEPT ![s[i]] = reaped[s[i]] + 1]
  BY <1>1, <1>2, ZenonT(30) DEF Reap, Stopped
<1>4. PICK c \in Pids : c = s[i]
  OBVIOUS
<1>5. IsChild(c, s)
  BY <1>4 DEF IsChild
<1> DEFINE r == SubSeq(s, 1, i - 1) \o SubSeq(s, i + 1, Len(s))
<1>6. /\ r \in Seq(Pids)
      /\ \A d : IsChild(d, r) => IsChild(d, s)
      /\ \A d : IsChild(d, s) /\ d # s[i] => IsChild(d, r)
      /\ Distinct(s) => Distinct(r) /\ ~IsChild(s[i], r)
  BY RemoveChild
<1> HIDE DEF r
<1>7. /\ children' \in [Pids -> Seq(Pids)] /\ children'[g] = r
      /\ \A h \in Pids \ {g} : children'[h] = children[h]
  BY <1>3, <1>6, ZenonT(30) DEF TreeInv, r
<1> QED BY <1>1, <1>2, <1>3, <1>4, <1>5, <1>6, <1>7, ZenonT(30)

\* Every step keeps the lists, leaders and parents among the existing
\* processes.
LEMMA TreeInvStep == TreeInv /\ [Next]_vars => TreeInv'
<1> SUFFICES ASSUME TreeInv, [Next]_vars PROVE TreeInv'
  OBVIOUS
<1>1. ASSUME NEW p \in Pids, Exit(p) \/ ExitGroup(p) \/ Leave(p)
      PROVE  TreeInv'
  BY <1>1, DoExitTree DEF Exit, ExitGroup, Leave, Runs
<1>2. ASSUME NEW p \in Pids, Wait(p) \/ WaitNoHang(p)
      PROVE  TreeInv'
  <2>1. /\ task[p] \in {"run", "wait"}
        /\ task' = [task EXCEPT ![p] = "run"] \/ task' = [task EXCEPT ![p] = "wait"]
        /\ UNCHANGED <<next, leader, parent, children, reaped>>
    BY <1>2 DEF Wait, WaitNoHang, Runs
  <2> QED BY <2>1, ZenonT(30) DEF TreeInv, Exists
<1>3. ASSUME NEW p \in Pids, Reap(p)
      PROVE  TreeInv'
  <2>1. /\ task[p] = "wait" /\ task' = [task EXCEPT ![p] = "run"]
        /\ UNCHANGED <<next, leader, parent>>
    BY <1>3 DEF Reap
  <2>2. PICK c \in Pids :
        /\ children' \in [Pids -> Seq(Pids)]
        /\ \A g \in Pids \ {leader[p]} : children'[g] = children[g]
        /\ IsChild(c, children[leader[p]])
        /\ \A d : IsChild(d, children'[leader[p]]) => IsChild(d, children[leader[p]])
        /\ reaped' = [reaped EXCEPT ![c] = reaped[c] + 1]
    BY <1>3, ReapList, ZenonT(30)
  <2>3. leader[p] \in Pids /\ c < next
    BY <2>2 DEF TreeInv, Exists
  <2>4. \A g, d \in Pids : IsChild(d, children'[g]) => d < next
    BY <2>2, <2>3, ZenonT(30) DEF TreeInv, Exists
  <2>5. reaped' \in [Pids -> Nat] /\ \A q \in Pids : ~(q < next) => reaped'[q] = reaped[q]
    <3>1. reaped[c] + 1 \in Nat /\ reaped \in [Pids -> Nat]
      BY DEF TreeInv
    <3>2. reaped' \in [Pids -> Nat]
      BY <2>2, <3>1
    <3>3. \A q \in Pids : ~(q < next) => reaped'[q] = reaped[q]
      BY <2>2, <2>3, <3>1
    <3> QED BY <3>2, <3>3
  <2> QED BY <2>1, <2>2, <2>4, <2>5, ZenonT(30) DEF TreeInv, Exists
<1>4. CASE UNCHANGED vars
  BY <1>4 DEF TreeInv, Exists, vars
<1> QED BY <1>1, <1>2, <1>3, <1>4, ForkTree, CloneTree DEF Next

\* At the start there is init alone.
LEMMA TreeInvInit == Init => TreeInv
<1> SUFFICES ASSUME Init PROVE TreeInv
  OBVIOUS
<1>1. \A g \in Pids : children[g] = <<>>
  BY DEF Init
<1>2. \A g, c \in Pids : ~IsChild(c, children[g])
  BY <1>1 DEF IsChild
<1>3. children \in [Pids -> Seq(Pids)]
  BY DEF Init
<1>4. \A p \in Pids : p < 2 <=> p = InitPid
  BY InitInPids DEF InitPid, Pids
<1> QED BY <1>2, <1>3, <1>4, InitInPids DEF Init, TreeInv, Exists

-------------------------------------------------------------------------------
(* do_exit loses no child. *)

\* NoOrphan for one child, in the state after a step.
LEMMA OrphanNext ==
    ASSUME ~hung' => \A c \in Pids \ {InitPid} :
               c < next' /\ leader'[c] = c /\ reaped'[c] = 0 =>
                   \E g : /\ g = leader'[parent'[c]] /\ IsChild(c, children'[g])
                          /\ g = InitPid \/ \E q \in Pids : q < next' /\ leader'[q] = g /\ task'[q] # "gone"
    PROVE  NoOrphan'
BY DEF NoOrphan, GroupLives, Members, Exists

\* What NoOrphan says of one process: it is in the list of its parent's group,
\* which lives or is init's.
LEMMA Cared ==
    ASSUME TreeInv, NoOrphan, ~hung, NEW c \in Pids \ {InitPid}, c < next, leader[c] = c, reaped[c] = 0
    PROVE  \E g \in Pids :
              /\ g = leader[parent[c]] /\ IsChild(c, children[g]) /\ parent[c] \in Pids /\ parent[c] < next
              /\ g = InitPid \/ \E q \in Pids : q < next /\ leader[q] = g /\ task[q] # "gone"
<1> DEFINE g == leader[parent[c]]
<1>1. parent[c] \in Pids /\ parent[c] < next /\ g \in Pids
  BY DEF TreeInv, Exists
<1>2. IsChild(c, children[g]) /\ (GroupLives(g) \/ g = InitPid)
  BY Zenon DEF NoOrphan, Exists
<1>3. GroupLives(g) => \E q \in Pids : q < next /\ leader[q] = g /\ task[q] # "gone"
  BY Zenon DEF GroupLives, Members, Exists
<1> QED BY <1>1, <1>2, <1>3, Zenon

\* A clone of a process puts the child into the list of its parent's group.
LEMMA ForkOrphan ==
    ASSUME TreeInv, NoOrphan, NEW p \in Pids, Fork(p)
    PROVE  NoOrphan'
<1>1. /\ ~hung /\ next <= MaxPid /\ next' = next + 1 /\ task[p] = "run"
      /\ task' = [task EXCEPT ![next] = "run"]
      /\ parent' = [parent EXCEPT ![next] = p]
      /\ children' = [children EXCEPT ![leader[p]] = Append(children[leader[p]], next)]
      /\ UNCHANGED <<leader, reaped>>
  BY DEF Fork, Runs
<1>2. /\ next \in Pids /\ ~Exists(next) /\ next # InitPid
      /\ \A q \in Pids : q < next' <=> q < next \/ q = next
  BY <1>1, NewPid DEF Exists
<1>3. p < next /\ leader[p] \in Pids
  BY <1>1 DEF TreeInv, Exists
<1>4. \A c : IsChild(c, Append(children[leader[p]], next)) <=> IsChild(c, children[leader[p]]) \/ c = next
  BY <1>2, <1>3, AppendChild, ZenonT(30) DEF TreeInv
<1>5. \A g \in Pids : \A c : IsChild(c, children[g]) => IsChild(c, children'[g])
  BY <1>1, <1>4 DEF TreeInv
<1>6. IsChild(next, children'[leader[p]])
  BY <1>1, <1>3, <1>4 DEF TreeInv
<1>7. \A q \in Pids : q < next /\ task[q] # "gone" => q < next' /\ task'[q] # "gone"
  BY <1>1, <1>2 DEF TreeInv
<1>8. ASSUME NEW c \in Pids \ {InitPid}, c < next', leader'[c] = c, reaped'[c] = 0
      PROVE  \E g : /\ g = leader'[parent'[c]] /\ IsChild(c, children'[g])
                    /\ g = InitPid \/ \E q \in Pids : q < next' /\ leader'[q] = g /\ task'[q] # "gone"
  <2>1. CASE c = next
    <3>1. parent'[c] = p
      BY <1>1, <2>1 DEF TreeInv
    <3> QED BY <1>1, <1>3, <1>6, <1>7, <2>1, <3>1
  <2>2. CASE c # next
    <3>1. c < next /\ leader[c] = c /\ reaped[c] = 0 /\ parent'[c] = parent[c]
      BY <1>1, <1>2, <1>8, <2>2 DEF TreeInv
    <3>2. PICK g \in Pids :
          /\ g = leader[parent[c]] /\ IsChild(c, children[g])
          /\ g = InitPid \/ \E q \in Pids : q < next /\ leader[q] = g /\ task[q] # "gone"
      BY <1>1, <3>1, Cared
    <3>3. g = leader'[parent'[c]] /\ IsChild(c, children'[g])
      BY <1>1, <1>5, <3>1, <3>2
    <3>4. g = InitPid \/ \E q \in Pids : q < next' /\ leader'[q] = g /\ task'[q] # "gone"
      BY <1>1, <1>7, <3>2
    <3> QED BY <3>3, <3>4
  <2> QED BY <2>1, <2>2
<1> QED BY <1>8, OrphanNext

\* A new thread takes no child away from a group.
LEMMA CloneOrphan ==
    ASSUME TreeInv, NoOrphan, NEW p \in Pids, CloneThread(p)
    PROVE  NoOrphan'
<1>1. /\ ~hung /\ next <= MaxPid /\ next' = next + 1
      /\ task' = [task EXCEPT ![next] = "run"]
      /\ leader' = [leader EXCEPT ![next] = leader[p]]
      /\ UNCHANGED <<parent, children, reaped>>
  BY DEF CloneThread, Runs
<1>2. next \in Pids /\ \A q \in Pids : q < next' <=> q < next \/ q = next
  BY <1>1, NewPid DEF Exists
<1>3. leader[p] # next
  BY CloneTree
<1>4. \A q \in Pids : q < next => q # next /\ q < next' /\ leader'[q] = leader[q] /\ task'[q] = task[q]
  BY <1>1, <1>2, InitInPids DEF TreeInv
<1>5. ASSUME NEW c \in Pids \ {InitPid}, c < next', leader'[c] = c, reaped'[c] = 0
      PROVE  \E g : /\ g = leader'[parent'[c]] /\ IsChild(c, children'[g])
                    /\ g = InitPid \/ \E q \in Pids : q < next' /\ leader'[q] = g /\ task'[q] # "gone"
  <2>1. c < next /\ leader[c] = c /\ reaped[c] = 0
    BY <1>1, <1>2, <1>3, <1>4, <1>5 DEF TreeInv
  <2>2. PICK g \in Pids :
        /\ g = leader[parent[c]] /\ IsChild(c, children[g]) /\ parent[c] \in Pids /\ parent[c] < next
        /\ g = InitPid \/ \E q \in Pids : q < next /\ leader[q] = g /\ task[q] # "gone"
    BY <1>1, <2>1, Cared
  <2>3. g = leader'[parent'[c]] /\ IsChild(c, children'[g])
    BY <1>1, <1>4, <2>2
  <2>4. g = InitPid \/ \E q \in Pids : q < next' /\ leader'[q] = g /\ task'[q] # "gone"
    BY <1>4, <2>2
  <2> QED BY <2>3, <2>4
<1> QED BY <1>5, OrphanNext

\* The last process of a group hands over every child it has not waited for.
LEMMA DoExitOrphan ==
    ASSUME TreeInv, NoOrphan, ~hung, NEW p \in Pids, DoExit(p)
    PROVE  NoOrphan'
<1>1. task' = [task EXCEPT ![p] = "gone"] /\ UNCHANGED <<next, leader, reaped>>
  BY DEF DoExit
<1>2. /\ ~hung' => children[leader[p]] = <<>> \/ leader[p] # InitPid
      /\ \A g \in Pids \ {InitPid} : children'[g] = children[g]
      /\ \A c : IsChild(c, children[InitPid]) => IsChild(c, children'[InitPid])
      /\ ~hung' => \A c : IsChild(c, children[leader[p]]) => IsChild(c, children'[InitPid])
      /\ \A c \in Pids : parent'[c] = IF IsChild(c, children[leader[p]]) THEN InitPid ELSE parent[c]
  BY DoExitLists
<1>3. leader[InitPid] = InitPid
  BY DEF TreeInv
<1>4. ASSUME ~hung', NEW c \in Pids \ {InitPid}, c < next', leader'[c] = c, reaped'[c] = 0
      PROVE  \E g : /\ g = leader'[parent'[c]] /\ IsChild(c, children'[g])
                    /\ g = InitPid \/ \E q \in Pids : q < next' /\ leader'[q] = g /\ task'[q] # "gone"
  <2>1. PICK g \in Pids :
        /\ g = leader[parent[c]] /\ IsChild(c, children[g])
        /\ g = InitPid \/ \E q \in Pids : q < next /\ leader[q] = g /\ task[q] # "gone"
    BY <1>1, <1>4, Cared
  <2>2. CASE IsChild(c, children[leader[p]])
    <3>1. parent'[c] = InitPid /\ IsChild(c, children'[InitPid])
      BY <1>2, <1>4, <2>2
    <3> QED BY <1>1, <1>3, <3>1
  <2>3. CASE ~IsChild(c, children[leader[p]])
    <3>1. parent'[c] = parent[c] /\ g # leader[p]
      BY <1>2, <2>1, <2>3
    <3>2. IsChild(c, children'[g])
      BY <1>2, <2>1
    <3>3. g = InitPid \/ \E q \in Pids : q < next /\ leader[q] = g /\ task'[q] # "gone"
      BY <1>1, <2>1, <3>1, ZenonT(30) DEF TreeInv
    <3> QED BY <1>1, <2>1, <3>1, <3>2, <3>3
  <2> QED BY <2>2, <2>3
<1> QED BY <1>4, OrphanNext

\* A wait removes from a list only the child it marks as waited for.
LEMMA WaitOrphan ==
    ASSUME TreeInv, NoOrphan, NEW p \in Pids, Wait(p) \/ Reap(p) \/ WaitNoHang(p)
    PROVE  NoOrphan'
<1>1. /\ ~hung /\ UNCHANGED <<next, leader, parent, hung>>
      /\ task' = [task EXCEPT ![p] = "run"] \/ task' = [task EXCEPT ![p] = "wait"]
  BY DEF Wait, Reap, WaitNoHang, Runs
<1>2. \A q \in Pids : task[q] # "gone" => task'[q] # "gone"
  BY <1>1 DEF TreeInv
<1>3. \A c \in Pids : reaped'[c] = 0 =>
         reaped[c] = 0 /\ \A g \in Pids : IsChild(c, children[g]) => IsChild(c, children'[g])
  <2>1. CASE Reap(p)
    <3>1. PICK c \in Pids :
            /\ \A g \in Pids \ {leader[p]} : children'[g] = children[g]
            /\ \A d : IsChild(d, children[leader[p]]) /\ d # c => IsChild(d, children'[leader[p]])
            /\ reaped' = [reaped EXCEPT ![c] = reaped[c] + 1]
      BY <2>1, ReapList, ZenonT(30)
    <3>2. reaped'[c] # 0 /\ \A d \in Pids \ {c} : reaped'[d] = reaped[d]
      BY <3>1 DEF TreeInv
    <3> QED BY <3>1, <3>2
  <2>2. CASE Wait(p) \/ WaitNoHang(p)
    BY <2>2 DEF Wait, WaitNoHang
  <2> QED BY <2>1, <2>2
<1>4. ASSUME NEW c \in Pids \ {InitPid}, c < next', leader'[c] = c, reaped'[c] = 0
      PROVE  \E g : /\ g = leader'[parent'[c]] /\ IsChild(c, children'[g])
                    /\ g = InitPid \/ \E q \in Pids : q < next' /\ leader'[q] = g /\ task'[q] # "gone"
  <2>1. PICK g \in Pids :
        /\ g = leader[parent[c]] /\ IsChild(c, children[g])
        /\ g = InitPid \/ \E q \in Pids : q < next /\ leader[q] = g /\ task[q] # "gone"
    BY <1>1, <1>3, <1>4, Cared
  <2> QED BY <1>1, <1>2, <1>3, <1>4, <2>1
<1> QED BY <1>4, OrphanNext

\* A process that nobody has waited for stays in the list in which its parent's
\* wait looks, and that parent still runs or is init, in whatever order parents,
\* children and threads end (lproc.rs 258-288): NoOrphan is an invariant.
THEOREM NoOrphanHolds == Spec => []NoOrphan
<1>1. Init => NoOrphan
  <2>1. \A c \in Pids \ {InitPid} : ~(c < 2)
    BY InitInPids DEF InitPid, Pids
  <2> QED BY <2>1 DEF Init, NoOrphan, Exists
<1>2. TreeInv /\ NoOrphan /\ [Next]_vars => NoOrphan'
  <2> SUFFICES ASSUME TreeInv, NoOrphan, [Next]_vars PROVE NoOrphan'
    OBVIOUS
  <2>1. ASSUME NEW p \in Pids, Exit(p) \/ ExitGroup(p) \/ Leave(p)
        PROVE  NoOrphan'
    BY <2>1, DoExitOrphan DEF Exit, ExitGroup, Leave, Runs
  <2>2. CASE UNCHANGED vars
    BY <2>2 DEF vars, NoOrphan, GroupLives, Members, Exists
  <2> QED BY <2>1, <2>2, ForkOrphan, CloneOrphan, WaitOrphan DEF Next
<1> QED BY <1>1, <1>2, TreeInvInit, TreeInvStep, PTL DEF Spec

-------------------------------------------------------------------------------
(* A child is waited for once, as long as no thread has been created. *)

Unthreaded == \A p \in Pids : leader[p] = p

\* A list in which a wait may still look.  The list of a process that is gone
\* keeps its children, which are init's by then.
OpenList(g) == task[g] # "gone" \/ g = InitPid

\* The lists that are open share no child, and hold no child that has been
\* waited for.
OnceInv ==
    /\ \A g, h \in Pids : OpenList(g) /\ OpenList(h) =>
           \A c : IsChild(c, children[g]) /\ IsChild(c, children[h]) => g = h
    /\ \A g \in Pids : OpenList(g) => Distinct(children[g])
    /\ \A g, c \in Pids : OpenList(g) /\ IsChild(c, children[g]) => reaped[c] = 0
    /\ \A c \in Pids : reaped[c] <= 1

\* A new process has not been waited for and is in no other list.
LEMMA ForkOnce ==
    ASSUME TreeInv, Unthreaded, OnceInv, NEW p \in Pids, Fork(p)
    PROVE  OnceInv'
<1>1. /\ next <= MaxPid /\ next' = next + 1 /\ task[p] = "run"
      /\ task' = [task EXCEPT ![next] = "run"]
      /\ children' = [children EXCEPT ![p] = Append(children[p], next)]
      /\ UNCHANGED reaped
  BY ZenonT(30) DEF Fork, Runs, Unthreaded
<1>2. next \in Pids /\ ~Exists(next) /\ task[next] = "none"
  <2>1. next \in Pids /\ ~Exists(next)
    BY <1>1, NewPid
  <2> QED BY <2>1 DEF TreeInv
<1>3. \A g \in Pids : (OpenList(g))' <=> OpenList(g)
  BY <1>1, <1>2 DEF TreeInv, OpenList
<1>4. reaped[next] = 0 /\ \A g \in Pids : ~IsChild(next, children[g])
  BY <1>2 DEF TreeInv
<1>5. PICK s \in Seq(Pids) : s = Append(children[p], next)
  BY <1>2, AppendChild, ZenonT(30) DEF TreeInv
<1>6. /\ \A c : IsChild(c, s) <=> IsChild(c, children[p]) \/ c = next
      /\ Distinct(children[p]) => Distinct(s)
  BY <1>2, <1>4, <1>5, AppendChild DEF TreeInv
<1>7. children'[p] = s /\ \A g \in Pids \ {p} : children'[g] = children[g]
  BY <1>1, <1>5 DEF TreeInv
<1>8. OpenList(p)
  BY <1>1 DEF OpenList
<1>9. ASSUME NEW g \in Pids, NEW h \in Pids, OpenList(g), OpenList(h),
             NEW c, IsChild(c, children'[g]), IsChild(c, children'[h])
      PROVE  g = h
  <2>1. \A k \in Pids : IsChild(c, children'[k]) => IsChild(c, children[k]) \/ (k = p /\ c = next)
    BY <1>6, <1>7, Zenon
  <2>2. \A k \in Pids : IsChild(next, children[k]) => FALSE
    BY <1>4, Zenon
  <2>3. c = next => g = p /\ h = p
    BY <1>9, <2>1, <2>2, Zenon
  <2> QED BY <1>9, <2>1, <2>3, Zenon DEF OnceInv
<1>10. \A g \in Pids : OpenList(g) => Distinct(children'[g])
  BY <1>6, <1>7 DEF OnceInv
<1>11. \A g, c \in Pids : OpenList(g) /\ IsChild(c, children'[g]) => reaped[c] = 0
  BY <1>4, <1>6, <1>7 DEF OnceInv
<1> QED BY <1>1, <1>3, <1>9, <1>10, <1>11 DEF OnceInv

\* The children that init takes over leave no list in which a wait may look.
LEMMA DoExitOnce ==
    ASSUME TreeInv, Unthreaded, OnceInv, NEW p \in Pids, task[p] = "run", DoExit(p)
    PROVE  OnceInv'
<1>1. task' = [task EXCEPT ![p] = "gone"] /\ UNCHANGED reaped /\ leader[p] = p
  BY DEF DoExit, Unthreaded
<1>2. /\ ~hung' => children[p] = <<>> \/ p # InitPid
      /\ \A g \in Pids \ {InitPid} : children'[g] = children[g]
      /\ \A c : IsChild(c, children'[InitPid]) =>
                   IsChild(c, children[InitPid]) \/ IsChild(c, children[p])
      /\ /\ Distinct(children[InitPid]) /\ Distinct(children[p])
         /\ ~hung' => \A c : ~(IsChild(c, children[InitPid]) /\ IsChild(c, children[p]))
         => Distinct(children'[InitPid])
  BY <1>1, DoExitLists
<1>3. OpenList(p) /\ OpenList(InitPid) /\ InitPid \in Pids
  BY InitInPids DEF OpenList
<1>4. \A g \in Pids : (OpenList(g))' => OpenList(g) /\ (g # p \/ g = InitPid)
  BY <1>1 DEF TreeInv, OpenList
<1>5. ~hung' => \A c : ~(IsChild(c, children[InitPid]) /\ IsChild(c, children[p]))
  <2>1. CASE p # InitPid
    BY <1>3, <2>1 DEF OnceInv
  <2>2. CASE children[p] = <<>>
    BY <2>2 DEF IsChild
  <2> QED BY <1>2, <2>1, <2>2
<1>6. Distinct(children'[InitPid])
  BY <1>2, <1>3, <1>5 DEF OnceInv
<1>7. ASSUME NEW g \in Pids, NEW h \in Pids, g # h, (OpenList(g))', (OpenList(h))',
             NEW c, IsChild(c, children'[g]), IsChild(c, children'[h])
      PROVE  FALSE
  <2>1. OpenList(g) /\ OpenList(h) /\ (g # p \/ g = InitPid) /\ (h # p \/ h = InitPid)
    BY <1>4, <1>7
  <2>2. \A k \in Pids \ {InitPid} : IsChild(c, children'[k]) => IsChild(c, children[k])
    BY <1>2
  <2> QED BY <1>2, <1>3, <1>7, <2>1, <2>2 DEF OnceInv
<1>8. \A g \in Pids : (OpenList(g))' => Distinct(children'[g])
  BY <1>2, <1>4, <1>6 DEF OnceInv
<1>9. \A g, c \in Pids : (OpenList(g))' /\ IsChild(c, children'[g]) => reaped[c] = 0
  BY <1>2, <1>3, <1>4 DEF OnceInv
<1> QED BY <1>1, <1>7, <1>8, <1>9 DEF OnceInv

\* Who has been waited for is taken out of the only list it is in.
LEMMA ReapOnce ==
    ASSUME TreeInv, Unthreaded, OnceInv, NEW p \in Pids, Reap(p)
    PROVE  OnceInv'
<1>1. task[p] = "wait" /\ task' = [task EXCEPT ![p] = "run"] /\ leader[p] = p
  BY DEF Reap, Unthreaded
<1>2. PICK c \in Pids :
         /\ \A g \in Pids \ {p} : children'[g] = children[g]
         /\ IsChild(c, children[p])
         /\ \A d : IsChild(d, children'[p]) => IsChild(d, children[p])
         /\ Distinct(children[p]) => Distinct(children'[p]) /\ ~IsChild(c, children'[p])
         /\ reaped' = [reaped EXCEPT ![c] = reaped[c] + 1]
  <2>1. PICK c \in Pids :
           /\ \A g \in Pids \ {leader[p]} : children'[g] = children[g]
           /\ IsChild(c, children[leader[p]])
           /\ \A d : IsChild(d, children'[leader[p]]) => IsChild(d, children[leader[p]])
           /\ Distinct(children[leader[p]]) =>
                 Distinct(children'[leader[p]]) /\ ~IsChild(c, children'[leader[p]])
           /\ reaped' = [reaped EXCEPT ![c] = reaped[c] + 1]
    BY ReapList, ZenonT(30)
  <2> QED BY <1>1, <2>1, ZenonT(30)
<1>3. \A g \in Pids : (OpenList(g))' <=> OpenList(g)
  BY <1>1 DEF TreeInv, OpenList
<1>4. OpenList(p) /\ reaped[c] = 0
  BY <1>1, <1>2 DEF OpenList, OnceInv
<1>5. reaped'[c] = 1 /\ \A d \in Pids \ {c} : reaped'[d] = reaped[d]
  BY <1>2, <1>4 DEF TreeInv
<1>6. \A g \in Pids : \A d : IsChild(d, children'[g]) => IsChild(d, children[g])
  BY <1>2
<1>7. \A g \in Pids : OpenList(g) => Distinct(children'[g]) /\ ~IsChild(c, children'[g])
  <2>1. Distinct(children'[p]) /\ ~IsChild(c, children'[p])
    BY <1>2, <1>4 DEF OnceInv
  <2>2. \A g \in Pids \ {p} : OpenList(g) => Distinct(children[g]) /\ ~IsChild(c, children[g])
    BY <1>2, <1>4 DEF OnceInv
  <2> QED BY <1>2, <2>1, <2>2
<1>8. \A g, d \in Pids : OpenList(g) /\ IsChild(d, children'[g]) => reaped'[d] = 0
  BY <1>5, <1>6, <1>7 DEF OnceInv
<1>9. \A d \in Pids : reaped'[d] <= 1
  BY <1>5 DEF OnceInv
<1>10. \A g, h \in Pids : OpenList(g) /\ OpenList(h) =>
          \A d : IsChild(d, children'[g]) /\ IsChild(d, children'[h]) => g = h
  BY <1>6, Zenon DEF OnceInv
<1> QED BY <1>3, <1>7, <1>8, <1>9, <1>10, Zenon DEF OnceInv

\* While every process is the leader of its own group, wait returns it at most
\* once (process.rs 179-184): the children that do_exit hands to init stay in
\* the list of the dead parent (lproc.rs 277), where no wait looks again.
THEOREM ReapedOnceHolds == Spec => []ReapedOnce
<1>1. Init => (Unthreaded => OnceInv)
  <2> SUFFICES ASSUME Init PROVE OnceInv
    OBVIOUS
  <2>1. \A g \in Pids : Distinct(children[g]) /\ \A c : ~IsChild(c, children[g])
    BY DEF Init, Distinct, IsChild
  <2>2. \A c \in Pids : reaped[c] = 0
    BY DEF Init
  <2> QED BY <2>1, <2>2 DEF OnceInv
<1>2. TreeInv /\ (Unthreaded => OnceInv) /\ [Next]_vars => (Unthreaded => OnceInv)'
  <2> SUFFICES ASSUME TreeInv, Unthreaded => OnceInv, [Next]_vars, Unthreaded'
               PROVE  OnceInv'
    OBVIOUS
  <2>1. ASSUME NEW p \in Pids, CloneThread(p)
        PROVE  FALSE
    <3>1. next <= MaxPid /\ next' = next + 1 /\ leader' = [leader EXCEPT ![next] = leader[p]] /\ leader[p] # next
      BY <2>1, CloneTree, ZenonT(30) DEF CloneThread
    <3>2. next \in Pids
      BY <3>1, NewPid
    <3> QED BY <3>1, <3>2 DEF Unthreaded, TreeInv
  <2>2. UNCHANGED leader
    BY <2>1, ZenonT(30) DEF Next, vars, Fork, Exit, ExitGroup, Leave, DoExit, Wait, Reap, WaitNoHang
  <2>3. Unthreaded /\ OnceInv
    BY <2>2 DEF Unthreaded
  <2>4. ASSUME NEW p \in Pids, Exit(p) \/ ExitGroup(p) \/ Leave(p)
        PROVE  OnceInv'
    BY <2>3, <2>4, DoExitOnce DEF Exit, ExitGroup, Leave, Runs
  <2>5. ASSUME NEW p \in Pids, Wait(p) \/ WaitNoHang(p)
        PROVE  OnceInv'
    <3>1. /\ task[p] # "gone" /\ UNCHANGED <<children, reaped>>
          /\ task' = [task EXCEPT ![p] = "run"] \/ task' = [task EXCEPT ![p] = "wait"]
      BY <2>5 DEF Wait, WaitNoHang, Runs
    <3>2. \A g \in Pids : (OpenList(g))' <=> OpenList(g)
      BY <3>1 DEF TreeInv, OpenList
    <3> QED BY <2>3, <3>1, <3>2 DEF OnceInv
  <2>6. CASE UNCHANGED vars
    BY <2>3, <2>6 DEF vars, OnceInv, OpenList
  <2> QED BY <2>1, <2>3, <2>4, <2>5, <2>6, ForkOnce, ReapOnce DEF Next
<1>3. (Unthreaded => OnceInv) => ReapedOnce
  BY DEF Unthreaded, OnceInv, ReapedOnce
<1> QED BY <1>1, <1>2, <1>3, TreeInvInit, TreeInvStep, PTL DEF Spec

-------------------------------------------------------------------------------
(* The descriptor table of a process. *)


\* What a pool at x with the recycled numbers r has to do with the table tb, for
\* the numbers that are not in nm, those dup3 has named: the open ones were
\* handed out;
Drawn(x, tb, nm) == \A n \in tb : n \notin nm => n < x

\* the recycled ones were handed out and are not open;
Free(x, r, tb, nm) ==
    \A i \in 1..Len(r) : r[i] \in nm \/ (r[i] < x /\ r[i] \notin tb)

\* each lies in the pool once;
Once(r, nm) == \A i, j \in 1..Len(r) : i # j /\ r[i] = r[j] => r[i] \in nm

\* and those that were handed out are open or recycled.
Kept(x, r, tb, nm) ==
    \A n \in Nat : n < x /\ n \notin nm => n \in tb \/ \E i \in 1..Len(r) : r[i] = n

PoolInv(x, r, tb, nm) ==
    /\ x \in Nat /\ r \in Seq(Nat) /\ tb \subseteq Nat
    /\ Drawn(x, tb, nm) /\ Free(x, r, tb, nm) /\ Once(r, nm) /\ Kept(x, r, tb, nm)

\* The inductive invariant.
FdInv ==
    /\ pool = [next |-> pool.next, recycled |-> pool.recycled]
    /\ PoolInv(pool.next, pool.recycled, table, named)
    /\ table \subseteq Fds
    /\ limit \in Nat

-------------------------------------------------------------------------------
(* The pool. *)

\* What a part of a sequence holds.
LEMMA PartOf ==
    ASSUME NEW r \in Seq(Nat), NEW a \in 1..(Len(r) + 1), NEW b \in (a - 1)..Len(r)
    PROVE  /\ SubSeq(r, a, b) \in Seq(Nat)
           /\ Len(SubSeq(r, a, b)) = b - a + 1
           /\ \A k \in 1..(b - a + 1) : SubSeq(r, a, b)[k] = r[a + k - 1]
<1>1. Len(r) \in Nat /\ a \in Nat /\ b \in Nat
  OBVIOUS
<1>2. \A k \in a..b : r[k] \in Nat
  BY <1>1
<1>3. SubSeq(r, a, b) \in Seq(Nat)
  BY <1>1, <1>2
<1>4. Len(SubSeq(r, a, b)) = b - a + 1
  BY <1>1
<1>5. \A k \in 1..(b - a + 1) : SubSeq(r, a, b)[k] = r[a + k - 1]
  BY <1>1
<1> QED BY <1>3, <1>4, <1>5, Zenon

\* A fresh number, at x, joins the table.
LEMMA FreshJoins ==
    ASSUME NEW x, NEW tb, NEW nm, PoolInv(x, <<>>, tb, nm)
    PROVE  PoolInv(x + 1, <<>>, tb \cup {x}, nm)
<1>1. x \in Nat /\ Len(<<>>) = 0
  BY DEF PoolInv
<1>2. Drawn(x + 1, tb \cup {x}, nm)
  BY <1>1 DEF PoolInv, Drawn
<1>3. Free(x + 1, <<>>, tb \cup {x}, nm) /\ Once(<<>>, nm)
  BY <1>1 DEF Free, Once
<1>4. Kept(x + 1, <<>>, tb \cup {x}, nm)
  BY <1>1 DEF PoolInv, Kept
<1> QED BY <1>1, <1>2, <1>3, <1>4 DEF PoolInv

\* q has the elements of r but the i-th, in an order that g gives.
Rearranges(r, i, q, g) ==
    /\ \A k \in 1..Len(q) : g[k] \in 1..Len(r) /\ g[k] # i /\ q[k] = r[g[k]]
    /\ \A k, l \in 1..Len(q) : k # l => g[k] # g[l]
    /\ \A j \in 1..Len(r) : j # i => \E k \in 1..Len(q) : g[k] = j

\* The i-th recycled number joins the table and the others stay, in some order.
LEMMA RecycledJoins ==
    ASSUME NEW x, NEW r, NEW tb, NEW nm, PoolInv(x, r, tb, nm),
           NEW i \in 1..Len(r), NEW q \in Seq(Nat), NEW g, Rearranges(r, i, q, g)
    PROVE  PoolInv(x, q, tb \cup {r[i]}, nm)
<1>1. r \in Seq(Nat) /\ Len(r) \in Nat /\ Len(q) \in Nat /\ r[i] \in Nat
  BY DEF PoolInv
<1>2. Drawn(x, tb \cup {r[i]}, nm)
  BY <1>1 DEF PoolInv, Drawn, Free
<1>3. Free(x, q, tb \cup {r[i]}, nm)
  <2> SUFFICES ASSUME NEW k \in 1..Len(q), q[k] \notin nm
               PROVE  q[k] < x /\ q[k] \notin tb /\ q[k] # r[i]
    BY DEF Free
  <2>1. g[k] \in 1..Len(r) /\ g[k] # i /\ q[k] = r[g[k]]
    BY DEF Rearranges
  <2> QED BY <2>1 DEF PoolInv, Free, Once
<1>4. Once(q, nm)
  <2> SUFFICES ASSUME NEW k \in 1..Len(q), NEW l \in 1..Len(q), k # l, q[k] = q[l]
               PROVE  q[k] \in nm
    BY DEF Once
  <2>1. /\ g[k] \in 1..Len(r) /\ q[k] = r[g[k]]
        /\ g[l] \in 1..Len(r) /\ q[l] = r[g[l]] /\ g[k] # g[l]
    BY DEF Rearranges
  <2> QED BY <2>1, Zenon DEF PoolInv, Once
<1>5. Kept(x, q, tb \cup {r[i]}, nm)
  <2> SUFFICES ASSUME NEW n \in Nat, n < x, n \notin nm, n \notin tb, n # r[i]
               PROVE  \E k \in 1..Len(q) : q[k] = n
    BY DEF Kept
  <2>1. PICK j \in 1..Len(r) : r[j] = n
    BY DEF PoolInv, Kept
  <2>2. PICK k \in 1..Len(q) : g[k] = j
    BY <2>1 DEF Rearranges
  <2> QED BY <2>1, <2>2, Zenon DEF Rearranges
<1> QED BY <1>1, <1>2, <1>3, <1>4, <1>5, Zenon DEF PoolInv

\* The recycled number that UsizePool::get draws is not open.
LEMMA RecycledIsClosed ==
    ASSUME NEW x, NEW r, NEW tb, NEW nm, PoolInv(x, r, tb, nm), NEW i \in 1..Len(r)
    PROVE  r[i] \in Nat /\ (r[i] \in tb => r[i] \in nm)
<1>1. r \in Seq(Nat)
  BY DEF PoolInv
<1>2. r[i] \in Nat
  BY <1>1
<1> QED BY <1>2 DEF PoolInv, Free

\* The last recycled number joins the table.
LEMMA LastJoins ==
    ASSUME NEW x, NEW r, NEW tb, NEW nm, PoolInv(x, r, tb, nm), r # <<>>
    PROVE  PoolInv(x, SubSeq(r, 1, Len(r) - 1), tb \cup {r[Len(r)]}, nm)
<1> DEFINE q == SubSeq(r, 1, Len(r) - 1)
           g == [k \in 1..(Len(r) - 1) |-> k]
<1>1. r \in Seq(Nat) /\ Len(r) \in Nat /\ Len(r) \in 1..Len(r)
  BY DEF PoolInv
<1>2. q \in Seq(Nat) /\ Len(q) = Len(r) - 1 /\ \A k \in 1..(Len(r) - 1) : q[k] = r[k]
  <2>1. 1 \in 1..(Len(r) + 1) /\ Len(r) - 1 \in (1 - 1)..Len(r)
    BY <1>1
  <2>2. /\ q \in Seq(Nat) /\ Len(q) = (Len(r) - 1) - 1 + 1
        /\ \A k \in 1..((Len(r) - 1) - 1 + 1) : q[k] = r[1 + k - 1]
    BY <1>1, <2>1, PartOf, Zenon
  <2> HIDE DEF q
  <2> QED BY <1>1, <2>2
<1> HIDE DEF q
<1>3. \A k \in 1..Len(q) : g[k] \in 1..Len(r) /\ g[k] # Len(r) /\ q[k] = r[g[k]]
  BY <1>1, <1>2
<1>4. \A k, l \in 1..Len(q) : k # l => g[k] # g[l]
  BY <1>2
<1>5. \A j \in 1..Len(r) : j # Len(r) => \E k \in 1..Len(q) : g[k] = j
  BY <1>1, <1>2
<1> HIDE DEF g
<1>6. Rearranges(r, Len(r), q, g)
  BY <1>3, <1>4, <1>5 DEF Rearranges
<1>7. PoolInv(x, q, tb \cup {r[Len(r)]}, nm)
  BY <1>1, <1>2, <1>6, RecycledJoins
<1> QED BY <1>7 DEF q

\* UsizePool::get: the number drawn joins the table, and is new there unless
\* dup3 has named it.
LEMMA GetOne ==
    ASSUME NEW pl, NEW tb, NEW nm, pl = [next |-> pl.next, recycled |-> pl.recycled],
           PoolInv(pl.next, pl.recycled, tb, nm)
    PROVE  LET a == AfterGet(pl)
           IN  /\ a = [next |-> a.next, recycled |-> a.recycled]
               /\ Got(pl) \in Nat
               /\ Got(pl) \in tb => Got(pl) \in nm
               /\ PoolInv(a.next, a.recycled, tb \cup {Got(pl)}, nm)
<1>1. CASE pl.recycled = <<>>
  <2>1. Got(pl) = pl.next /\ AfterGet(pl) = [next |-> pl.next + 1, recycled |-> <<>>]
    BY <1>1 DEF Got, AfterGet
  <2>2. pl.next \in Nat /\ (pl.next \in tb => pl.next \in nm)
    BY DEF PoolInv, Drawn
  <2>3. PoolInv(pl.next + 1, <<>>, tb \cup {pl.next}, nm)
    BY <1>1, FreshJoins
  <2> QED BY <2>1, <2>2, <2>3
<1>2. CASE pl.recycled # <<>>
  <2> DEFINE r == pl.recycled  q == SubSeq(r, 1, Len(r) - 1)
  <2>1. r \in Seq(Nat) /\ Len(r) \in 1..Len(r)
    BY <1>2 DEF PoolInv
  <2>2. Got(pl) = r[Len(r)] /\ AfterGet(pl) = [next |-> pl.next, recycled |-> q]
    BY <1>2 DEF Got, AfterGet
  <2>3. PoolInv(pl.next, q, tb \cup {r[Len(r)]}, nm)
    BY <1>2, LastJoins
  <2>4. r[Len(r)] \in Nat /\ (r[Len(r)] \in tb => r[Len(r)] \in nm)
    BY <2>1, RecycledIsClosed
  <2> HIDE DEF q
  <2> QED BY <2>2, <2>3, <2>4
<1> QED BY <1>1, <1>2

\* UsizePool::release of a number that leaves the table.
LEMMA ReleaseOne ==
    ASSUME NEW x, NEW r, NEW tb, NEW nm, PoolInv(x, r, tb, nm), NEW n \in tb
    PROVE  PoolInv(x, Append(r, n), tb \ {n}, nm)
<1> DEFINE q == Append(r, n)
<1>1. r \in Seq(Nat) /\ n \in Nat /\ Len(r) \in Nat
  BY DEF PoolInv
<1>2. /\ q \in Seq(Nat) /\ Len(q) = Len(r) + 1 /\ q[Len(r) + 1] = n
      /\ \A i \in 1..Len(r) : q[i] = r[i]
  BY <1>1
<1> HIDE DEF q
<1>3. Drawn(x, tb \ {n}, nm)
  BY DEF PoolInv, Drawn
<1>4. Free(x, q, tb \ {n}, nm)
  BY <1>1, <1>2 DEF PoolInv, Drawn, Free
<1>5. Once(q, nm)
  <2> SUFFICES ASSUME NEW i \in 1..Len(q), NEW j \in 1..Len(q), i # j, q[i] = q[j], q[i] \notin nm
               PROVE  FALSE
    BY DEF Once
  <2>1. \A k \in 1..Len(r) : r[k] \notin nm => r[k] # n
    BY DEF PoolInv, Free
  <2>2. i \in 1..Len(r) \/ i = Len(r) + 1
    BY <1>1, <1>2
  <2>3. j \in 1..Len(r) \/ j = Len(r) + 1
    BY <1>1, <1>2
  <2>4. \A k, l \in 1..Len(r) : k # l /\ r[k] = r[l] => r[k] \in nm
    BY DEF PoolInv, Once
  <2>5. CASE i \in 1..Len(r) /\ j \in 1..Len(r)
    BY <1>2, <2>4, <2>5
  <2>6. CASE ~(i \in 1..Len(r) /\ j \in 1..Len(r))
    BY <1>2, <2>1, <2>2, <2>3, <2>6, Zenon
  <2> QED BY <2>5, <2>6
<1>6. Kept(x, q, tb \ {n}, nm)
  <2> SUFFICES ASSUME NEW m \in Nat, m < x, m \notin nm, m \notin tb \ {n}
               PROVE  \E i \in 1..Len(q) : q[i] = m
    BY DEF Kept
  <2>1. CASE m = n
    BY <1>1, <1>2, <2>1
  <2>2. CASE m # n
    <3>1. PICK i \in 1..Len(r) : r[i] = m
      BY <2>2 DEF PoolInv, Kept
    <3> QED BY <1>1, <1>2, <3>1
  <2> QED BY <2>1, <2>2
<1> QED BY <1>2, <1>3, <1>4, <1>5, <1>6 DEF PoolInv, q

\* What two sequences hold, one behind the other.
LEMMA Joined ==
    ASSUME NEW a \in Seq(Nat), NEW c \in Seq(Nat)
    PROVE  /\ a \o c \in Seq(Nat)
           /\ Len(a \o c) = Len(a) + Len(c)
           /\ \A k \in 1..(Len(a) + Len(c)) :
                  (a \o c)[k] = IF k <= Len(a) THEN a[k] ELSE c[k - Len(a)]
<1>1. a \o c \in Seq(Nat) /\ Len(a \o c) = Len(a) + Len(c)
  OBVIOUS
<1>2. \A k \in 1..(Len(a) + Len(c)) : (a \o c)[k] = IF k <= Len(a) THEN a[k] ELSE c[k - Len(a)]
  OBVIOUS
<1> QED BY <1>1, <1>2

\* The i-th recycled number joins the table, and those above it come back in the
\* order in which the loop of FdTable::dup releases them.
LEMMA MiddleJoins ==
    ASSUME NEW x, NEW r, NEW tb, NEW nm, PoolInv(x, r, tb, nm), NEW i \in 1..Len(r)
    PROVE  PoolInv(x, SubSeq(r, 1, i - 1) \o [k \in 1..(Len(r) - i) |-> r[Len(r) - k + 1]],
                   tb \cup {r[i]}, nm)
<1> DEFINE L == Len(r)
           a == SubSeq(r, 1, i - 1)
           c == [k \in 1..(L - i) |-> r[L - k + 1]]
           q == a \o c
           g == [k \in 1..(L - 1) |-> IF k < i THEN k ELSE L + i - k]
<1>1. r \in Seq(Nat) /\ L \in Nat /\ i \in Nat /\ 1 <= i /\ i <= L
  BY DEF PoolInv
<1>2. a \in Seq(Nat) /\ Len(a) = i - 1 /\ \A k \in 1..(i - 1) : a[k] = r[k]
  <2>1. 1 \in 1..(L + 1) /\ i - 1 \in (1 - 1)..L
    BY <1>1
  <2>2. a \in Seq(Nat) /\ Len(a) = (i - 1) - 1 + 1 /\ \A k \in 1..((i - 1) - 1 + 1) : a[k] = r[1 + k - 1]
    BY <1>1, <2>1, PartOf, Zenon
  <2> HIDE DEF a
  <2> QED BY <1>1, <2>2
<1> HIDE DEF a, L
<1>4. c \in Seq(Nat) /\ Len(c) = L - i /\ \A k \in 1..(L - i) : c[k] = r[L - k + 1]
  <2>1. \A k \in 1..(L - i) : L - k + 1 \in 1..L
    BY <1>1
  <2>2. \A k \in 1..L : r[k] \in Nat
    BY <1>1 DEF L
  <2>3. \A k \in 1..(L - i) : r[L - k + 1] \in Nat
    BY <2>1, <2>2
  <2> QED BY <1>1, <2>3
<1> HIDE DEF c
<1>5. /\ q \in Seq(Nat) /\ Len(q) = L - 1
      /\ \A k \in 1..(L - 1) : q[k] = IF k < i THEN r[k] ELSE r[L + i - k]
  <2>1. /\ q \in Seq(Nat) /\ Len(q) = Len(a) + Len(c)
        /\ \A k \in 1..(Len(a) + Len(c)) : q[k] = IF k <= Len(a) THEN a[k] ELSE c[k - Len(a)]
    BY <1>2, <1>4, Joined, Zenon
  <2> HIDE DEF q
  <2>2. Len(a) + Len(c) = L - 1
    BY <1>1, <1>2, <1>4
  <2>3. ASSUME NEW k \in 1..(L - 1), k < i
        PROVE  q[k] = r[k]
    <3>1. k \in 1..(i - 1) /\ k <= i - 1
      BY <1>1, <2>3
    <3> QED BY <1>2, <2>1, <2>2, <3>1, Zenon
  <2>4. ASSUME NEW k \in 1..(L - 1), ~(k < i)
        PROVE  q[k] = r[L + i - k]
    <3>1. k - (i - 1) \in 1..(L - i) /\ ~(k <= i - 1) /\ L - (k - (i - 1)) + 1 = L + i - k
      BY <1>1, <2>4
    <3>2. q[k] = c[k - (i - 1)]
      BY <1>2, <2>1, <2>2, <3>1, Zenon
    <3>3. c[k - (i - 1)] = r[L - (k - (i - 1)) + 1]
      BY <1>4, <3>1
    <3> QED BY <3>1, <3>2, <3>3
  <2> QED BY <2>1, <2>2, <2>3, <2>4
<1> HIDE DEF q
<1>6. ASSUME NEW k \in 1..(L - 1)
      PROVE  g[k] \in 1..L /\ g[k] # i /\ q[k] = r[g[k]]
  <2>1. g[k] = IF k < i THEN k ELSE L + i - k
    OBVIOUS
  <2> HIDE DEF g
  <2>2. g[k] \in 1..L /\ g[k] # i
    BY <1>1, <2>1
  <2>3. q[k] = IF k < i THEN r[k] ELSE r[L + i - k]
    BY <1>5
  <2>4. CASE k < i
    BY <2>1, <2>2, <2>3, <2>4
  <2>5. CASE ~(k < i)
    BY <2>1, <2>2, <2>3, <2>5
  <2> QED BY <2>4, <2>5
<1>7. ASSUME NEW k \in 1..(L - 1), NEW l \in 1..(L - 1), k # l
      PROVE  g[k] # g[l]
  BY <1>1, <1>7
<1>8. ASSUME NEW j \in 1..L, j # i
      PROVE  \E k \in 1..(L - 1) : g[k] = j
  <2>1. CASE j < i
    <3>1. j \in 1..(L - 1) /\ g[j] = j
      BY <1>1, <2>1
    <3> HIDE DEF g
    <3> QED BY <3>1
  <2>2. CASE ~(j < i)
    <3>1. L + i - j \in 1..(L - 1) /\ g[L + i - j] = j
      BY <1>1, <1>8, <2>2
    <3> HIDE DEF g
    <3> QED BY <3>1
  <2> QED BY <2>1, <2>2
<1> HIDE DEF g
<1>9. Rearranges(r, i, q, g)
  BY <1>5, <1>6, <1>7, <1>8 DEF Rearranges, L
<1>10. PoolInv(x, q, tb \cup {r[i]}, nm)
  BY <1>1, <1>5, <1>9, RecycledJoins
<1> QED BY <1>10 DEF q, a, c, L

\* No recycled number is large enough: all of them, and the fresh ones below fd,
\* come back, and fd joins the table.
LEMMA FreshAbove ==
    ASSUME NEW x, NEW r, NEW tb, NEW nm, PoolInv(x, r, tb, nm), NEW fd \in Nat, fd >= x
    PROVE  /\ PoolInv(fd + 1,
                      [k \in 1..Len(r) |-> r[Len(r) - k + 1]] \o [k \in 1..(fd - x) |-> x + k - 1],
                      tb \cup {fd}, nm)
           /\ fd \in tb => fd \in nm
<1> DEFINE L == Len(r)
           a == [k \in 1..L |-> r[L - k + 1]]
           c == [k \in 1..(fd - x) |-> x + k - 1]
           q == a \o c
<1>1. r \in Seq(Nat) /\ L \in Nat /\ x \in Nat /\ fd - x \in Nat
  BY DEF PoolInv
<1>2. \A k \in 1..L : r[k] \in Nat
  BY <1>1
<1> HIDE DEF L
<1>3. a \in Seq(Nat) /\ Len(a) = L /\ \A k \in 1..L : a[k] = r[L - k + 1]
  <2>1. \A k \in 1..L : L - k + 1 \in 1..L
    BY <1>1
  <2>2. \A k \in 1..L : r[L - k + 1] \in Nat
    BY <1>2, <2>1
  <2> QED BY <1>1, <2>2
<1> HIDE DEF a
<1>4. c \in Seq(Nat) /\ Len(c) = fd - x /\ \A k \in 1..(fd - x) : c[k] = x + k - 1
  BY <1>1
<1> HIDE DEF c
<1>5. /\ q \in Seq(Nat) /\ Len(q) = L + (fd - x)
      /\ \A k \in 1..(L + (fd - x)) : q[k] = IF k <= L THEN r[L - k + 1] ELSE x + (k - L) - 1
  <2>1. /\ q \in Seq(Nat) /\ Len(q) = Len(a) + Len(c)
        /\ \A k \in 1..(Len(a) + Len(c)) : q[k] = IF k <= Len(a) THEN a[k] ELSE c[k - Len(a)]
    BY <1>3, <1>4, Joined, Zenon
  <2> HIDE DEF q
  <2> QED BY <1>1, <1>3, <1>4, <2>1
<1> HIDE DEF q
<1>6. fd \in tb => fd \in nm
  BY <1>1 DEF PoolInv, Drawn
<1>7. Drawn(fd + 1, tb \cup {fd}, nm)
  BY <1>1 DEF PoolInv, Drawn
<1>8. ASSUME NEW k \in 1..Len(q), k <= L
      PROVE  L - k + 1 \in 1..L /\ q[k] = r[L - k + 1] /\ q[k] \in Nat
  <2>1. L - k + 1 \in 1..L
    BY <1>1, <1>8
  <2>2. q[k] = r[L - k + 1]
    BY <1>5, <1>8
  <2>3. r[L - k + 1] \in Nat
    BY <1>1, <2>1 DEF L
  <2> QED BY <2>1, <2>2, <2>3
<1>9. ASSUME NEW k \in 1..Len(q), ~(k <= L)
      PROVE  q[k] = x + (k - L) - 1 /\ q[k] \in Nat /\ x <= q[k] /\ q[k] < fd
  <2>1. q[k] = x + (k - L) - 1 /\ k \in 1..(L + (fd - x))
    BY <1>5, <1>9
  <2> QED BY <1>1, <1>9, <2>1
<1>10. ASSUME NEW k \in 1..Len(q), k <= L, q[k] \notin nm
       PROVE  q[k] < x /\ q[k] \notin tb
  <2>1. \A j \in 1..L : r[j] \notin nm => r[j] < x /\ r[j] \notin tb
    BY DEF PoolInv, Free, L
  <2>2. L - k + 1 \in 1..L /\ q[k] = r[L - k + 1]
    BY <1>8, <1>10
  <2> QED BY <1>10, <2>1, <2>2
<1>11. Free(fd + 1, q, tb \cup {fd}, nm) /\ Once(q, nm)
  <2>1. ASSUME NEW k \in 1..Len(q), q[k] \notin nm
        PROVE  q[k] < fd + 1 /\ q[k] \notin tb /\ q[k] # fd
    <3>1. CASE k <= L
      <4>1. q[k] < x /\ q[k] \notin tb /\ q[k] \in Nat
        BY <1>8, <1>10, <2>1, <3>1
      <4> QED BY <1>1, <4>1
    <3>2. CASE ~(k <= L)
      <4>1. x <= q[k] /\ q[k] < fd /\ q[k] \in Nat
        BY <1>9, <3>2
      <4> QED BY <1>1, <2>1, <4>1 DEF PoolInv, Drawn
    <3> QED BY <3>1, <3>2
  <2>2. ASSUME NEW k \in 1..Len(q), NEW l \in 1..Len(q), k # l, q[k] = q[l], q[k] \notin nm
        PROVE  FALSE
    <3>1. k \in Nat /\ l \in Nat
      BY <1>1, <1>5
    <3>2. CASE k <= L /\ l <= L
      <4>1. L - k + 1 \in 1..L /\ L - l + 1 \in 1..L /\ q[k] = r[L - k + 1] /\ q[l] = r[L - l + 1]
        BY <1>8, <3>2
      <4>2. L - k + 1 # L - l + 1
        BY <1>1, <2>2, <3>1
      <4>3. \A u, v \in 1..L : u # v /\ r[u] = r[v] => r[u] \in nm
        BY DEF PoolInv, Once, L
      <4>4. r[L - k + 1] \in nm
        BY <2>2, <4>1, <4>2, <4>3, Zenon
      <4> QED BY <2>2, <4>1, <4>4
    <3>3. CASE k <= L /\ ~(l <= L)
      <4>1. q[k] < x /\ x <= q[l] /\ q[k] \in Nat
        BY <1>8, <1>9, <1>10, <2>2, <3>3
      <4> QED BY <1>1, <2>2, <4>1
    <3>4. CASE ~(k <= L) /\ l <= L
      <4>1. q[l] < x /\ x <= q[k] /\ q[k] \in Nat
        BY <1>8, <1>9, <1>10, <2>2, <3>4
      <4> QED BY <1>1, <2>2, <4>1
    <3>5. CASE ~(k <= L) /\ ~(l <= L)
      <4>1. q[k] = x + (k - L) - 1 /\ q[l] = x + (l - L) - 1
        BY <1>9, <3>5
      <4>2. x + (k - L) - 1 = x + (l - L) - 1 /\ k # l
        BY <2>2, <4>1, Zenon
      <4> QED BY <1>1, <3>1, <4>2
    <3> QED BY <3>2, <3>3, <3>4, <3>5
  <2> QED BY <2>1, <2>2 DEF Free, Once
<1>12. Kept(fd + 1, q, tb \cup {fd}, nm)
  <2> SUFFICES ASSUME NEW n \in Nat, n < fd + 1, n \notin nm, n \notin tb, n # fd
               PROVE  \E k \in 1..Len(q) : q[k] = n
    BY DEF Kept
  <2>1. CASE n < x
    <3>1. PICK j \in 1..Len(r) : r[j] = n
      BY <2>1 DEF PoolInv, Kept
    <3>2. L - j + 1 \in 1..Len(q) /\ L - j + 1 <= L /\ L - (L - j + 1) + 1 = j
      BY <1>1, <1>5 DEF L
    <3>3. q[L - j + 1] = r[L - (L - j + 1) + 1]
      BY <1>5, <3>2
    <3> QED BY <3>1, <3>2, <3>3
  <2>2. CASE n >= x
    <3>1. n - x + L + 1 \in 1..Len(q) /\ q[n - x + L + 1] = n
      BY <1>1, <1>5, <2>2
    <3> QED BY <3>1
  <2> QED BY <1>1, <2>1, <2>2
<1>13. PoolInv(fd + 1, q, tb \cup {fd}, nm)
  BY <1>1, <1>5, <1>7, <1>11, <1>12 DEF PoolInv
<1> QED BY <1>6, <1>13 DEF q, a, c, L

\* s lists the elements of S, each once.
Lists(s, S) ==
    /\ s \in Seq(Nat)
    /\ \A k \in 1..Len(s) : s[k] \in S
    /\ \A k, l \in 1..Len(s) : k # l => s[k] # s[l]
    /\ \A n \in S : \E k \in 1..Len(s) : s[k] = n

\* FdTable::release_all: every open number is recycled.
LEMMA ReleaseEach ==
    ASSUME NEW x, NEW r, NEW tb, NEW nm, PoolInv(x, r, tb, nm), NEW s, Lists(s, tb)
    PROVE  PoolInv(x, r \o s, {}, nm)
<1> DEFINE q == r \o s  L == Len(r)  M == Len(s)
<1>1. r \in Seq(Nat) /\ s \in Seq(Nat) /\ L \in Nat /\ M \in Nat
  BY DEF PoolInv, Lists
<1>2. q \in Seq(Nat) /\ Len(q) = L + M /\ \A k \in 1..(L + M) : q[k] = IF k <= L THEN r[k] ELSE s[k - L]
  BY <1>1, Joined, Zenon
<1> HIDE DEF q, L, M
<1>3. ASSUME NEW k \in 1..Len(q), k <= L
      PROVE  k \in 1..L /\ q[k] = r[k]
  BY <1>1, <1>2, <1>3
<1>4. ASSUME NEW k \in 1..Len(q), ~(k <= L)
      PROVE  k - L \in 1..M /\ q[k] = s[k - L] /\ q[k] \in tb
  <2>1. k - L \in 1..M
    BY <1>1, <1>2, <1>4
  <2>2. q[k] = s[k - L]
    BY <1>2, <1>4
  <2> QED BY <2>1, <2>2 DEF Lists, M
<1>5. ASSUME NEW k \in 1..L, r[k] \notin nm
      PROVE  r[k] < x /\ r[k] \notin tb
  BY <1>5 DEF PoolInv, Free, L
<1>6. Drawn(x, {}, nm)
  BY DEF Drawn
<1>7. Free(x, q, {}, nm)
  <2> SUFFICES ASSUME NEW k \in 1..Len(q), q[k] \notin nm
               PROVE  q[k] < x
    BY DEF Free
  <2>1. CASE k <= L
    BY <1>3, <1>5, <2>1
  <2>2. CASE ~(k <= L)
    BY <1>4, <2>2, Zenon DEF PoolInv, Drawn
  <2> QED BY <2>1, <2>2
<1>8. Once(q, nm)
  <2> SUFFICES ASSUME NEW k \in 1..Len(q), NEW l \in 1..Len(q), k # l, q[k] = q[l], q[k] \notin nm
               PROVE  FALSE
    BY DEF Once
  <2>1. CASE k <= L /\ l <= L
    <3>1. k \in 1..L /\ l \in 1..L /\ q[k] = r[k] /\ q[l] = r[l]
      BY <1>3, <2>1
    <3> QED BY <3>1, Zenon DEF PoolInv, Once, L
  <2>2. CASE k <= L /\ ~(l <= L)
    BY <1>3, <1>4, <1>5, <2>2
  <2>3. CASE ~(k <= L) /\ l <= L
    BY <1>3, <1>4, <1>5, <2>3
  <2>4. CASE ~(k <= L) /\ ~(l <= L)
    <3>1. k - L \in 1..M /\ l - L \in 1..M /\ q[k] = s[k - L] /\ q[l] = s[l - L]
      BY <1>4, <2>4
    <3>2. k - L # l - L
      BY <1>1, <1>2
    <3>3. \A u, v \in 1..M : u # v => s[u] # s[v]
      BY DEF Lists, M
    <3> QED BY <3>1, <3>2, <3>3, Zenon
  <2> QED BY <2>1, <2>2, <2>3, <2>4
<1>9. Kept(x, q, {}, nm)
  <2> SUFFICES ASSUME NEW n \in Nat, n < x, n \notin nm
               PROVE  \E k \in 1..Len(q) : q[k] = n
    BY DEF Kept
  <2>1. CASE n \in tb
    <3>1. PICK j \in 1..M : s[j] = n
      BY <2>1 DEF Lists, M
    <3>2. L + j \in 1..Len(q) /\ ~(L + j <= L) /\ (L + j) - L = j
      BY <1>1, <1>2
    <3>3. q[L + j] = s[(L + j) - L]
      BY <1>2, <3>2
    <3> QED BY <3>1, <3>2, <3>3
  <2>2. CASE n \notin tb
    <3>1. PICK j \in 1..L : r[j] = n
      BY <2>2 DEF PoolInv, Kept, L
    <3>2. j \in 1..Len(q) /\ j <= L
      BY <1>1, <1>2
    <3> QED BY <1>2, <3>1, <3>2
  <2> QED BY <2>1, <2>2
<1>10. PoolInv(x, q, {}, nm)
  BY <1>2, <1>6, <1>7, <1>8, <1>9 DEF PoolInv
<1> QED BY <1>10 DEF q

-------------------------------------------------------------------------------
(* The calls. *)

\* openat, pipe, dup and fcntl: what Take leaves, from a pool and a table that
\* agree.
LEMMA TakeKeeps ==
    ASSUME FdInv, NEW fds, NEW p, Take(fds, p),
           p = [next |-> p.next, recycled |-> p.recycled],
           PoolInv(p.next, p.recycled, table \cup fds, named)
    PROVE  FdInv'
BY DEF FdInv, Take

\* openat and dup: one number is drawn.
LEMMA OpenKeeps ==
    ASSUME FdInv, Take({Got(pool)}, AfterGet(pool))
    PROVE  FdInv' /\ allocated' \cap table \subseteq named
<1> DEFINE a == AfterGet(pool)
<1>1. /\ a = [next |-> a.next, recycled |-> a.recycled]
      /\ Got(pool) \in table => Got(pool) \in named
      /\ PoolInv(a.next, a.recycled, table \cup {Got(pool)}, named)
  BY GetOne, Zenon DEF FdInv
<1> HIDE DEF a
<1>2. Take({Got(pool)}, a)
  BY DEF a
<1>3. FdInv'
  BY <1>1, <1>2, TakeKeeps, Zenon
<1>4. allocated' \cap table \subseteq named
  BY <1>1, <1>2 DEF Take
<1> QED BY <1>3, <1>4

\* pipe: two numbers are drawn, one after the other.
LEMMA PipeKeeps ==
    ASSUME FdInv, Take({Got(pool), Got(AfterGet(pool))}, AfterGet(AfterGet(pool)))
    PROVE  FdInv' /\ allocated' \cap table \subseteq named
<1> DEFINE a == AfterGet(pool)
           b == AfterGet(a)
           tb == table \cup {Got(pool)}
<1>1. /\ a = [next |-> a.next, recycled |-> a.recycled]
      /\ Got(pool) \in table => Got(pool) \in named
      /\ PoolInv(a.next, a.recycled, tb, named)
  BY GetOne DEF FdInv
<1> HIDE DEF a, tb
<1>2. /\ b = [next |-> b.next, recycled |-> b.recycled]
      /\ Got(a) \in tb => Got(a) \in named
      /\ PoolInv(b.next, b.recycled, tb \cup {Got(a)}, named)
  BY <1>1, GetOne, Zenon
<1> HIDE DEF b
<1>3. Take({Got(pool), Got(a)}, b)
  BY DEF a, b
<1>4. tb \cup {Got(a)} = table \cup {Got(pool), Got(a)}
  BY DEF tb
<1>5. FdInv'
  BY <1>2, <1>3, <1>4, TakeKeeps, Zenon
<1>6. allocated' \cap table \subseteq named
  BY <1>1, <1>2, <1>3 DEF Take, tb
<1> QED BY <1>5, <1>6

\* dup3 names the number it opens.
LEMMA Dup3Keeps ==
    ASSUME FdInv, NEW old, NEW new \in Fds, Dup3(old, new)
    PROVE  FdInv' /\ allocated' \cap table \subseteq named
<1>1. /\ table' = table \cup {new} /\ named' = named \cup ({new} \ table)
      /\ UNCHANGED <<pool, limit>> /\ allocated' = {}
  BY DEF Dup3
<1>2. new \in Nat
  BY DEF Fds
<1>3. PoolInv(pool.next, pool.recycled, table \cup {new}, named \cup ({new} \ table))
  BY <1>2 DEF FdInv, PoolInv, Drawn, Free, Once, Kept
<1> QED BY <1>1, <1>3 DEF FdInv

\* close gives the number back.
LEMMA CloseKeeps ==
    ASSUME FdInv, NEW fd, Close(fd)
    PROVE  FdInv' /\ allocated' \cap table \subseteq named
<1>1. /\ fd \in table /\ table' = table \ {fd}
      /\ UNCHANGED <<limit, named>> /\ allocated' = {}
      /\ pool' = [next |-> pool.next, recycled |-> Append(pool.recycled, fd)]
  BY Zenon DEF Close, AfterRelease, FdInv
<1>2. PoolInv(pool.next, Append(pool.recycled, fd), table \ {fd}, named)
  BY <1>1, ReleaseOne DEF FdInv
<1> QED BY <1>1, <1>2 DEF FdInv

-------------------------------------------------------------------------------
(* The theorems. *)

INSTANCE FiniteSetTheorems

\* A set of indices that is not empty has a greatest one.
LEMMA Greatest ==
    ASSUME NEW N \in Nat, NEW I \in SUBSET (1..N), I # {}
    PROVE  \E m \in I : \A j \in I : j <= m
<1> DEFINE D == {d \in Nat : \E i \in I : i = N - d}
<1>1. ASSUME NEW j \in I
      PROVE  N - j \in D
  <2>1. N - j \in Nat /\ j = N - (N - j)
    OBVIOUS
  <2> QED BY <2>1
<1>2. D \in SUBSET Nat /\ D # {}
  BY <1>1, Zenon
<1>3. PICK d \in D : \A e \in D : ~(<<e, d>> \in OpToRel(<, Nat))
  BY <1>2, WFMin, NatLessThanWellFounded, Zenon
<1>4. \A e \in D : ~(e < d)
  BY <1>2, <1>3, Zenon DEF OpToRel
<1>5. N - d \in I /\ d \in Nat
  OBVIOUS
<1>6. ASSUME NEW j \in I
      PROVE  j <= N - d
  <2>1. ~(N - j < d)
    BY <1>1, <1>4
  <2> QED BY <1>5, <2>1
<1> QED BY <1>5, <1>6

\* What FdTable::dup(GreaterThan) draws and leaves.
LEMMA GetAtLeast ==
    ASSUME FdInv, NEW lower \in Nat
    PROVE  LET a == AfterGetAtLeast(lower)
               fd == GotAtLeast(lower)
           IN  /\ a = [next |-> a.next, recycled |-> a.recycled]
               /\ fd \in table => fd \in named
               /\ PoolInv(a.next, a.recycled, table \cup {fd}, named)
<1> DEFINE r == pool.recycled
           x == pool.next
           fd == GotAtLeast(lower)
<1>1. x \in Nat /\ r \in Seq(Nat) /\ PoolInv(x, r, table, named) /\ pool = [next |-> x, recycled |-> r]
  BY DEF FdInv, PoolInv
<1>2. CASE Suitable(lower) = {}
  <2>1. fd = IF x >= lower THEN x ELSE lower
    BY <1>2 DEF GotAtLeast
  <2>2. fd \in Nat /\ fd >= x
    BY <1>1, <2>1
  <2> HIDE DEF fd, r, x
  <2>3. Len(r) - 0 = Len(r)
    BY <1>1
  <2>4. AfterGetAtLeast(lower) =
            [next |-> fd + 1,
             recycled |-> [k \in 1..Len(r) |-> r[Len(r) - k + 1]] \o [k \in 1..(fd - x) |-> x + k - 1]]
    BY <1>2, <2>3 DEF AfterGetAtLeast, fd, r, x
  <2>5. /\ PoolInv(fd + 1,
                   [k \in 1..Len(r) |-> r[Len(r) - k + 1]] \o [k \in 1..(fd - x) |-> x + k - 1],
                   table \cup {fd}, named)
        /\ fd \in table => fd \in named
    BY <1>1, <2>2, FreshAbove, Zenon
  <2> QED BY <2>4, <2>5 DEF fd
<1>3. CASE Suitable(lower) # {}
  <2> DEFINE i == LastOf(Suitable(lower))
  <2>1. i \in Suitable(lower)
    <3>1. Suitable(lower) \in SUBSET (1..Len(r))
      BY DEF Suitable
    <3>2. \E m \in Suitable(lower) : \A j \in Suitable(lower) : j <= m
      <4>1. Len(r) \in Nat
        BY <1>1
      <4> QED BY <1>3, <3>1, <4>1, Greatest, Zenon
    <3> QED BY <3>2 DEF LastOf
  <2>2. i \in 1..Len(r) /\ i \in Nat /\ i > 0
    BY <1>1, <2>1 DEF Suitable
  <2>3. fd = r[i]
    BY <1>3 DEF GotAtLeast
  <2> HIDE DEF i
  <2>4. AfterGetAtLeast(lower) =
            [next |-> x,
             recycled |-> SubSeq(r, 1, i - 1) \o [k \in 1..(Len(r) - i) |-> r[Len(r) - k + 1]]]
    BY <1>1, <1>3, <2>2, Zenon DEF AfterGetAtLeast, i
  <2> HIDE DEF fd, r, x
  <2>5. PoolInv(x, SubSeq(r, 1, i - 1) \o [k \in 1..(Len(r) - i) |-> r[Len(r) - k + 1]],
                table \cup {fd}, named)
    BY <1>1, <2>2, <2>3, MiddleJoins, Zenon
  <2>6. fd \in table => fd \in named
    BY <1>1, <2>2, <2>3, RecycledIsClosed
  <2> QED BY <2>4, <2>5, <2>6 DEF fd
<1> QED BY <1>2, <1>3

\* fcntl(F_DUPFD_CLOEXEC), whether or not the release of a skipped number panics.
LEMMA DupAtLeastKeeps ==
    ASSUME FdInv, NEW old, NEW lower \in LowerBounds, DupAtLeast(old, lower)
    PROVE  FdInv' /\ allocated' \cap table \subseteq named
<1> DEFINE a == AfterGetAtLeast(lower)
           fd == GotAtLeast(lower)
<1>1. /\ a = [next |-> a.next, recycled |-> a.recycled]
      /\ fd \in table => fd \in named
      /\ PoolInv(a.next, a.recycled, table \cup {fd}, named)
  BY GetAtLeast, FdBounds
<1> HIDE DEF a, fd
<1>2. CASE Take({fd}, a)
  <2>1. FdInv'
    BY <1>1, <1>2, TakeKeeps, Zenon
  <2>2. allocated' \cap table \subseteq named
    BY <1>1, <1>2 DEF Take
  <2> QED BY <2>1, <2>2
<1>3. CASE allocated' = {} /\ UNCHANGED <<pool, table, limit, named>>
  BY <1>3 DEF FdInv
<1> QED BY <1>2, <1>3 DEF DupAtLeast, a, fd

\* The order of a BTreeMap lists the keys, each once.
LEMMA KeysListed ==
    ASSUME NEW S \in SUBSET Nat, IsFiniteSet(S)
    PROVE  Lists(InKeyOrder(S), S)
<1> DEFINE N == Cardinality(S)
           Below(n) == {m \in S : m < n}
           s == InKeyOrder(S)
           rk == [n \in S |-> Rank(S, n) + 1]
<1>1. N \in Nat /\ \A n : Rank(S, n) = Cardinality(Below(n))
  BY FS_CardinalityType DEF Rank
<1> HIDE DEF N
<1>2. ASSUME NEW n \in S
      PROVE  IsFiniteSet(Below(n)) /\ Rank(S, n) \in Nat /\ Rank(S, n) < N
  <2>1. Below(n) \in SUBSET S /\ n \notin Below(n)
    OBVIOUS
  <2> HIDE DEF Below
  <2>2. IsFiniteSet(Below(n)) /\ Cardinality(Below(n)) <= N /\ (N = Cardinality(Below(n)) => S = Below(n))
    BY <2>1, FS_Subset, Zenon DEF N
  <2>3. Cardinality(Below(n)) \in Nat
    BY <2>2, FS_CardinalityType
  <2> QED BY <1>1, <2>1, <2>2, <2>3
<1>3. ASSUME NEW n \in S, NEW m \in S, n < m
      PROVE  Rank(S, n) # Rank(S, m)
  <2>1. n \in Nat /\ m \in Nat /\ \A j \in S : j \in Nat
    OBVIOUS
  <2>2. Below(n) \in SUBSET Below(m) /\ n \in Below(m) /\ n \notin Below(n)
    <3>1. n \in Below(m) /\ n \notin Below(n)
      BY <1>3, <2>1
    <3>2. \A j \in S : j < n => j < m
      BY <1>3, <2>1
    <3> QED BY <3>1, <3>2, Zenon
  <2>3. IsFiniteSet(Below(m))
    BY <1>2
  <2> HIDE DEF Below
  <2>4. Cardinality(Below(m)) = Cardinality(Below(n)) => Below(m) = Below(n)
    BY <2>2, <2>3, FS_Subset, Zenon
  <2> QED BY <1>1, <2>2, <2>4
<1>4. ASSUME NEW n \in S, NEW m \in S, Rank(S, n) = Rank(S, m)
      PROVE  n = m
  <2>1. n \in Nat /\ m \in Nat
    OBVIOUS
  <2>2. n < m \/ m < n \/ n = m
    BY <2>1
  <2> QED BY <1>3, <1>4, <2>2
<1>5. rk \in Injection(S, 1..N)
  <2>1. ASSUME NEW n \in S
        PROVE  Rank(S, n) + 1 \in 1..N
    <3>1. Rank(S, n) \in Nat /\ Rank(S, n) < N
      BY <1>2, Zenon
    <3> QED BY <1>1, <3>1
  <2>2. rk \in [S -> 1..N]
    BY <2>1
  <2>3. ASSUME NEW n \in S, NEW m \in S, rk[n] = rk[m]
        PROVE  n = m
    <3>1. Rank(S, n) + 1 = Rank(S, m) + 1
      BY <2>3
    <3>2. Rank(S, n) \in Nat /\ Rank(S, m) \in Nat
      BY <1>2, Zenon
    <3>3. Rank(S, n) = Rank(S, m)
      BY <3>1, <3>2
    <3> QED BY <1>4, <3>3
  <2> HIDE DEF rk
  <2> QED BY <2>2, <2>3 DEF Injection, IsInjective
<1>6. rk \in Surjection(S, 1..N)
  <2>1. IsFiniteSet(1..N) /\ Cardinality(1..N) = N
    BY <1>1, FS_Interval
  <2> HIDE DEF rk
  <2> QED BY <1>5, <2>1, FS_Injection DEF N
<1>7. ASSUME NEW k \in 1..N
      PROVE  s[k] \in S /\ Rank(S, s[k]) = k - 1
  <2>1. PICK n \in S : rk[n] = k
    BY <1>6, Zenon DEF Surjection
  <2>2. Rank(S, n) + 1 = k
    BY <2>1
  <2>3. Rank(S, n) \in Nat
    BY <1>2, Zenon
  <2>4. Rank(S, n) = k - 1
    BY <2>2, <2>3
  <2>5. s[k] = CHOOSE m \in S : Rank(S, m) = k - 1
    BY DEF InKeyOrder, N
  <2> QED BY <2>4, <2>5
<1>8. s \in Seq(Nat) /\ Len(s) = N
  <2>1. s = [k \in 1..N |-> s[k]]
    BY DEF InKeyOrder, N
  <2>2. \A k \in 1..N : s[k] \in Nat
    BY <1>7, Zenon
  <2> HIDE DEF s
  <2> QED BY <1>1, <2>1, <2>2
<1> HIDE DEF s
<1>9. ASSUME NEW k \in 1..N, NEW l \in 1..N, k # l
      PROVE  s[k] # s[l]
  <2>1. Rank(S, s[k]) = k - 1 /\ Rank(S, s[l]) = l - 1 /\ k - 1 # l - 1
    BY <1>1, <1>7, <1>9
  <2> QED BY <2>1
<1>10. ASSUME NEW n \in S
       PROVE  \E k \in 1..N : s[k] = n
  <2>1. Rank(S, n) \in Nat /\ Rank(S, n) < N
    BY <1>2, Zenon
  <2>2. Rank(S, n) + 1 \in 1..N /\ (Rank(S, n) + 1) - 1 = Rank(S, n)
    BY <1>1, <2>1
  <2>3. s[Rank(S, n) + 1] = n
    BY <1>4, <1>7, <2>2, Zenon
  <2> QED BY <2>2, <2>3
<1>11. Lists(s, S)
  BY <1>7, <1>8, <1>9, <1>10 DEF Lists
<1> QED BY <1>11 DEF s

\* exit recycles what is open.
LEMMA ReleaseAllKeeps ==
    ASSUME FdInv, ReleaseAll
    PROVE  FdInv' /\ allocated' \cap table \subseteq named
<1>1. IsFiniteSet(table) /\ table \in SUBSET Nat
  <2>1. IsFiniteSet(Fds)
    BY FS_Interval, FdBounds DEF Fds
  <2> QED BY <2>1, FS_Subset DEF FdInv, PoolInv
<1>2. Lists(InKeyOrder(table), table)
  BY <1>1, KeysListed
<1>3. PoolInv(pool.next, pool.recycled \o InKeyOrder(table), {}, named)
  BY <1>2, ReleaseEach DEF FdInv
<1>4. /\ table' = {} /\ allocated' = {} /\ UNCHANGED <<limit, named>>
      /\ pool' = [next |-> pool.next, recycled |-> pool.recycled \o InKeyOrder(table)]
  BY Zenon DEF ReleaseAll, FdInv
<1> QED BY <1>3, <1>4 DEF FdInv

\* Every call keeps the invariant, and draws no number of an open file but those
\* that dup3 has named.
LEMMA FdStep ==
    ASSUME FdInv, [FdNext]_fdVars
    PROVE  FdInv' /\ (UNCHANGED fdVars \/ allocated' \cap table \subseteq named)
<1>1. CASE Open
  BY <1>1, OpenKeeps DEF Open
<1>2. CASE MakePipe
  BY <1>2, OpenKeeps, PipeKeeps DEF MakePipe
<1>3. CASE ReleaseAll
  BY <1>3, ReleaseAllKeeps
<1>4. ASSUME NEW fd \in Fds, Dup(fd) \/ Close(fd)
      PROVE  FdInv' /\ allocated' \cap table \subseteq named
  BY <1>4, OpenKeeps, CloseKeeps DEF Dup
<1>5. ASSUME NEW fd \in Fds, NEW lower \in LowerBounds, DupAtLeast(fd, lower)
      PROVE  FdInv' /\ allocated' \cap table \subseteq named
  BY <1>5, DupAtLeastKeeps
<1>6. ASSUME NEW old \in Fds, NEW new \in Fds, Dup3(old, new)
      PROVE  FdInv' /\ allocated' \cap table \subseteq named
  BY <1>6, Dup3Keeps
<1>7. ASSUME NEW n \in Limits, SetLimit(n)
      PROVE  FdInv' /\ allocated' \cap table \subseteq named
  BY <1>7, FdBounds DEF SetLimit, FdInv
<1>8. CASE UNCHANGED fdVars
  BY <1>8 DEF fdVars, FdInv
<1> QED BY <1>1, <1>2, <1>3, <1>4, <1>5, <1>6, <1>7, <1>8 DEF FdNext

LEMMA FdInvHolds == FdSpec => []FdInv
<1>1. FdInit => FdInv
  <2> SUFFICES ASSUME FdInit PROVE FdInv
    OBVIOUS
  <2>1. pool = [next |-> 3, recycled |-> <<>>] /\ table = {0, 1, 2} /\ named = {} /\ limit = MaxOpenFiles
    BY DEF FdInit, NewPool
  <2>2. PoolInv(3, <<>>, {0, 1, 2}, {})
    BY DEF PoolInv, Drawn, Free, Once, Kept
  <2> QED BY <2>1, <2>2, FdBounds DEF FdInv, Fds
<1>2. FdInv /\ [FdNext]_fdVars => FdInv'
  BY FdStep
<1> QED BY <1>1, <1>2, PTL DEF FdSpec

\* Every number that was handed out and dup3 has not named is open or in the pool
\* exactly once (lproc.rs 672-730): NoDescriptorLost is an invariant.
THEOREM NoDescriptorLostHolds == FdSpec => []NoDescriptorLost
<1>1. FdInv => NoDescriptorLost
  <2> SUFFICES ASSUME FdInv, NEW n \in (0..(pool.next - 1)) \ named
               PROVE  \/ n \in table /\ ~IsRecycled(pool, n)
                      \/ /\ n \notin table
                         /\ Cardinality({i \in 1..Len(pool.recycled) : pool.recycled[i] = n}) = 1
    BY Zenon DEF NoDescriptorLost
  <2>1. n \in Nat /\ n < pool.next
    BY DEF FdInv, PoolInv
  <2>2. CASE n \in table
    BY <2>2 DEF FdInv, PoolInv, Free, IsRecycled
  <2>3. CASE n \notin table
    <3>1. PICK j \in 1..Len(pool.recycled) : pool.recycled[j] = n
      BY <2>1, <2>3 DEF FdInv, PoolInv, Kept
    <3>2. {i \in 1..Len(pool.recycled) : pool.recycled[i] = n} = {j}
      BY <3>1 DEF FdInv, PoolInv, Once
    <3> QED BY <2>3, <3>2, FS_Singleton, Zenon
  <2> QED BY <2>2, <2>3
<1> QED BY <1>1, FdInvHolds, PTL

\* A number that alloc or dup draws is never that of an open file, unless dup3
\* had opened that file (lproc.rs 674-675 and 704-707): no step of the
\* specification replaces another open file.
THEOREM NeverReplacesOpenFileHolds == FdSpec => NeverReplacesOpenFile
<1>1. FdInv /\ [FdNext]_fdVars => [allocated' \cap table \subseteq named]_fdVars
  BY FdStep
<1> QED BY <1>1, FdInvHolds, PTL DEF FdSpec, NeverReplacesOpenFile

\* One more element is at most one more.
LEMMA OneMore ==
    ASSUME NEW S, IsFiniteSet(S), NEW x
    PROVE  /\ IsFiniteSet(S \cup {x}) /\ Cardinality(S) \in Nat /\ Cardinality(S \cup {x}) \in Nat
           /\ Cardinality(S \cup {x}) <= Cardinality(S) + 1
<1>1. Cardinality(S) \in Nat /\ IsFiniteSet(S \cup {x})
  BY FS_CardinalityType, FS_AddElement
<1>2. Cardinality(S \cup {x}) = Cardinality(S) \/ Cardinality(S \cup {x}) = Cardinality(S) + 1
  BY FS_AddElement
<1> QED BY <1>1, <1>2

\* No call that opens descriptors goes beyond the limit in force, pipe with its
\* two checks included (lproc.rs 663-688): LimitHonoured holds of every step.
THEOREM LimitHonouredHolds == FdSpec => LimitHonoured
<1> DEFINE C(S) == Cardinality(S)
           Fits == C(table') > C(table) => C(table') <= limit
<1>1. ASSUME FdInv, FdNext
      PROVE  Fits
  <2>1. IsFiniteSet(table) /\ limit \in Nat
    <3>1. IsFiniteSet(Fds)
      BY FS_Interval, FdBounds DEF Fds
    <3> QED BY <1>1, <3>1, FS_Subset DEF FdInv
  <2>2. ASSUME NEW x, table' = table \cup {x}, HasRoom
        PROVE  Fits
    <3>1. C(table) \in Nat /\ C(table') \in Nat /\ C(table') <= C(table) + 1
      BY <2>1, <2>2, OneMore, Zenon
    <3> QED BY <2>1, <2>2, <3>1 DEF HasRoom
  <2>3. ASSUME table' = table \/ table' = {} \/ \E x : table' = table \ {x}
        PROVE  ~(C(table') > C(table))
    <3>1. table' \in SUBSET table
      BY <2>3
    <3>2. IsFiniteSet(table') /\ C(table') <= C(table)
      BY <2>1, <3>1, FS_Subset
    <3>3. C(table) \in Nat /\ C(table') \in Nat
      BY <2>1, <3>2, FS_CardinalityType
    <3> QED BY <3>2, <3>3
  <2>4. CASE MakePipe
    <3> DEFINE tb == table \cup {Got(pool)}
    <3>1. CASE ~(C(tb) < limit)
      BY <2>2, <2>4, <3>1 DEF MakePipe, Take
    <3>2. CASE C(tb) < limit
      <4>1. table' = tb \cup {Got(AfterGet(pool))}
        BY <2>4, <3>2 DEF MakePipe, Take
      <4>2. IsFiniteSet(tb)
        BY <2>1, OneMore, Zenon
      <4> HIDE DEF tb
      <4>3. C(tb) \in Nat /\ C(table') \in Nat /\ C(table') <= C(tb) + 1
        BY <4>1, <4>2, OneMore, Zenon
      <4> QED BY <2>1, <3>2, <4>3
    <3> QED BY <3>1, <3>2
  <2>5. CASE Open
    BY <2>2, <2>5, Zenon DEF Open, Take
  <2>6. CASE ReleaseAll
    BY <2>3, <2>6 DEF ReleaseAll
  <2>7. ASSUME NEW fd \in Fds, Dup(fd) \/ Close(fd)
        PROVE  Fits
    BY <2>2, <2>3, <2>7 DEF Dup, Close, Take
  <2>8. ASSUME NEW fd \in Fds, NEW lower \in LowerBounds, DupAtLeast(fd, lower)
        PROVE  Fits
    BY <2>2, <2>3, <2>8, Zenon DEF DupAtLeast, Take
  <2>9. ASSUME NEW old \in Fds, NEW new \in Fds, Dup3(old, new)
        PROVE  Fits
    <3>1. CASE new \in table
      <4>1. table' = table
        BY <2>9, <3>1 DEF Dup3
      <4> QED BY <2>3, <4>1
    <3>2. CASE new \notin table
      BY <2>2, <2>9, <3>2 DEF Dup3
    <3> QED BY <3>1, <3>2
  <2>10. ASSUME NEW n \in Limits, SetLimit(n)
         PROVE  Fits
    BY <2>3, <2>10 DEF SetLimit
  <2> QED BY <1>1, <2>4, <2>5, <2>6, <2>7, <2>8, <2>9, <2>10 DEF FdNext
<1>2. FdInv /\ [FdNext]_fdVars => [Fits]_fdVars
  BY <1>1
<1> QED BY <1>2, FdInvHolds, PTL DEF FdSpec, LimitHonoured
===============================================================================
