------------------------------ MODULE LockProofs ------------------------------
(***************************************************************************)
(* Proofs about the two locks: SpinMutex for every set of harts and        *)
(* mutexes, every nesting depth and every spin limit, and SleepLock for    *)
(* any set of tasks and any number of acquisitions and stale wakes.        *)
(***************************************************************************)
EXTENDS SpinMutex, SleepLock, Integers, TLAPS

\* A context that spins has not used up its tries.
TryBound == \A c \in Ctx : pc[c] = "spin" => try_count[c] < TryLimit

TypeInv == TypeOK /\ TryBound

\* What dropping the youngest guard does to a sequence of guards.
LEMMA FrontFacts ==
    ASSUME NEW S, NEW s \in Seq(S), s # <<>>
    PROVE  /\ Len(s) \in Nat /\ Len(s) # 0 /\ s[Len(s)] \in S
           /\ SubSeq(s, 1, Len(s) - 1) \in Seq(S)
           /\ Len(SubSeq(s, 1, Len(s) - 1)) = Len(s) - 1
           /\ \A i \in 1..(Len(s) - 1) : SubSeq(s, 1, Len(s) - 1)[i] = s[i]
<1>1. Len(s) \in Nat \ {0}
  OBVIOUS
<1>2. \A i \in 1..Len(s) : s[i] \in S
  OBVIOUS
<1>3. \A i \in 1..(Len(s) - 1) : s[i] \in S
  BY <1>1, <1>2
<1> DEFINE n == Len(s) - 1
<1>4. n \in Int /\ 1 \in Int /\ \A i \in 1..n : s[i] \in S
  BY <1>1, <1>3
<1> HIDE DEF n
<1>5. /\ SubSeq(s, 1, n) \in Seq(S)
      /\ Len(SubSeq(s, 1, n)) = IF 1 <= n THEN n - 1 + 1 ELSE 0
      /\ \A i \in 1..(n - 1 + 1) : SubSeq(s, 1, n)[i] = s[1 + i - 1]
  BY <1>4
<1>6. n = Len(s) - 1 /\ n \in Nat /\ n - 1 + 1 = n /\ \A i \in 1..n : 1 + i - 1 = i
  BY <1>1 DEF n
<1>7. /\ Len(SubSeq(s, 1, n)) = n
      /\ \A i \in 1..n : SubSeq(s, 1, n)[i] = s[i]
  BY <1>5, <1>6
<1>8. Len(s) \in Nat /\ Len(s) # 0 /\ s[Len(s)] \in S
  BY <1>1, <1>2
<1> QED
  BY <1>5, <1>6, <1>7, <1>8

\* The variables stay in their types: in particular try_count never passes
\* the limit obtain_lock compares it with.
THEOREM TypeInvariant == Spec => []TypeInv
<1>1. Init => TypeInv
  BY LimitsAreNat DEF Init, TypeInv, TypeOK, TryBound, Ctx, PCs
<1>2. TypeInv /\ [Next]_vars => TypeInv'
  <2> SUFFICES ASSUME TypeInv, [Next]_vars PROVE TypeInv'
    OBVIOUS
  <2> USE LimitsAreNat DEF TypeInv, TypeOK, TryBound, PCs, Goto, At, mutex, hart, local
  <2>1. ASSUME NEW c \in Ctx, CtxStep(c) PROVE TypeInv'
    <3>0. c[1] \in Harts
      BY DEF Ctx
    <3>1. ASSUME NEW m \in Mutexes, BeforeLock(c, m) PROVE TypeInv'
      BY <3>0, <3>1 DEF BeforeLock
    <3>2. CASE EnsureLoad(c)
      BY <3>2 DEF EnsureLoad
    <3>3. CASE EnsureCas(c)
      BY <3>3 DEF EnsureCas
    <3>4. CASE EnsureWait(c)
      BY <3>4 DEF EnsureWait
    <3>5. CASE EnsureWrite(c)
      BY <3>5 DEF EnsureWrite
    <3>6. CASE Cas(c)
      BY <3>6 DEF Cas
    <3>7. CASE CheckOwner(c)
      BY <3>7 DEF CheckOwner
    <3>8. CASE Spin(c)
      <4>1. CASE ~locked[target[c]]
        BY <3>8, <4>1 DEF Spin
      <4>2. CASE locked[target[c]] /\ try_count[c] + 1 = TryLimit
        BY <3>8, <4>2 DEF Spin
      <4>3. CASE locked[target[c]] /\ try_count[c] + 1 # TryLimit
        BY <3>8, <4>3 DEF Spin
      <4> QED
        BY <4>1, <4>2, <4>3
    <3>9. CASE WriteOwner(c)
      BY <3>0, <3>9 DEF WriteOwner, MutexGuard
    <3>10. CASE Unlock(c)
      <4>1. /\ guards[c][Len(guards[c])] \in MutexGuard
            /\ SubSeq(guards[c], 1, Len(guards[c]) - 1) \in Seq(MutexGuard)
        BY <3>10, FrontFacts DEF Unlock
      <4>2. guards' \in [Ctx -> Seq(MutexGuard)]
        BY <3>10, <4>1 DEF Unlock
      <4>3. locked' \in [Mutexes -> BOOLEAN] /\ saved' \in [Ctx -> BOOLEAN]
        BY <3>10, <4>1 DEF Unlock, MutexGuard
      <4> QED
        BY <3>10, <4>2, <4>3 DEF Unlock
    <3>11. CASE RestoreSie(c)
      BY <3>0, <3>11 DEF RestoreSie
    <3> QED
      BY <2>1, <3>1, <3>2, <3>3, <3>4, <3>5, <3>6, <3>7, <3>8, <3>9, <3>10, <3>11 DEF CtxStep
  <2>2. ASSUME NEW h \in Harts, HartStep(h) PROVE TypeInv'
    BY <2>2, ZenonT(30) DEF HartStep, SetIrq, IrqEnter, IrqReturn
  <2>3. CASE UNCHANGED vars
    BY <2>3 DEF vars
  <2> QED
    BY <2>1, <2>2, <2>3 DEF Next
<1>3. QED
  BY <1>1, <1>2, PTL DEF Spec

\* The variables of the spin mutex keep their types (Mutex, SpinNoIrq).
COROLLARY TypeCorrect == Spec => []TypeOK
<1>1. TypeInv => TypeOK
  BY DEF TypeInv
<1> QED BY <1>1, TypeInvariant, PTL

-----------------------------------------------------------------------------
(* Mutual exclusion.  It is not inductive alone: a store of false by one   *)
(* context must not free a mutex another one owns, so `locked` is related  *)
(* to the owners and the guards of a context are kept distinct.            *)

Acquiring == {"ensure", "init_cas", "init_wait", "init_write", "cas", "check", "spin", "own"}

OwnedIsLocked == \A c \in Ctx, m \in Mutexes : Owns(c, m) => locked[m]

GuardsDistinct ==
    \A c \in Ctx : \A i, j \in 1..Len(guards[c]) :
        guards[c][i].mutex = guards[c][j].mutex => i = j

TargetFresh == \A c \in Ctx : pc[c] \in Acquiring => ~HasGuard(c, target[c])

ExclInv == MutualExclusion /\ OwnedIsLocked /\ GuardsDistinct /\ TargetFresh

\* A step that changes neither the lock words nor the guards, and wins no
\* exchange, keeps the exclusion invariant.
LEMMA ExclFrame ==
    ASSUME ExclInv, guards' = guards, locked' = locked,
           \A d \in Ctx : pc'[d] = "own" => pc[d] = "own" /\ target'[d] = target[d],
           \A d \in Ctx : pc'[d] \in Acquiring =>
               \/ pc[d] \in Acquiring /\ target'[d] = target[d]
               \/ ~HasGuard(d, target'[d])
    PROVE  ExclInv'
<1>1. \A d \in Ctx, m \in Mutexes : Owns(d, m)' => Owns(d, m)
  BY DEF Owns, HasGuard
<1>2. MutualExclusion' /\ OwnedIsLocked'
  BY <1>1 DEF ExclInv, MutualExclusion, OwnedIsLocked
<1>3. GuardsDistinct' /\ TargetFresh'
  BY DEF ExclInv, GuardsDistinct, TargetFresh, HasGuard
<1> QED
  BY <1>2, <1>3 DEF ExclInv

\* Two contexts never hold the same mutex: what obtain_lock and the guard's
\* drop promise to the data behind the lock.
THEOREM MutualExclusionHolds == Spec => []MutualExclusion
<1>1. Init => ExclInv
  BY DEF Init, ExclInv, MutualExclusion, OwnedIsLocked, GuardsDistinct, TargetFresh, Owns, HasGuard, Acquiring
<1>2. TypeInv /\ ExclInv /\ [Next]_vars => ExclInv'
  <2> SUFFICES ASSUME TypeInv, ExclInv, [Next]_vars PROVE ExclInv'
    OBVIOUS
  <2>0. TypeOK
    BY DEF TypeInv
  <2>1. ASSUME NEW c \in Ctx, CtxStep(c) PROVE ExclInv'
    <3>1. ASSUME NEW m \in Mutexes, BeforeLock(c, m) PROVE ExclInv'
      BY <3>1, <2>0, ExclFrame DEF BeforeLock, Acquiring, TypeOK, Goto, At, mutex, hart, local
    <3>2. CASE EnsureLoad(c)
      BY <3>2, <2>0, ExclFrame DEF EnsureLoad, Acquiring, TypeOK, Goto, At, mutex, hart, local
    <3>3. CASE EnsureCas(c)
      BY <3>3, <2>0, ExclFrame DEF EnsureCas, Acquiring, TypeOK, Goto, At, mutex, hart, local
    <3>4. CASE EnsureWait(c)
      BY <3>4, <2>0, ExclFrame DEF EnsureWait, Acquiring, TypeOK, Goto, At, mutex, hart, local
    <3>5. CASE EnsureWrite(c)
      BY <3>5, <2>0, ExclFrame DEF EnsureWrite, Acquiring, TypeOK, Goto, At, mutex, hart, local
    <3>6. CASE Cas(c)
      <4>1. /\ locked' = [locked EXCEPT ![target[c]] = TRUE]
            /\ pc' = [pc EXCEPT ![c] = IF locked[target[c]] THEN "check" ELSE "own"]
            /\ guards' = guards /\ target' = target /\ pc[c] = "cas" /\ target[c] \in Mutexes
        BY <2>0, <3>6 DEF Cas, At, Goto, TypeOK, mutex, hart, local
      <4>2. \A d \in Ctx, m \in Mutexes : Owns(d, m)' =>
               Owns(d, m) \/ (d = c /\ m = target[c] /\ ~locked[m])
        BY <2>0, <4>1 DEF Owns, HasGuard, TypeOK
      <4>3. \A m \in Mutexes : locked[m] => locked'[m]
        BY <2>0, <4>1 DEF TypeOK
      <4>4. locked'[target[c]]
        BY <2>0, <4>1 DEF TypeOK
      <4>5. OwnedIsLocked'
        BY <4>2, <4>3, <4>4 DEF ExclInv, OwnedIsLocked
      <4>6. MutualExclusion'
        BY <4>2 DEF ExclInv, MutualExclusion, OwnedIsLocked
      <4>7. GuardsDistinct' /\ TargetFresh'
        BY <2>0, <4>1 DEF ExclInv, GuardsDistinct, TargetFresh, HasGuard, Acquiring, TypeOK
      <4> QED
        BY <4>5, <4>6, <4>7 DEF ExclInv
    <3>7. CASE CheckOwner(c)
      BY <3>7, <2>0, ExclFrame DEF CheckOwner, Acquiring, TypeOK, Goto, At, mutex, hart, local
    <3>8. CASE Spin(c)
      BY <3>8, <2>0, ExclFrame DEF Spin, Acquiring, TypeOK, Goto, At, mutex, hart, local
    <3>9. CASE WriteOwner(c)
      <4>1. PICK g \in MutexGuard : g.mutex = target[c] /\ guards' = [guards EXCEPT ![c] = Append(@, g)]
        BY <2>0, <3>9, ZenonT(30) DEF WriteOwner, MutexGuard, TypeOK
      <4>2. /\ guards'[c] = Append(guards[c], g) /\ guards[c] \in Seq(MutexGuard)
            /\ \A d \in Ctx : d # c => guards'[d] = guards[d]
            /\ pc[c] = "own" /\ pc'[c] = "idle" /\ \A d \in Ctx : d # c => pc'[d] = pc[d]
            /\ locked' = locked /\ target' = target
        BY <2>0, <3>9, <4>1 DEF WriteOwner, At, Goto, TypeOK
      <4>3. /\ Len(guards'[c]) = Len(guards[c]) + 1 /\ Len(guards[c]) \in Nat
            /\ guards'[c][Len(guards[c]) + 1] = g
            /\ \A i \in 1..Len(guards[c]) : guards'[c][i] = guards[c][i]
        BY <4>1, <4>2
      <4>4. \A m : HasGuard(c, m)' => HasGuard(c, m) \/ m = target[c]
        BY <4>1, <4>3 DEF HasGuard
      <4>5. \A d \in Ctx, m \in Mutexes : Owns(d, m)' => Owns(d, m)
        <5>1. \A d \in Ctx, m \in Mutexes : d # c /\ HasGuard(d, m)' => HasGuard(d, m)
          BY <4>2 DEF HasGuard
        <5> QED
          BY <4>2, <4>4, <5>1 DEF Owns
      <4>6. MutualExclusion' /\ OwnedIsLocked'
        BY <4>2, <4>5 DEF ExclInv, MutualExclusion, OwnedIsLocked
      <4>7. ~HasGuard(c, target[c])
        BY <4>2 DEF ExclInv, TargetFresh, Acquiring
      <4>8. \A i, j \in 1..Len(guards'[c]) : guards'[c][i].mutex = guards'[c][j].mutex => i = j
        BY <4>1, <4>3, <4>7 DEF ExclInv, GuardsDistinct, HasGuard
      <4>9. GuardsDistinct'
        BY <4>2, <4>8, ZenonT(30) DEF ExclInv, GuardsDistinct
      <4>10. TargetFresh'
        BY <4>2 DEF ExclInv, TargetFresh, HasGuard, Acquiring
      <4> QED
        BY <4>6, <4>9, <4>10 DEF ExclInv
    <3>10. CASE Unlock(c)
      <4>1. PICK g \in MutexGuard : /\ g = guards[c][Len(guards[c])]
                                    /\ locked' = [locked EXCEPT ![g.mutex] = FALSE]
        BY <2>0, <3>10, FrontFacts, ZenonT(30) DEF Unlock, TypeOK
      <4>2. /\ guards'[c] = SubSeq(guards[c], 1, Len(guards[c]) - 1)
            /\ \A d \in Ctx : d # c => guards'[d] = guards[d]
            /\ pc[c] = "idle" /\ pc'[c] = "restore" /\ \A d \in Ctx : d # c => pc'[d] = pc[d]
            /\ target' = target /\ g.mutex \in Mutexes
        BY <2>0, <3>10 DEF Unlock, At, Goto, TypeOK, MutexGuard
      <4>3. PICK n \in Nat : /\ n = Len(guards[c]) /\ n # 0 /\ Len(guards'[c]) = n - 1
                             /\ \A i \in 1..(n - 1) : guards'[c][i] = guards[c][i]
        <5>1. guards[c] \in Seq(MutexGuard) /\ guards[c] # <<>>
          BY <2>0, <3>10 DEF Unlock, TypeOK
        <5> QED
          BY <4>2, <5>1, FrontFacts
      <4>4. /\ \A m : HasGuard(c, m)' => HasGuard(c, m)
            /\ HasGuard(c, g.mutex)
        BY <4>1, <4>3 DEF HasGuard
      <4>5. ~HasGuard(c, g.mutex)'
        <5>1. \A i, j \in 1..Len(guards[c]) : guards[c][i].mutex = guards[c][j].mutex => i = j
          BY ZenonT(30) DEF ExclInv, GuardsDistinct
        <5> QED
          BY <4>1, <4>3, <5>1 DEF HasGuard
      <4>6. \A d \in Ctx, m \in Mutexes : Owns(d, m)' => Owns(d, m)
        <5>1. \A d \in Ctx, m \in Mutexes : d # c /\ HasGuard(d, m)' => HasGuard(d, m)
          BY <4>2 DEF HasGuard
        <5> QED
          BY <4>2, <4>4, <5>1 DEF Owns
      <4>7. \A d \in Ctx : ~Owns(d, g.mutex)'
        <5> SUFFICES ASSUME NEW d \in Ctx, Owns(d, g.mutex)' PROVE FALSE
          OBVIOUS
        <5>1. Owns(c, g.mutex) /\ Owns(d, g.mutex)
          BY <4>2, <4>4, <4>6 DEF Owns
        <5>2. d = c
          BY <4>2, <5>1 DEF ExclInv, MutualExclusion
        <5> QED
          BY <4>2, <4>5, <5>2 DEF Owns
      <4>8. \A m \in Mutexes : m # g.mutex => locked'[m] = locked[m]
        BY <2>0, <4>1 DEF TypeOK
      <4>9. MutualExclusion' /\ OwnedIsLocked'
        BY <4>6, <4>7, <4>8 DEF ExclInv, MutualExclusion, OwnedIsLocked
      <4>10. GuardsDistinct'
        <5>1. \A i, j \in 1..Len(guards'[c]) : guards'[c][i].mutex = guards'[c][j].mutex => i = j
          <6>1. \A i, j \in 1..Len(guards[c]) : guards[c][i].mutex = guards[c][j].mutex => i = j
            BY ZenonT(30) DEF ExclInv, GuardsDistinct
          <6>2. \A i \in 1..Len(guards'[c]) : i \in 1..Len(guards[c]) /\ guards'[c][i] = guards[c][i]
            BY <4>3
          <6> QED
            BY <6>1, <6>2, ZenonT(30)
        <5> QED
          BY <4>2, <5>1, ZenonT(30) DEF ExclInv, GuardsDistinct
      <4>11. TargetFresh'
        BY <4>2 DEF ExclInv, TargetFresh, HasGuard, Acquiring
      <4> QED
        BY <4>9, <4>10, <4>11 DEF ExclInv
    <3>11. CASE RestoreSie(c)
      BY <3>11, <2>0, ExclFrame DEF RestoreSie, Acquiring, TypeOK, Goto, At, mutex, hart, local
    <3> QED
      BY <2>1, <3>1, <3>2, <3>3, <3>4, <3>5, <3>6, <3>7, <3>8, <3>9, <3>10, <3>11 DEF CtxStep
  <2>2. ASSUME NEW h \in Harts, HartStep(h) PROVE ExclInv'
    BY <2>2, ExclFrame DEF HartStep, SetIrq, IrqEnter, IrqReturn, mutex, local
  <2>3. CASE UNCHANGED vars
    BY <2>3, ExclFrame DEF vars, mutex, local
  <2> QED
    BY <2>1, <2>2, <2>3 DEF Next
<1>3. QED
  BY <1>1, <1>2, TypeInvariant, PTL DEF Spec, ExclInv

-----------------------------------------------------------------------------
(* Interrupts.  SIE is off on a hart while a context of it is inside a     *)
(* guard, and the FlagsGuard of the outermost guard alone remembers what   *)
(* SIE was: both are needed to know what the restoring drop writes.        *)

Busy(c) == pc[c] # "idle" \/ guards[c] # <<>>

Task(h) == <<h, "task">>
Handler(h) == <<h, "irq">>

SieInv(h) ==
    /\ Busy(Task(h)) \/ Busy(Handler(h)) => ~sie[h]
    /\ in_irq[h] => ~Busy(Task(h)) /\ ~sie[h] /\ irq_on[h]
    /\ ~in_irq[h] => ~Busy(Handler(h))
    /\ ~in_irq[h] /\ ~Busy(Task(h)) => (sie[h] <=> irq_on[h])

FlagsInv(h) ==
    /\ ~saved[Handler(h)]
    /\ \A k \in 1..Len(guards[Handler(h)]) : ~guards[Handler(h)][k].sie
    /\ saved[Task(h)] => guards[Task(h)] = <<>>
    /\ \A k \in 1..Len(guards[Task(h)]) : guards[Task(h)][k].sie <=> (k = 1 /\ irq_on[h])
    /\ guards[Task(h)] = <<>> /\ pc[Task(h)] # "idle" => (saved[Task(h)] <=> irq_on[h])

IrqInv == \A h \in Harts : SieInv(h) /\ FlagsInv(h)

\* A hart none of whose variables changes keeps its invariant, and so does one
\* whose contexts only move inside lock().
LEMMA IrqFrame ==
    ASSUME NEW h \in Harts, SieInv(h), FlagsInv(h),
           sie'[h] = sie[h], in_irq'[h] = in_irq[h], irq_on'[h] = irq_on[h],
           \A x \in {"task", "irq"} :
               /\ guards'[<<h, x>>] = guards[<<h, x>>] /\ saved'[<<h, x>>] = saved[<<h, x>>]
               /\ pc'[<<h, x>>] = "idle" <=> pc[<<h, x>>] = "idle"
    PROVE  SieInv(h)' /\ FlagsInv(h)'
<1>1. /\ guards'[Task(h)] = guards[Task(h)] /\ saved'[Task(h)] = saved[Task(h)]
      /\ guards'[Handler(h)] = guards[Handler(h)] /\ saved'[Handler(h)] = saved[Handler(h)]
      /\ pc'[Task(h)] = "idle" <=> pc[Task(h)] = "idle"
      /\ pc'[Handler(h)] = "idle" <=> pc[Handler(h)] = "idle"
  BY ZenonT(30) DEF Task, Handler
<1>2. SieInv(h)'
  BY <1>1, SMTT(30) DEF SieInv, Busy
<1>3. FlagsInv(h)'
  BY <1>1, ZenonT(30) DEF FlagsInv
<1> QED
  BY <1>2, <1>3, ZenonT(30)

\* A step of one context leaves the other contexts, the other harts' SIE and
\* the trap state alone.
LEMMA CtxStepLocal ==
    ASSUME TypeOK, NEW c \in Ctx, CtxStep(c)
    PROVE  /\ in_irq' = in_irq /\ irq_on' = irq_on
           /\ \A d \in Ctx : d # c => pc'[d] = pc[d] /\ guards'[d] = guards[d] /\ saved'[d] = saved[d]
           /\ \A h \in Harts : h # c[1] => sie'[h] = sie[h]
<1> USE DEF TypeOK, Goto, mutex, hart, local
<1> DEFINE P == /\ in_irq' = in_irq /\ irq_on' = irq_on
                /\ \A d \in Ctx : d # c => pc'[d] = pc[d] /\ guards'[d] = guards[d] /\ saved'[d] = saved[d]
                /\ \A h \in Harts : h # c[1] => sie'[h] = sie[h]
<1>1. ASSUME NEW m \in Mutexes, BeforeLock(c, m) PROVE P
  BY <1>1 DEF BeforeLock
<1>2. CASE EnsureLoad(c) \/ EnsureCas(c) \/ EnsureWait(c) \/ EnsureWrite(c)
  BY <1>2 DEF EnsureLoad, EnsureCas, EnsureWait, EnsureWrite
<1>3. CASE Cas(c) \/ CheckOwner(c) \/ Spin(c)
  BY <1>3 DEF Cas, CheckOwner, Spin
<1>4. CASE WriteOwner(c)
  BY <1>4 DEF WriteOwner
<1>5. CASE Unlock(c)
  BY <1>5 DEF Unlock
<1>6. CASE RestoreSie(c)
  BY <1>6 DEF RestoreSie
<1> QED
  BY <1>1, <1>2, <1>3, <1>4, <1>5, <1>6, ZenonT(30) DEF CtxStep

\* The steps of a context preserve the invariant of its own hart.
LEMMA OwnHartStep ==
    ASSUME TypeOK, NEW h \in Harts, NEW x \in {"task", "irq"}, SieInv(h), FlagsInv(h), CtxStep(<<h, x>>)
    PROVE  SieInv(h)' /\ FlagsInv(h)'
<1> DEFINE c == <<h, x>>
<1>0. c \in Ctx /\ c[1] = h /\ Task(h) \in Ctx /\ Handler(h) \in Ctx /\ Task(h) # Handler(h)
  BY SMTT(30) DEF Ctx, Task, Handler
<1>1. /\ in_irq' = in_irq /\ irq_on' = irq_on
      /\ \A d \in Ctx : d # c => pc'[d] = pc[d] /\ guards'[d] = guards[d] /\ saved'[d] = saved[d]
  BY <1>0, CtxStepLocal
<1>2. \/ c = Task(h) /\ (Running(c) => ~in_irq[h])
      \/ c = Handler(h) /\ (Running(c) => in_irq[h])
  BY DEF Task, Handler, Running, TypeOK
<1> HIDE DEF c
<1>3. ASSUME NEW m \in Mutexes, BeforeLock(c, m) PROVE SieInv(h)' /\ FlagsInv(h)'
  <2>1. /\ Running(c) /\ pc[c] = "idle" /\ pc'[c] = "ensure" /\ guards' = guards
        /\ saved'[c] = sie[h] /\ sie'[h] = FALSE
    BY <1>0, <1>3, SMTT(30) DEF BeforeLock, At, Goto, TypeOK
  <2>2. SieInv(h)'
    BY <1>0, <1>1, <1>2, <2>1, ZenonT(30) DEF SieInv, Busy
  <2>3. FlagsInv(h)'
    BY <1>0, <1>1, <1>2, <2>1, ZenonT(30) DEF SieInv, FlagsInv, Busy
  <2> QED
    BY <2>2, <2>3
<1>4. CASE \/ EnsureLoad(c) \/ EnsureCas(c) \/ EnsureWait(c) \/ EnsureWrite(c)
           \/ Cas(c) \/ CheckOwner(c) \/ Spin(c)
  <2>1. /\ guards' = guards /\ saved' = saved /\ sie' = sie
        /\ pc[c] # "idle" /\ pc'[c] # "idle"
    BY <1>0, <1>4 DEF EnsureLoad, EnsureCas, EnsureWait, EnsureWrite, Cas, CheckOwner, Spin,
                      At, Goto, TypeOK, hart, local
  <2>2. \A y \in {"task", "irq"} : <<h, y>> \in Ctx
    BY DEF Ctx
  <2> QED
    BY <1>1, <2>1, <2>2, IrqFrame
<1>5. CASE WriteOwner(c)
  <2>1. /\ Running(c) /\ pc[c] = "own" /\ pc'[c] = "idle" /\ sie' = sie /\ saved'[c] = FALSE
        /\ guards[c] \in Seq(MutexGuard)
    BY <1>0, <1>5 DEF WriteOwner, At, Goto, TypeOK, hart
  <2>2. PICK g \in MutexGuard : g.sie = saved[c] /\ guards'[c] = Append(guards[c], g)
    <3>1. target[c] \in Mutexes /\ saved[c] \in BOOLEAN
      BY <1>0 DEF TypeOK
    <3>2. [mutex |-> target[c], sie |-> saved[c]] \in MutexGuard
      BY <3>1 DEF MutexGuard
    <3>3. guards'[c] = Append(guards[c], [mutex |-> target[c], sie |-> saved[c]])
      BY <1>0, <1>5 DEF WriteOwner, TypeOK
    <3> QED
      BY <3>2, <3>3
  <2>3. PICK n \in Nat : /\ n = Len(guards[c]) /\ Len(guards'[c]) = n + 1 /\ guards'[c][n + 1] = g
                         /\ \A k \in 1..n : guards'[c][k] = guards[c][k]
                         /\ n = 0 <=> guards[c] = <<>>
    BY <2>1, <2>2
  <2>4. guards'[c] # <<>>
    BY <2>3, SMTT(30)
  <2>5. SieInv(h)'
    BY <1>0, <1>1, <1>2, <2>1, <2>4, ZenonT(30) DEF SieInv, Busy
  <2>6. CASE c = Task(h)
    <3>1. \A k \in 1..n : guards'[c][k].sie <=> (k = 1 /\ irq_on[h])
      BY <2>3, <2>6, SMTT(30) DEF FlagsInv
    <3>2. g.sie <=> (n + 1 = 1 /\ irq_on[h])
      BY <2>1, <2>2, <2>3, <2>6 DEF FlagsInv
    <3>3. \A k \in 1..Len(guards'[c]) : guards'[c][k].sie <=> (k = 1 /\ irq_on[h])
      <4>1. \A k \in 1..Len(guards'[c]) : k \in 1..n \/ k = n + 1
        BY <2>3
      <4> QED
        BY <2>3, <3>1, <3>2, <4>1, ZenonT(30)
    <3>4. guards'[Handler(h)] = guards[Handler(h)] /\ saved'[Handler(h)] = saved[Handler(h)]
      BY <1>0, <1>1, <2>6, ZenonT(30)
    <3>5. \A k \in 1..Len(guards'[Handler(h)]) : ~guards'[Handler(h)][k].sie
      BY <3>4 DEF FlagsInv
    <3>6. ~saved'[Handler(h)] /\ ~saved'[Task(h)]
      BY <2>1, <2>6, <3>4, ZenonT(30) DEF FlagsInv
    <3> QED
      BY <1>1, <2>4, <2>5, <2>6, <3>3, <3>5, <3>6, SMTT(30) DEF FlagsInv
  <2>7. CASE c = Handler(h)
    <3>1. \A k \in 1..Len(guards'[c]) : ~guards'[c][k].sie
      BY <2>2, <2>3, <2>7, SMTT(30) DEF FlagsInv
    <3>2. guards'[Task(h)] = guards[Task(h)] /\ saved'[Task(h)] = saved[Task(h)] /\ pc'[Task(h)] = pc[Task(h)]
      BY <1>0, <1>1, <2>7
    <3>3. \A k \in 1..Len(guards'[Task(h)]) : guards'[Task(h)][k].sie <=> (k = 1 /\ irq_on'[h])
      BY <1>1, <3>2, ZenonT(30) DEF FlagsInv
    <3>4. ~saved'[Handler(h)] /\ (saved'[Task(h)] => guards'[Task(h)] = <<>>)
      BY <2>1, <2>7, <3>2 DEF FlagsInv
    <3> QED
      BY <1>1, <2>5, <2>7, <3>1, <3>2, <3>3, <3>4, ZenonT(30) DEF FlagsInv
  <2> QED
    BY <1>2, <2>5, <2>6, <2>7
<1>6. CASE Unlock(c)
  <2>1. /\ Running(c) /\ pc'[c] = "restore" /\ sie' = sie /\ guards[c] # <<>>
        /\ guards[c] \in Seq(MutexGuard) /\ saved'[c] = guards[c][Len(guards[c])].sie
        /\ guards'[c] = SubSeq(guards[c], 1, Len(guards[c]) - 1)
    BY <1>0, <1>6 DEF Unlock, At, Goto, TypeOK, hart
  <2>2. PICK n \in Nat : /\ n = Len(guards[c]) /\ n # 0 /\ Len(guards'[c]) = n - 1
                         /\ \A k \in 1..(n - 1) : guards'[c][k] = guards[c][k]
                         /\ guards'[c] \in Seq(MutexGuard)
    BY <2>1, FrontFacts
  <2>3. n = 1 <=> guards'[c] = <<>>
    <3>1. \A q \in Seq(MutexGuard) : q = <<>> <=> Len(q) = 0
      OBVIOUS
    <3>2. guards'[c] \in Seq(MutexGuard) /\ Len(guards'[c]) = n - 1
      BY <2>2
    <3>3. guards'[c] = <<>> <=> n - 1 = 0
      BY <3>1, <3>2, ZenonT(30)
    <3> QED
      BY <3>3
  <2>4. SieInv(h)'
    BY <1>0, <1>1, <1>2, <2>1, ZenonT(30) DEF SieInv, Busy
  <2>5. CASE c = Task(h)
    <3>1. \A k \in 1..Len(guards'[c]) : guards'[c][k].sie <=> (k = 1 /\ irq_on[h])
      BY <2>2, <2>5 DEF FlagsInv
    <3>2. guards[c][n].sie <=> (n = 1 /\ irq_on[h])
      <4>1. n \in 1..Len(guards[Task(h)])
        BY <2>2, <2>5
      <4> QED
        BY <2>5, <4>1 DEF FlagsInv
    <3>3. saved'[c] <=> (n = 1 /\ irq_on[h])
      BY <2>1, <2>2, <3>2
    <3>4. guards'[Handler(h)] = guards[Handler(h)] /\ saved'[Handler(h)] = saved[Handler(h)]
      BY <1>0, <1>1, <2>5
    <3>5. \A k \in 1..Len(guards'[Handler(h)]) : ~guards'[Handler(h)][k].sie
      BY <3>4, ZenonT(30) DEF FlagsInv
    <3> QED
      BY <1>1, <2>3, <2>4, <2>5, <3>1, <3>3, <3>4, <3>5, ZenonT(30) DEF FlagsInv
  <2>6. CASE c = Handler(h)
    <3>1. (\A k \in 1..Len(guards'[c]) : ~guards'[c][k].sie) /\ ~saved'[c]
      <4>1. \A k \in 1..Len(guards[c]) : ~guards[c][k].sie
        BY <2>6, ZenonT(30) DEF FlagsInv
      <4>2. /\ n \in 1..Len(guards[c])
            /\ \A k \in 1..Len(guards'[c]) : k \in 1..Len(guards[c]) /\ guards'[c][k] = guards[c][k]
        BY <2>2
      <4> QED
        BY <2>1, <2>2, <4>1, <4>2, ZenonT(30)
    <3>2. guards'[Task(h)] = guards[Task(h)] /\ saved'[Task(h)] = saved[Task(h)] /\ pc'[Task(h)] = pc[Task(h)]
      BY <1>0, <1>1, <2>6, SMTT(30)
    <3>3. \A k \in 1..Len(guards'[Task(h)]) : guards'[Task(h)][k].sie <=> (k = 1 /\ irq_on'[h])
      BY <1>1, <3>2 DEF FlagsInv
    <3> QED
      BY <1>1, <2>4, <2>6, <3>1, <3>2, <3>3, ZenonT(30) DEF FlagsInv
  <2> QED
    BY <1>2, <2>4, <2>5, <2>6
<1>7. CASE RestoreSie(c)
  <2>1. /\ Running(c) /\ pc[c] = "restore" /\ pc'[c] = "idle" /\ guards' = guards
        /\ saved'[c] = FALSE /\ sie'[h] = (sie[h] \/ saved[c])
    BY <1>0, <1>7, SMTT(30) DEF RestoreSie, At, Goto, TypeOK, hart
  <2>2. SieInv(h)'
    BY <1>0, <1>1, <1>2, <2>1, ZenonT(30) DEF SieInv, FlagsInv, Busy
  <2>3. FlagsInv(h)'
    BY <1>0, <1>1, <1>2, <2>1 DEF FlagsInv
  <2> QED
    BY <2>2, <2>3
<1> QED
  BY <1>3, <1>4, <1>5, <1>6, <1>7 DEF CtxStep, c

\* SIE and the saved flags agree in every reachable state.
LEMMA IrqInvariant == Spec => []IrqInv
<1>1. Init => IrqInv
  <2> SUFFICES ASSUME Init, NEW h \in Harts PROVE SieInv(h) /\ FlagsInv(h)
    BY ZenonT(30) DEF IrqInv
  <2>1. Task(h) \in Ctx /\ Handler(h) \in Ctx
    BY DEF Task, Handler, Ctx
  <2>2. /\ \A c \in Ctx : pc[c] = "idle" /\ guards[c] = <<>> /\ saved[c] = FALSE
        /\ sie[h] = FALSE /\ irq_on[h] = FALSE /\ in_irq[h] = FALSE
    BY DEF Init
  <2> QED
    BY <2>1, <2>2 DEF SieInv, FlagsInv, Busy
<1>2. TypeInv /\ IrqInv /\ [Next]_vars => IrqInv'
  <2> SUFFICES ASSUME TypeInv, IrqInv, [Next]_vars, NEW h \in Harts
               PROVE  SieInv(h)' /\ FlagsInv(h)'
    BY DEF IrqInv
  <2>0. TypeOK /\ SieInv(h) /\ FlagsInv(h) /\ Task(h) \in Ctx /\ Handler(h) \in Ctx
    BY DEF TypeInv, IrqInv, Task, Handler, Ctx
  <2>1. ASSUME NEW c \in Ctx, CtxStep(c) PROVE SieInv(h)' /\ FlagsInv(h)'
    <3>1. PICK x \in {"task", "irq"} : c = <<c[1], x>> /\ c[1] \in Harts
      BY DEF Ctx
    <3>2. CASE c[1] = h
      BY <2>0, <2>1, <3>1, <3>2, OwnHartStep, ZenonT(30)
    <3>3. CASE c[1] # h
      <4>1. \A y \in {"task", "irq"} : <<h, y>> \in Ctx /\ <<h, y>> # c
        BY <3>1, <3>3 DEF Ctx
      <4> QED
        BY <2>0, <2>1, <3>3, <4>1, CtxStepLocal, IrqFrame
    <3> QED
      BY <3>2, <3>3
  <2>2. ASSUME NEW g \in Harts, HartStep(g) PROVE SieInv(h)' /\ FlagsInv(h)'
    <3>0. /\ guards' = guards /\ saved' = saved /\ pc' = pc
          /\ g # h => sie'[h] = sie[h] /\ in_irq'[h] = in_irq[h] /\ irq_on'[h] = irq_on[h]
      BY <2>0, <2>2, ZenonT(30) DEF HartStep, SetIrq, IrqEnter, IrqReturn, TypeOK, hart, local
    <3>1. CASE g # h
      BY <2>0, <3>0, <3>1, IrqFrame, ZenonT(30)
    <3>2. ASSUME NEW on \in BOOLEAN, g = h, SetIrq(h, on) PROVE SieInv(h)' /\ FlagsInv(h)'
      <4>1. /\ ~Busy(Task(h)) /\ ~in_irq[h] /\ guards[Task(h)] = <<>> /\ pc[Task(h)] = "idle"
            /\ sie'[h] = on /\ irq_on'[h] = on /\ in_irq' = in_irq
        BY <2>0, <3>2, ZenonT(30) DEF SetIrq, At, Running, TypeOK, Busy, Task
      <4>2. SieInv(h)'
        BY <2>0, <3>0, <4>1, ZenonT(30) DEF SieInv, Busy
      <4>3. FlagsInv(h)'
        <5>1. \A k \in 1..Len(guards[Task(h)]) : FALSE
          BY <4>1
        <5> QED
          BY <2>0, <3>0, <4>1, <5>1, ZenonT(30) DEF FlagsInv
      <4> QED
        BY <4>2, <4>3
    <3>3. CASE g = h /\ IrqEnter(h)
      <4>1. sie[h] /\ ~in_irq[h] /\ sie'[h] = FALSE /\ in_irq'[h] = TRUE /\ irq_on' = irq_on
        BY <2>0, <3>3, ZenonT(30) DEF IrqEnter, TypeOK
      <4>2. SieInv(h)'
        BY <2>0, <3>0, <4>1, ZenonT(30) DEF SieInv, Busy
      <4>3. FlagsInv(h)'
        BY <2>0, <3>0, <4>1, ZenonT(30) DEF FlagsInv
      <4> QED
        BY <4>2, <4>3
    <3>4. CASE g = h /\ IrqReturn(h)
      <4>1. /\ ~Busy(Handler(h)) /\ in_irq[h] /\ sie'[h] = TRUE /\ in_irq'[h] = FALSE
            /\ irq_on' = irq_on
        BY <2>0, <3>4, SMTT(30) DEF IrqReturn, At, TypeOK, Busy, Handler
      <4>2. SieInv(h)'
        BY <2>0, <3>0, <4>1, ZenonT(30) DEF SieInv, Busy
      <4>3. FlagsInv(h)'
        BY <2>0, <3>0, <4>1, ZenonT(30) DEF FlagsInv
      <4> QED
        BY <4>2, <4>3
    <3> QED
      BY <2>2, <3>1, <3>2, <3>3, <3>4 DEF HartStep
  <2>3. CASE UNCHANGED vars
    BY <2>0, <2>3, IrqFrame, ZenonT(30) DEF vars, hart, local
  <2> QED
    BY <2>1, <2>2, <2>3 DEF Next
<1>3. QED
  BY <1>1, <1>2, TypeInvariant, PTL DEF Spec

\* An interrupt handler never runs on top of a context that is inside a guard
\* of its own hart, so it can take any mutex without waiting for itself.
THEOREM HandlerFindsNoHolderHolds == Spec => []HandlerFindsNoHolder
<1>1. IrqInv => HandlerFindsNoHolder
  BY DEF IrqInv, SieInv, HandlerFindsNoHolder, Busy, Task
<1>2. QED
  BY <1>1, IrqInvariant, PTL

\* When the last guard of a hart is gone SIE is what the code outside the
\* guards set: nested lock() and drop() never enable interrupts early and
\* never leave them disabled.
THEOREM SieRestoredHolds == Spec => []SieRestored
<1>1. TypeOK /\ IrqInv => SieRestored
  BY DEF TypeOK, IrqInv, SieInv, SieRestored, Busy, Task
<1>2. TypeInv => TypeOK
  BY DEF TypeInv
<1>3. QED
  BY <1>1, <1>2, IrqInvariant, TypeInvariant, PTL

-----------------------------------------------------------------------------
(* ensure_support: whoever waits, waits for a 1 that only becomes a 2.     *)

SupportOf(c) ==
    /\ pc[c] = "init_wait" => support_init[target[c]] # 0
    /\ pc[c] = "init_write" => support_init[target[c]] = 1
    /\ pc[c] \in {"cas", "check", "spin", "own"} => support_init[target[c]] = 2

OneInitialiser ==
    \A c, d \in Ctx :
        pc[c] = "init_write" /\ pc[d] = "init_write" /\ target[c] = target[d] => c = d

SupportInv == (\A c \in Ctx : SupportOf(c)) /\ OneInitialiser

\* No context uses `support` before it is written: ensure_support is done
\* once, by one context, before any obtain_lock.
THEOREM SupportReadyHolds == Spec => []SupportReady
<1>1. Init => SupportInv
  BY DEF Init, SupportInv, SupportOf, OneInitialiser
<1>2. TypeInv /\ SupportInv /\ [Next]_vars => SupportInv'
  <2> SUFFICES ASSUME TypeOK, SupportInv, [Next]_vars PROVE SupportInv'
    BY SMTT(30) DEF TypeInv
  <2>1. ASSUME NEW c \in Ctx, CtxStep(c) PROVE SupportInv'
    <3> USE DEF TypeOK, At, Goto, mutex, hart, local, SupportInv, SupportOf, OneInitialiser
    <3>1. ASSUME NEW m \in Mutexes, BeforeLock(c, m) PROVE SupportInv'
      BY <3>1 DEF BeforeLock
    <3>2. CASE EnsureLoad(c)
      BY <3>2 DEF EnsureLoad
    <3>3. CASE EnsureCas(c)
      BY <3>3 DEF EnsureCas
    <3>4. CASE EnsureWait(c)
      BY <3>4 DEF EnsureWait
    <3>5. CASE EnsureWrite(c)
      BY <3>5 DEF EnsureWrite
    <3>6. CASE Cas(c)
      BY <3>6 DEF Cas
    <3>7. CASE CheckOwner(c)
      BY <3>7 DEF CheckOwner
    <3>8. CASE Spin(c)
      BY <3>8, SMTT(30) DEF Spin
    <3>9. CASE WriteOwner(c)
      BY <3>9, ZenonT(30) DEF WriteOwner
    <3>10. CASE Unlock(c)
      BY <3>10 DEF Unlock
    <3>11. CASE RestoreSie(c)
      BY <3>11, SMTT(30) DEF RestoreSie
    <3> QED
      BY <2>1, <3>1, <3>2, <3>3, <3>4, <3>5, <3>6, <3>7, <3>8, <3>9, <3>10, <3>11, ZenonT(30) DEF CtxStep
  <2>2. ASSUME NEW h \in Harts, HartStep(h) PROVE SupportInv'
    BY <2>2, ZenonT(30) DEF HartStep, SetIrq, IrqEnter, IrqReturn, mutex, local, SupportInv, SupportOf, OneInitialiser
  <2>3. CASE UNCHANGED vars
    BY <2>3, SMTT(30) DEF vars, mutex, local, SupportInv, SupportOf, OneInitialiser
  <2> QED
    BY <2>1, <2>2, <2>3 DEF Next
<1>3. SupportInv => SupportReady
  BY DEF SupportInv, SupportOf, SupportReady
<1>4. QED
  BY <1>1, <1>2, <1>3, TypeInvariant, PTL DEF Spec

-------------------------------------------------------------------------------
(* The sleep lock. *)

TaskStates == {"new", "idle", "wait", "own", "done"}

\* The inductive invariant: exclusion, with the types it needs.
GuardInv ==
    /\ holding \in BOOLEAN
    /\ st \in [Tasks -> TaskStates]
    /\ OneGuard

\* SleepLockFuture::poll hands the guard out only where holding was FALSE.
LEMMA PollLockExcl ==
    ASSUME GuardInv, NEW t \in Tasks, PollLock(t)
    PROVE  GuardInv'
<1>1. CASE holding
  BY <1>1 DEF GuardInv, OneGuard, PollLock, TaskStates
<1>2. CASE ~holding
  BY <1>2 DEF GuardInv, OneGuard, PollLock, TaskStates
<1> QED BY <1>1, <1>2 DEF GuardInv

\* SleepLockGuard::drop clears holding where its task was the owner.
LEMMA DropGuardExcl ==
    ASSUME GuardInv, NEW t \in Tasks, DropGuard(t)
    PROVE  GuardInv'
BY ZenonT(30) DEF GuardInv, OneGuard, DropGuard, TaskStates

\* A task that starts or ends neither has nor had the guard.
LEMMA LifeExcl ==
    ASSUME GuardInv, NEW t \in Tasks, Start(t) \/ Finish(t)
    PROVE  GuardInv'
BY DEF GuardInv, OneGuard, Start, Finish, lock, TaskStates

\* At most one task owns a guard and holding says whether one does, although a
\* drop wakes a waiter without handing the lock over and wakers may be stale
\* (sleep.rs 60-86): OneGuard is an invariant.
THEOREM OneGuardHolds == SleepSpec => []OneGuard
<1>1. SleepInit => GuardInv
  BY ZenonT(30) DEF SleepInit, GuardInv, OneGuard, TaskStates
<1>2. GuardInv /\ [SleepNext]_sleepVars => GuardInv'
  <2> SUFFICES ASSUME GuardInv, [SleepNext]_sleepVars PROVE GuardInv'
    OBVIOUS
  <2>1. ASSUME UNCHANGED <<lock, st>>
        PROVE  GuardInv'
    BY <2>1 DEF GuardInv, OneGuard, lock
  <2>2. ASSUME NEW t \in Tasks, Await(t) \/ StaleWake(t)
        PROVE  GuardInv'
    BY <2>1, <2>2 DEF Await, StaleWake
  <2>3. CASE Poll
    BY <2>1, <2>3 DEF Poll
  <2>4. CASE UNCHANGED sleepVars
    BY <2>1, <2>4 DEF sleepVars
  <2> QED BY <2>2, <2>3, <2>4, PollLockExcl, DropGuardExcl, LifeExcl DEF SleepNext, RunTask
<1>3. GuardInv => OneGuard
  BY DEF GuardInv
<1> QED BY <1>1, <1>2, <1>3, PTL DEF SleepSpec
===============================================================================
