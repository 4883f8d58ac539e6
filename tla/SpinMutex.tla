------------------------------ MODULE SpinMutex ------------------------------
(***************************************************************************)
(* The spinning, interrupt-disabling mutex of src/src/sync/mutex.rs        *)
(* (SpinNoIrqLock), used by several harts whose interrupt handlers take    *)
(* the same mutexes.                                                       *)
(*                                                                         *)
(* A context is <<hart, "task">> (the kernel code a hart runs) or          *)
(* <<hart, "irq">> (the trap handler that interrupts it).  Every atomic    *)
(* access of lock() and of the guard's drop is a step of its own.          *)
(***************************************************************************)
EXTENDS Naturals, Sequences

CONSTANTS
    Harts,      \* the harts that run kernel code
    Hart0,      \* hart id 0, the initial value of Mutex::hart_id
    Mutexes,    \* the mutexes of the kernel
    TryLimit,   \* failed loads before "dead lock detected" (0x1000000 in the code)
    MaxNesting  \* guards a context holds at a time

ASSUME LimitsAreNat == TryLimit \in Nat \ {0} /\ MaxNesting \in Nat \ {0}

VARIABLES
    locked,        \* Mutex::locked
    hart_id,       \* Mutex::hart_id
    support_init,  \* Mutex::support_init: 0, 1 or 2
    sie,           \* sstatus.SIE of each hart
    in_irq,        \* whether the hart is inside its trap handler
    irq_on,        \* what code outside every guard last set SIE to
    pc,            \* where in lock() or drop() a context is
    target,        \* the mutex lock() was called on
    try_count,     \* obtain_lock's try_count
    saved,         \* the FlagsGuard of the lock() or drop() in progress
    guards         \* the live MutexGuards of a context, the youngest last

mutex == <<locked, hart_id, support_init>>
hart  == <<sie, in_irq, irq_on>>
local == <<target, try_count, saved, guards>>
vars  == <<mutex, hart, local, pc>>

Ctx == Harts \X {"task", "irq"}

PCs == {"idle", "ensure", "init_cas", "init_wait", "init_write",
        "cas", "check", "spin", "own", "restore", "panic_owner", "panic_dead"}

MutexGuard == [mutex : Mutexes, sie : BOOLEAN]

\* The context a hart is executing: the handler while it is in one.
Running(c) == (c[2] = "irq") <=> in_irq[c[1]]

At(c, l) == Running(c) /\ pc[c] = l

Goto(c, l) == pc' = [pc EXCEPT ![c] = l]

HasGuard(c, m) == \E i \in 1..Len(guards[c]) : guards[c][i].mutex = m

\* c has won the compare_exchange on m and not yet stored false.
Owns(c, m) == (pc[c] = "own" /\ target[c] = m) \/ HasGuard(c, m)

Init ==
    /\ locked = [m \in Mutexes |-> FALSE]
    /\ hart_id = [m \in Mutexes |-> Hart0]
    /\ support_init = [m \in Mutexes |-> 0]
    /\ sie = [h \in Harts |-> FALSE]
    /\ in_irq = [h \in Harts |-> FALSE]
    /\ irq_on = [h \in Harts |-> FALSE]
    /\ pc = [c \in Ctx |-> "idle"]
    /\ target \in [Ctx -> Mutexes]
    /\ try_count = [c \in Ctx |-> 0]
    /\ saved = [c \in Ctx |-> FALSE]
    /\ guards = [c \in Ctx |-> <<>>]

-----------------------------------------------------------------------------
(* lock() *)

\* A mutant of BeforeLock: the flag is stored but interrupts stay enabled.
BeforeLockNoClear(c, m) ==
    /\ At(c, "idle") /\ Len(guards[c]) < MaxNesting /\ ~HasGuard(c, m)
    /\ saved' = [saved EXCEPT ![c] = sie[c[1]]]
    /\ target' = [target EXCEPT ![c] = m]
    /\ Goto(c, "ensure")
    /\ UNCHANGED <<mutex, hart, try_count, guards>>

\* S::before_lock(): SIE is stored in the FlagsGuard and cleared.  A context
\* does not lock a mutex it already holds; a handler does not know what the
\* interrupted context holds.
BeforeLock(c, m) ==
    /\ At(c, "idle") /\ Len(guards[c]) < MaxNesting /\ ~HasGuard(c, m)
    /\ saved' = [saved EXCEPT ![c] = sie[c[1]]]
    /\ sie' = [sie EXCEPT ![c[1]] = FALSE]
    /\ target' = [target EXCEPT ![c] = m]
    /\ Goto(c, "ensure")
    /\ UNCHANGED <<mutex, in_irq, irq_on, try_count, guards>>

\* ensure_support(): the first load of support_init.
EnsureLoad(c) ==
    /\ At(c, "ensure")
    /\ Goto(c, CASE support_init[target[c]] = 2 -> "cas"
                 [] support_init[target[c]] = 1 -> "init_wait"
                 [] support_init[target[c]] = 0 -> "init_cas")
    /\ UNCHANGED <<mutex, hart, local>>

\* ensure_support(): compare_exchange(0, 1); the loser waits.
EnsureCas(c) ==
    /\ At(c, "init_cas")
    /\ support_init' = [support_init EXCEPT ![target[c]] = IF @ = 0 THEN 1 ELSE @]
    /\ Goto(c, IF support_init[target[c]] = 0 THEN "init_write" ELSE "init_wait")
    /\ UNCHANGED <<locked, hart_id, hart, local>>

\* A mutant of EnsureWait: the loser does not wait for the winner.
EnsureNoWait(c) ==
    /\ At(c, "init_wait")
    /\ Goto(c, "cas")
    /\ UNCHANGED <<mutex, hart, local>>

\* ensure_support(): while support_init == 1 { spin_loop() }.
EnsureWait(c) ==
    /\ At(c, "init_wait") /\ support_init[target[c]] # 1
    /\ Goto(c, "cas")
    /\ UNCHANGED <<mutex, hart, local>>

\* ensure_support(): S::new() is written and support_init becomes 2.
EnsureWrite(c) ==
    /\ At(c, "init_write")
    /\ support_init' = [support_init EXCEPT ![target[c]] = 2]
    /\ Goto(c, "cas")
    /\ UNCHANGED <<locked, hart_id, hart, local>>

\* A mutant of Cas: a load of locked and a store, the store not conditional.
CasBlind(c) ==
    /\ At(c, "cas")
    /\ locked' = [locked EXCEPT ![target[c]] = TRUE]
    /\ Goto(c, "own")
    /\ UNCHANGED <<hart_id, support_init, hart, local>>

\* obtain_lock(): locked.compare_exchange(false, true).
Cas(c) ==
    /\ At(c, "cas")
    /\ locked' = [locked EXCEPT ![target[c]] = TRUE]
    /\ Goto(c, IF locked[target[c]] THEN "check" ELSE "own")
    /\ UNCHANGED <<hart_id, support_init, hart, local>>

\* obtain_lock(): after a failed exchange, hart_id is read and compared with
\* the hart's own id; equal means "already locked by hart" and a panic.
CheckOwner(c) ==
    /\ At(c, "check")
    /\ Goto(c, IF hart_id[target[c]] = c[1] THEN "panic_owner" ELSE "spin")
    /\ try_count' = [try_count EXCEPT ![c] = 0]
    /\ UNCHANGED <<mutex, hart, target, saved, guards>>

\* A mutant of Spin: the limit is compared before the increment is made.
SpinOffByOne(c) ==
    /\ At(c, "spin") /\ locked[target[c]]
    /\ try_count' = [try_count EXCEPT ![c] = @ + 1]
    /\ Goto(c, IF try_count[c] = TryLimit THEN "panic_dead" ELSE "spin")
    /\ UNCHANGED <<mutex, hart, target, saved, guards>>

\* obtain_lock(): one load of the inner loop, bounded by try_count.
Spin(c) ==
    /\ At(c, "spin")
    /\ try_count' = [try_count EXCEPT ![c] = IF locked[target[c]] THEN @ + 1 ELSE 0]
    /\ Goto(c, CASE ~locked[target[c]] -> "cas"
                 [] locked[target[c]] /\ try_count[c] + 1 = TryLimit -> "panic_dead"
                 [] locked[target[c]] /\ try_count[c] + 1 # TryLimit -> "spin")
    /\ UNCHANGED <<mutex, hart, target, saved, guards>>

\* obtain_lock(): hart_id is written after the exchange succeeded, and lock()
\* returns the guard.
WriteOwner(c) ==
    /\ At(c, "own")
    /\ hart_id' = [hart_id EXCEPT ![target[c]] = c[1]]
    /\ guards' = [guards EXCEPT ![c] = Append(@, [mutex |-> target[c], sie |-> saved[c]])]
    /\ saved' = [saved EXCEPT ![c] = FALSE]
    /\ Goto(c, "idle")
    /\ UNCHANGED <<locked, support_init, hart, target, try_count>>

-----------------------------------------------------------------------------
(* MutexGuard::drop.  Guards leave scope in the reverse order of their     *)
(* creation, as every caller's do.                                         *)

\* locked.store(false); after_unlock() of SpinNoIrq does nothing.
Unlock(c) ==
    /\ At(c, "idle") /\ guards[c] # <<>>
    /\ LET g == guards[c][Len(guards[c])]
       IN  /\ locked' = [locked EXCEPT ![g.mutex] = FALSE]
           /\ saved' = [saved EXCEPT ![c] = g.sie]
    /\ guards' = [guards EXCEPT ![c] = SubSeq(@, 1, Len(@) - 1)]
    /\ Goto(c, "restore")
    /\ UNCHANGED <<hart_id, support_init, hart, target, try_count>>

\* A mutant of RestoreSie: the FlagsGuard is forgotten.
RestoreNever(c) ==
    /\ At(c, "restore")
    /\ Goto(c, "idle")
    /\ UNCHANGED <<mutex, hart, local>>

\* FlagsGuard::drop, the last field of the guard: restore_sie(self.0).
RestoreSie(c) ==
    /\ At(c, "restore")
    /\ sie' = [sie EXCEPT ![c[1]] = @ \/ saved[c]]
    /\ saved' = [saved EXCEPT ![c] = FALSE]
    /\ Goto(c, "idle")
    /\ UNCHANGED <<mutex, in_irq, irq_on, target, try_count, guards>>

-----------------------------------------------------------------------------
(* The hart.                                                               *)

\* Code outside every guard sets or clears SIE: run_user's enable_irq after a
\* trap, no_irq_push and no_irq_pop.
SetIrq(h, on) ==
    LET c == <<h, "task">>
    IN  /\ At(c, "idle") /\ guards[c] = <<>> /\ irq_on[h] # on
        /\ sie' = [sie EXCEPT ![h] = on]
        /\ irq_on' = [irq_on EXCEPT ![h] = on]
        /\ UNCHANGED <<mutex, in_irq, pc, local>>

\* An interrupt is taken: the hardware clears SIE and kernel_default_interrupt
\* runs in the handler context, on top of whatever the task context was doing.
IrqEnter(h) ==
    /\ sie[h] /\ ~in_irq[h]
    /\ in_irq' = [in_irq EXCEPT ![h] = TRUE]
    /\ sie' = [sie EXCEPT ![h] = FALSE]
    /\ UNCHANGED <<mutex, irq_on, pc, local>>

\* sret: the handler holds no guard any more and SIE is set again.
IrqReturn(h) ==
    /\ At(<<h, "irq">>, "idle") /\ guards[<<h, "irq">>] = <<>> /\ in_irq[h]
    /\ in_irq' = [in_irq EXCEPT ![h] = FALSE]
    /\ sie' = [sie EXCEPT ![h] = TRUE]
    /\ UNCHANGED <<mutex, irq_on, pc, local>>

CtxStep(c) ==
    \/ \E m \in Mutexes : BeforeLock(c, m)
    \/ EnsureLoad(c) \/ EnsureCas(c) \/ EnsureWait(c) \/ EnsureWrite(c)
    \/ Cas(c) \/ CheckOwner(c) \/ Spin(c) \/ WriteOwner(c)
    \/ Unlock(c) \/ RestoreSie(c)

HartStep(h) == (\E on \in BOOLEAN : SetIrq(h, on)) \/ IrqEnter(h) \/ IrqReturn(h)

Next == (\E c \in Ctx : CtxStep(c)) \/ (\E h \in Harts : HartStep(h))

Spec == Init /\ [][Next]_vars

-----------------------------------------------------------------------------
(* Properties                                                              *)

\* The variables have their types.
TypeOK ==
    /\ locked \in [Mutexes -> BOOLEAN]
    /\ hart_id \in [Mutexes -> Harts \cup {Hart0}]
    /\ support_init \in [Mutexes -> 0..2]
    /\ sie \in [Harts -> BOOLEAN]
    /\ in_irq \in [Harts -> BOOLEAN]
    /\ irq_on \in [Harts -> BOOLEAN]
    /\ pc \in [Ctx -> PCs]
    /\ target \in [Ctx -> Mutexes]
    /\ try_count \in [Ctx -> 0..TryLimit]
    /\ saved \in [Ctx -> BOOLEAN]
    /\ guards \in [Ctx -> Seq(MutexGuard)]

\* The data behind a mutex is reached by one context at a time, whatever the
\* interleaving of exchanges, stores and interrupts (obtain_lock, drop).
MutualExclusion ==
    \A m \in Mutexes : \A c, d \in Ctx : Owns(c, m) /\ Owns(d, m) => c = d

\* A handler never runs on top of a context of its own hart that holds a mutex
\* or is inside lock() or drop(): the handler would spin for ever on it
\* (before_lock clears SIE first, drop restores it last).
HandlerFindsNoHolder ==
    \A h \in Harts : in_irq[h] => /\ pc[<<h, "task">>] = "idle"
                                  /\ guards[<<h, "task">>] = <<>>

\* Nested guards restore SIE exactly when the outermost one is dropped: with
\* no guard left SIE is what the code outside the guards made it.
SieRestored ==
    \A h \in Harts :
        ~in_irq[h] /\ pc[<<h, "task">>] = "idle" /\ guards[<<h, "task">>] = <<>>
            => (sie[h] <=> irq_on[h])

\* No context reaches obtain_lock, which uses `support`, before ensure_support
\* of some context has finished writing it.
SupportReady ==
    \A c \in Ctx : pc[c] \in {"cas", "check", "spin", "own"} => support_init[target[c]] = 2
==============================================================================
