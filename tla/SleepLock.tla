------------------------------- MODULE SleepLock -------------------------------
(***************************************************************************)
(* The sleep lock of src/src/sync/sleep.rs under the executor: tasks that  *)
(* lock().await, keep the guard across suspensions, and drop it.  Its users *)
(* are the page cache, the cached file attributes and the cached block     *)
(* device of FAT32.  The inner spin lock makes each poll and each drop one *)
(* step.                                                                    *)
(***************************************************************************)
EXTENDS Executor

CONSTANTS
    MaxLocks,      \* bound: how often a task takes the lock
    MaxSpurious    \* bound: wakes of a waiting task by a stale waker it left elsewhere

ASSUME LockBoundsAreNat == MaxLocks \in Nat /\ MaxSpurious \in Nat

VARIABLES
    holding,   \* SleepLockInner::holding
    waiting,   \* SleepLockInner::waiting, a queue of wakers
    st,        \* each task: "new", "idle", "wait", "own" or "done"
    left,      \* how often each task may still take the lock
    spurious   \* stale wakes so far

lock == <<holding, waiting>>
sleepVars == <<execVars, lock, st, left, spurious>>

SleepInit ==
    /\ ExecInit
    /\ holding = FALSE
    /\ waiting = <<>>
    /\ st = [t \in Tasks |-> "new"]
    /\ left = [t \in Tasks |-> MaxLocks]
    /\ spurious = 0

Start(t) ==
    /\ st[t] = "new"
    /\ Spawn(t)
    /\ st' = [st EXCEPT ![t] = "idle"]
    /\ UNCHANGED <<lock, left, spurious>>

Poll ==
    /\ Fetch
    /\ UNCHANGED <<lock, st, left, spurious>>

\* The guard is handed out without looking at the flag.
PollLockBlind(t) ==
    /\ running = t
    /\ st[t] = "wait" \/ (st[t] = "idle" /\ left[t] > 0)
    /\ UNCHANGED <<execVars, waiting, left, spurious>>
    /\ holding' = TRUE
    /\ st' = [st EXCEPT ![t] = "own"]

\* SleepLockFuture::poll, for a new future or one polled again.
PollLock(t) ==
    /\ running = t
    /\ st[t] = "wait" \/ (st[t] = "idle" /\ left[t] > 0)
    /\ holding' = TRUE
    /\ waiting' = IF holding THEN Append(waiting, t) ELSE waiting
    /\ st' = [st EXCEPT ![t] = IF holding THEN "wait" ELSE "own"]
    /\ IF holding THEN Suspend ELSE UNCHANGED execVars
    /\ UNCHANGED <<left, spurious>>

\* The first waiter is dequeued and not woken.
DropGuardNoWake(t) ==
    /\ running = t /\ st[t] = "own"
    /\ holding' = FALSE
    /\ waiting' = IF waiting = <<>> THEN waiting ELSE Tail(waiting)
    /\ UNCHANGED <<execVars, spurious>>
    /\ st' = [st EXCEPT ![t] = "idle"]
    /\ left' = [left EXCEPT ![t] = @ - 1]

\* SleepLockGuard::drop.
DropGuard(t) ==
    /\ running = t /\ st[t] = "own"
    /\ holding' = FALSE
    /\ waiting' = IF waiting = <<>> THEN waiting ELSE Tail(waiting)
    /\ queue' = IF waiting = <<>> THEN queue ELSE WakeQ(queue, Head(waiting))
    /\ notified' = (notified \/ (waiting # <<>> /\ Head(waiting) = running))
    /\ st' = [st EXCEPT ![t] = "idle"]
    /\ left' = [left EXCEPT ![t] = @ - 1]
    /\ UNCHANGED <<running, live, spurious>>

\* The task suspends for another reason, with or without the guard.
Await(t) ==
    /\ running = t /\ st[t] \in {"idle", "own"}
    /\ YieldNow
    /\ UNCHANGED <<lock, st, left, spurious>>

Finish(t) ==
    /\ running = t /\ st[t] = "idle"
    /\ Complete
    /\ st' = [st EXCEPT ![t] = "done"]
    /\ UNCHANGED <<lock, left, spurious>>

\* A waker that a pipe or a timer still keeps from an earlier wait fires.
StaleWake(t) ==
    /\ st[t] = "wait" /\ spurious < MaxSpurious
    /\ Wake(t)
    /\ spurious' = spurious + 1
    /\ UNCHANGED <<lock, st, left>>

RunTask == \E t \in Tasks : PollLock(t) \/ DropGuard(t) \/ Await(t) \/ Finish(t)
SleepNext == Poll \/ RunTask \/ \E t \in Tasks : Start(t) \/ StaleWake(t)
SleepSpec == SleepInit /\ [][SleepNext]_sleepVars

\* The boot hart runs the executor for ever (main.rs 236-238), a poll returns,
\* and a task that owns the guard drops it in one of its polls.
SleepFairness ==
    /\ WF_sleepVars(Poll)
    /\ WF_sleepVars(RunTask)
    /\ \A t \in Tasks : SF_sleepVars(DropGuard(t))
SleepFairSpec == SleepSpec /\ SleepFairness

-------------------------------------------------------------------------------
\* SleepLockGuard gives &mut access to the data (sleep.rs 96-100): at most one
\* task owns a guard, also when wakers are stale, and holding says whether one does.
OneGuard ==
    /\ \A t, u \in Tasks : st[t] = "own" /\ st[u] = "own" => t = u
    /\ holding <=> \E t \in Tasks : st[t] = "own"

\* Every task that waits for the lock gets it, although drop() wakes one waiter,
\* does not hand the lock over, and a newcomer may take it first (sleep.rs
\* 79-86), as long as the others take the lock finitely often.  A stale wake
\* makes a waiter queue its waker twice, and a drop may then wake nobody who
\* waits.
EveryWaiterAcquires ==
    \A t \in Tasks : st[t] = "wait" ~> (st[t] = "own" \/ spurious > 0)
===============================================================================
