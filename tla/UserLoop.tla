------------------------------ MODULE UserLoop ------------------------------
(* Threads between kernel and user mode: userloop's delivery of signals, the *)
(* integer context it saves for a handler and sigreturn restores, the lazily *)
(* switched floating-point registers (trap/fp_ctx.rs), and the interval      *)
(* timers that send SIGALRM (sys_setitimer, timer/async_sleep.rs).           *)
(*                                                                          *)
(* One hart: cur is the thread whose task is being polled. A system call that *)
(* does not wait returns to the head of the loop in the same poll; a timer    *)
(* interrupt in user mode yields.                                            *)
EXTENDS Naturals

CONSTANTS
    MaxThreads,  \* threads created
    Sigs,        \* signal numbers, SIGALRM and SIGCHLD among them
    Deadly,      \* those whose SIG_DFL ends the thread
    Alrm, Chld,  \* SIGALRM, SIGCHLD
    FpVals,      \* values of the floating-point registers
    MaxTimers,   \* timers set
    MaxNow,      \* the clock, in ticks
    Delays,      \* it_value of a timer, in ticks
    MaxCalls     \* system calls and other steps of user code

ASSUME LoopBounds ==
    /\ MaxThreads \in Nat \ {0} /\ MaxTimers \in Nat /\ MaxNow \in Nat
    /\ Delays \subseteq Nat \ {0} /\ MaxCalls \in Nat
    /\ FpVals \subseteq Nat /\ Sigs \subseteq Nat /\ Deadly \subseteq Sigs /\ {Alrm, Chld} \subseteq Sigs

VARIABLES
    cur,      \* thread being polled, 0 for none
    at,       \* thread -> "none", "head", "user", "sleep", "sigwait" or "gone"
    until,    \* thread -> when its nanosleep ends
    parent,   \* thread -> thread that gets its SIGCHLD, 0 for one outside
    share,    \* thread -> its Signal, named after the thread that created it
    sig,      \* Signal -> pending, processing, handler and saved context
    ctx,      \* thread -> UKContext: whose, and how far; with fp_ctx
    reg,      \* floating-point registers of the hart
    belong,   \* curr_fp_belong_to, 0 for None
    fs,       \* sstatus.fs
    timer,    \* timer -> state, owner, due time
    now,
    died,     \* "no", or what has panicked
    calls,
    main,     \* history: thread -> how far its code outside handlers has come
    fpwant,   \* history: thread -> value its code has last put in the registers
    in,       \* history: thread -> 0, or 1 + fpwant when its handler was entered
    odd       \* history: Signals of which a thread was cloned or exec'ed in a handler,
              \*          and those forked from them

vars == <<cur, at, until, parent, share, sig, ctx, reg, belong, fs, timer, now, died, calls,
          main, fpwant, in, odd>>
hart == <<reg, belong, fs>>
clock == <<timer, now>>
kin == <<parent, share>>

Threads == 1 .. MaxThreads
Timers == 1 .. MaxTimers
Any == 0             \* no value is expected of the registers
Uninit == [of |-> 0, pc |-> 0, fp |-> Any, need |-> FALSE]
NewSignal == [pending |-> {}, processing |-> {}, handler |-> [s \in Sigs |-> "none"],
              saved |-> Uninit]
Exists(t) == at[t] # "none"

\* UKContext::init_user; the registers of the new program have no value yet.
InitUser(c) == [c EXCEPT !.pc = 0, !.need = TRUE]

Init ==
    /\ cur = 0
    /\ at = [t \in Threads |-> IF t = 1 THEN "head" ELSE "none"]
    /\ until = [t \in Threads |-> 0]
    /\ parent = [t \in Threads |-> 0]
    /\ share = [t \in Threads |-> t]
    /\ \E h \in {"none", "fn"} :   \* handlers it has been forked with
           sig = [t \in Threads |-> IF t = 1 THEN [NewSignal EXCEPT !.handler = [s \in Sigs |-> h]]
                                    ELSE NewSignal]
    /\ ctx = [t \in Threads |-> InitUser([Uninit EXCEPT !.of = t])]
    /\ reg = Any /\ belong = 0 /\ fs = "Clean"
    /\ timer = [k \in Timers |-> [st |-> "free", own |-> 0, due |-> 0, off |-> FALSE]]
    /\ now = 0 /\ died = "no" /\ calls = 0
    /\ main = [t \in Threads |-> 0]
    /\ in = [t \in Threads |-> 0]
    /\ fpwant = [t \in Threads |-> Any]
    /\ odd = {}

-----------------------------------------------------------------------------
(* The head of the loop: signals, then the registers, then user mode.       *)

S(t) == sig[share[t]]
Clears(t, s) == S(t).handler[s] = "ign" \/ (S(t).handler[s] = "dfl" /\ s \notin Deadly)

\* Variant: a second handler may be entered while one is running.
DeliverableNested(t) == {s \in S(t).pending : ~ Clears(t, s)}

\* Pending signals that stop the scan, lowest first; none while one is processed.
Deliverable(t) ==
    IF S(t).processing # {} THEN {} ELSE {s \in S(t).pending : ~ Clears(t, s)}

\* SIG_IGN and the harmless SIG_DFL are cleared on the way to the first of them.
Cleared(t) ==
    IF S(t).processing # {} THEN {}
    ELSE {s \in S(t).pending : Clears(t, s) /\ \A d \in Deliverable(t) : s < d}

First(t) == CHOOSE s \in Deliverable(t) : \A d \in Deliverable(t) : s <= d
Handler(t) == IF Deliverable(t) = {} THEN "none" ELSE S(t).handler[First(t)]

\* OutermostFuture::poll makes t current; its task goes on until it yields.
Polled(t) == died = "no" /\ cur \in {0, t}
AtHead(t) == Polled(t) /\ at[t] = "head"

\* The registers are stored in a context, and loaded from one.
SyncFromReg(c) == [c EXCEPT !.fp = reg]
SyncToReg(c) == reg' = c.fp

\* Variant: the old owner's registers are not written back.
FpCtxSwitchForgets(t, c) ==
    /\ ctx' = c
    /\ SyncToReg(c[t]) /\ belong' = t /\ fs' = "Clean"

\* fp_ctx_kernel_to_user when the registers are another thread's, c the contexts.
FpCtxSwitch(t, c) ==
    /\ ctx' = IF belong # 0 /\ c[belong].need
              THEN [c EXCEPT ![belong] = [SyncFromReg(@) EXCEPT !.need = FALSE]] ELSE c
    /\ SyncToReg(c[t]) /\ belong' = t /\ fs' = "Clean"

\* fp_ctx_kernel_to_user: nothing is done for the owner of the registers.
FpCtxKernelToUser(t, c) ==
    IF belong = t THEN ctx' = c /\ UNCHANGED <<reg, belong, fs>> ELSE FpCtxSwitch(t, c)

RunUser(t, c) ==
    /\ cur' = t /\ at' = [at EXCEPT ![t] = "user"]
    /\ FpCtxKernelToUser(t, c)
    /\ UNCHANGED <<until, kin, clock, died, calls, main, fpwant, odd>>

\* No signal to act on, or one without an entry in signal_handler.
Resume(t) ==
    /\ AtHead(t) /\ Handler(t) = "none"
    /\ sig' = [sig EXCEPT ![share[t]].pending = @ \ Cleared(t)]
    /\ RunUser(t, ctx)
    /\ UNCHANGED in

\* The context is saved in the Signal and pc and a0 are set; pending stays.
EnterHandler(t) ==
    /\ AtHead(t) /\ Handler(t) = "fn"
    /\ sig' = [sig EXCEPT ![share[t]].pending = @ \ Cleared(t),
                          ![share[t]].saved = ctx[t],
                          ![share[t]].processing = @ \cup {First(t)}]
    /\ RunUser(t, [ctx EXCEPT ![t].pc = 100 + First(t)])
    /\ in' = [in EXCEPT ![t] = fpwant[t] + 1]

\* The children list of t, which the threads of its group share.
Children(t) == {c \in Threads : parent[c] # 0 /\ share[parent[c]] = share[t]}

\* do_exit: SIGCHLD for the parent, and the children go to init.
DoExit(t, s) ==
    /\ at' = [at EXCEPT ![t] = "gone"]
    /\ cur' = 0
    /\ parent' = [c \in Threads |-> IF c \in Children(t) THEN 0 ELSE parent[c]]
    /\ UNCHANGED <<until, share>>
    /\ sig' = IF parent[t] = 0 THEN s ELSE [s EXCEPT ![share[parent[t]]].pending = @ \cup {Chld}]

\* Variant: the default action of every signal is to be dropped.
DefaultClears(t) ==
    /\ AtHead(t) /\ Handler(t) = "dfl"
    /\ sig' = [sig EXCEPT ![share[t]].pending = @ \ (Cleared(t) \cup {First(t)})]
    /\ UNCHANGED <<cur, at, until, kin, ctx, hart, clock, died, calls, main, fpwant, in, odd>>

\* SIG_DFL of SIGKILL, SIGALRM, SIGHUP, SIGINT and SIGTERM.
DefaultEnds(t) ==
    /\ AtHead(t) /\ Handler(t) = "dfl"
    /\ DoExit(t, [sig EXCEPT ![share[t]].pending = @ \ Cleared(t)])
    /\ UNCHANGED <<ctx, hart, clock, died, calls, main, fpwant, in, odd>>

-----------------------------------------------------------------------------
(* User mode.                                                               *)

InUser(t) == died = "no" /\ cur = t /\ at[t] = "user"
Budget == calls < MaxCalls /\ calls' = calls + 1

\* Code outside a handler gets on.
Work(t) ==
    /\ InUser(t) /\ Budget /\ in[t] = 0
    /\ ctx' = [ctx EXCEPT ![t].pc = @ + 1]
    /\ main' = [main EXCEPT ![t] = @ + 1]
    /\ UNCHANGED <<cur, at, until, kin, sig, hart, clock, died, fpwant, in, odd>>

WriteFp(t, v) ==
    /\ InUser(t) /\ Budget
    /\ reg' = v /\ fs' = "Dirty"
    /\ fpwant' = [fpwant EXCEPT ![t] = v]
    /\ UNCHANGED <<cur, at, until, kin, sig, ctx, belong, clock, died, main, in, odd>>

\* fp_ctx_user_to_kernel, after every return from user mode.
Trapped(t) == [ctx EXCEPT ![t].need = @ \/ fs # "Clean"]

\* Wakes the timers due at time n: at_tick, SleepQueue::wake_ready.
WakeReady(n) == [k \in Timers |->
    IF timer[k].st \in {"once", "period"} /\ timer[k].due <= n
    THEN [timer[k] EXCEPT !.st = IF @ = "once" THEN "woken" ELSE "periodwoken"] ELSE timer[k]]

TimerHandler ==
    /\ now' = IF now < MaxNow THEN now + 1 ELSE now
    /\ timer' = WakeReady(now')

\* yield_now().await, to the head of the loop.
YieldNow(t) == cur' = 0 /\ at' = [at EXCEPT ![t] = "head"]

\* A timer interrupt in user mode, and one in the executor.
TimerIrq(t) ==
    /\ InUser(t)
    /\ TimerHandler /\ YieldNow(t)
    /\ ctx' = Trapped(t)
    /\ UNCHANGED <<until, kin, sig, hart, died, calls, main, fpwant, in, odd>>

KernelIrq ==
    /\ died = "no" /\ cur = 0 /\ now < MaxNow
    /\ TimerHandler
    /\ UNCHANGED <<cur, at, until, kin, sig, ctx, hart, died, calls, main, fpwant, in, odd>>

\* A system call that returns to the head of the loop in the same poll.
Call(t) == InUser(t) /\ Budget /\ at' = [at EXCEPT ![t] = "head"] /\ UNCHANGED <<cur, hart, now>>

\* A page fault that is resolved, or an interrupt of a device.
Fault(t) ==
    /\ Call(t) /\ ctx' = Trapped(t)
    /\ UNCHANGED <<until, kin, sig, timer, died, main, fpwant, in, odd>>

SchedYield(t) ==
    /\ InUser(t) /\ Budget /\ YieldNow(t)
    /\ ctx' = Trapped(t)
    /\ UNCHANGED <<until, kin, sig, hart, clock, died, main, fpwant, in, odd>>

\* A call of t pends; the task is in the state w.
Pends(t, w) ==
    /\ InUser(t) /\ Budget
    /\ cur' = 0 /\ at' = [at EXCEPT ![t] = w]
    /\ ctx' = Trapped(t)
    /\ UNCHANGED <<kin, sig, hart, clock, died, main, fpwant, in, odd>>

\* wake_after: no signal ends it.
WakeAfter(t, ms) ==
    /\ now + ms <= MaxNow
    /\ Pends(t, "sleep") /\ until' = [until EXCEPT ![t] = now + ms]

Nanosleep(t, ms) == WakeAfter(t, ms)

\* TIMER_ABSTIME; a time that is over returns at once.
ClockNanosleep(t, abs) == IF abs > now THEN WakeAfter(t, abs - now) ELSE Fault(t)

\* The signal is returned and stays pending; without one the thread yields,
\* 100000 times at most.
Sigwait(t, s) ==
    IF s \in S(t).pending THEN Fault(t)
    ELSE Pends(t, "sigwait") /\ UNCHANGED until

\* The task of a sleeper is polled after its time, that of sigwait in the end.
CallEnds(t) ==
    /\ Polled(t) /\ cur = 0
    /\ at[t] = "sigwait" \/ (at[t] = "sleep" /\ until[t] <= now)
    /\ cur' = t /\ at' = [at EXCEPT ![t] = "head"]
    /\ until' = [until EXCEPT ![t] = 0]
    /\ UNCHANGED <<kin, sig, ctx, hart, clock, died, calls, main, fpwant, in, odd>>

Sigaction(t, s, h) ==
    /\ Call(t) /\ ctx' = Trapped(t)
    /\ sig' = [sig EXCEPT ![share[t]].handler[s] = h]
    /\ UNCHANGED <<until, kin, timer, died, main, fpwant, in, odd>>

SendSignal(u, s) == sig' = [sig EXCEPT ![share[u]].pending = @ \cup {s}]

\* sys_kill and sys_tkill of one process.
Kill(t, u, s) ==
    /\ Exists(u) /\ Call(t) /\ ctx' = Trapped(t)
    /\ SendSignal(u, s)
    /\ UNCHANGED <<until, kin, timer, died, main, fpwant, in, odd>>

\* sys_kill with pid 0: the children, which have the group of t, and t itself.
KillGroup(t, s) ==
    /\ Call(t) /\ ctx' = Trapped(t)
    /\ LET to == {share[u] : u \in Children(t) \cup {t}}
       IN  sig' = [g \in Threads |->
                      IF g \in to THEN [sig[g] EXCEPT !.pending = @ \cup {s}] ELSE sig[g]]
    /\ UNCHANGED <<until, kin, timer, died, main, fpwant, in, odd>>

\* The stub a handler returns to. The whole context comes back, fp_ctx too.
Sigreturn(t) ==
    LET g == share[t] IN
    /\ in[t] # 0 /\ Call(t)
    /\ ctx' = [Trapped(t) EXCEPT ![t] = sig[g].saved]
    /\ sig' = [sig EXCEPT ![g].processing = @ \ {s \in @ : \A r \in @ : s <= r}]
    /\ died' = IF sig[g].processing = {} THEN "sigreturn" ELSE "no"
    /\ in' = [in EXCEPT ![t] = 0]
    /\ fpwant' = [fpwant EXCEPT ![t] = IF @ + 1 = in[t] THEN @ ELSE Any]
    /\ UNCHANGED <<until, kin, timer, main, odd>>

\* do_clone: "thread" has THREAD and SIGHAND, "clear" CHILD_CLEAR_SIGHAND. The
\* context is copied from memory, its saved one is left uninitialised.
Clone(t, how) ==
    \E c \in Threads :
        /\ at[c] = "none" /\ \A d \in 1 .. c - 1 : Exists(d)
        /\ InUser(t) /\ Budget
        /\ at' = [at EXCEPT ![t] = "head", ![c] = "head"]
        /\ parent' = [parent EXCEPT ![c] = IF how = "thread" THEN parent[t] ELSE t]
        /\ share' = [share EXCEPT ![c] = IF how = "thread" THEN share[t] ELSE c]
        /\ sig' = IF how = "fork" THEN [sig EXCEPT ![c] = [S(t) EXCEPT !.saved = Uninit]] ELSE sig
        /\ ctx' = [Trapped(t) EXCEPT ![c] = [Trapped(t)[t] EXCEPT !.of = c]]
        /\ main' = [main EXCEPT ![c] = main[t]]
        /\ in' = [in EXCEPT ![c] = in[t]]
        /\ fpwant' = [fpwant EXCEPT ![c] = IF Trapped(t)[t].need THEN Any ELSE fpwant[t]]
        /\ odd' = IF in[t] = 0 /\ share[t] \notin odd THEN odd ELSE odd \cup {share'[c]}
        /\ UNCHANGED <<cur, until, hart, clock, died>>

\* do_exec: a new context; the Signal and the registers are left as they are.
Exec(t) ==
    /\ Call(t)
    /\ ctx' = [ctx EXCEPT ![t] = InitUser(@)]
    /\ main' = [main EXCEPT ![t] = 0]
    /\ in' = [in EXCEPT ![t] = 0]
    /\ fpwant' = [fpwant EXCEPT ![t] = Any]
    /\ odd' = IF in[t] = 0 THEN odd ELSE odd \cup {share[t]}
    /\ UNCHANGED <<until, kin, sig, timer, died>>

\* break, then do_exit.
LeaveLoop(t) ==
    /\ InUser(t) /\ Budget
    /\ ctx' = Trapped(t)
    /\ DoExit(t, sig)
    /\ UNCHANGED <<hart, clock, died, main, fpwant, in, odd>>

Exit(t) == LeaveLoop(t)

\* A page fault that is not resolved, or another exception.
Killed(t) == LeaveLoop(t)

-----------------------------------------------------------------------------
(* Interval timers.                                                         *)

\* call_after: a node of the sleep queue whose wake-up spawns a task.
CallAfter(t, kind, ms) ==
    \E k \in Timers :
        /\ timer[k].st = "free" /\ \A j \in 1 .. k - 1 : timer[j].st # "free"
        /\ timer' = [timer EXCEPT ![k] = [st |-> kind, own |-> t, due |-> now + ms, off |-> FALSE]]

\* sys_setitimer, one shot or periodic; only the first kind enters timer_map.
SetTimer(t, kind, ms) ==
    /\ Call(t) /\ ctx' = Trapped(t)
    /\ CallAfter(t, kind, ms)
    /\ UNCHANGED <<until, kin, sig, died, main, fpwant, in, odd>>

\* it_value 0: every entry of the timer_map is disarmed.
DisarmTimers(t) ==
    /\ Call(t) /\ ctx' = Trapped(t)
    /\ timer' = [k \in Timers |-> [timer[k] EXCEPT
           !.off = @ \/ (timer[k].own = t /\ timer[k].st \in {"once", "woken"})]]
    /\ UNCHANGED <<until, kin, sig, died, main, fpwant, in, odd>>

\* Variant: the entry is removed and its flag ignored.
TimerFiresAlways(k) ==
    /\ died = "no" /\ cur = 0 /\ timer[k].st = "woken"
    /\ timer' = [timer EXCEPT ![k].st = "sent"]
    /\ SendSignal(timer[k].own, Alrm)
    /\ UNCHANGED <<cur, at, until, kin, ctx, hart, now, died, calls, main, fpwant, in, odd>>

\* The task call_after has spawned for a timer of the map.
TimerFires(k) ==
    /\ died = "no" /\ cur = 0 /\ timer[k].st = "woken"
    /\ timer' = [timer EXCEPT ![k].st = IF timer[k].off THEN "silent" ELSE "sent"]
    /\ IF timer[k].off THEN UNCHANGED sig ELSE SendSignal(timer[k].own, Alrm)
    /\ UNCHANGED <<cur, at, until, kin, ctx, hart, now, died, calls, main, fpwant, in, odd>>

\* That of a periodic one: expect("timer_id should exist").
PeriodFires(k) ==
    /\ died = "no" /\ cur = 0 /\ timer[k].st = "periodwoken"
    /\ died' = "timer"
    /\ UNCHANGED <<cur, at, until, kin, sig, ctx, hart, clock, calls, main, fpwant, in, odd>>

Poll(t) == Resume(t) \/ EnterHandler(t) \/ DefaultEnds(t) \/ CallEnds(t)

Next ==
    \/ \E t \in Threads :
           \/ Resume(t) \/ EnterHandler(t) \/ DefaultEnds(t) \/ CallEnds(t)
           \/ Fault(t) \/ SchedYield(t)
           \/ \E ms \in Delays : Nanosleep(t, ms)
           \/ \E abs \in 1 .. MaxNow : ClockNanosleep(t, abs)
           \/ Work(t) \/ TimerIrq(t) \/ Sigreturn(t) \/ Exec(t) \/ Exit(t) \/ Killed(t)
           \/ DisarmTimers(t)
           \/ \E v \in FpVals : WriteFp(t, v)
           \/ \E s \in Sigs : \/ Sigwait(t, s) \/ KillGroup(t, s)
                              \/ \E h \in {"ign", "dfl", "fn"} : Sigaction(t, s, h)
                              \/ \E u \in Threads : Kill(t, u, s)
           \/ \E how \in {"thread", "fork", "clear"} : Clone(t, how)
           \/ \E kind \in {"once", "period"}, ms \in Delays : SetTimer(t, kind, ms)
    \/ \E k \in Timers : TimerFires(k) \/ PeriodFires(k)
    \/ KernelIrq

Spec == Init /\ [][Next]_vars

\* The executor's queue is first in, first out, and the timer interrupt comes.
FairSpec ==
    Spec /\ WF_vars(KernelIrq) /\ \A t \in Threads : SF_vars(Poll(t)) /\ WF_vars(TimerIrq(t))

-----------------------------------------------------------------------------
(* Properties.                                                              *)

\* However threads that share a Signal are scheduled, a handler's sigreturn puts
\* back the context that the same thread was interrupted in, and its assertion
\* holds: one before_signal_context is enough for all of them because no handler
\* is entered while signal_processing is not empty. Clones and execs made inside
\* a handler are excepted.
ResumesInterrupted ==
    /\ \A t \in Threads : at[t] \notin {"none", "gone"} /\ share[t] \notin odd =>
           LET c == IF in[t] = 0 THEN ctx[t] ELSE S(t).saved
           IN  c.of = t /\ c.pc = main[t]
    /\ died = "sigreturn" => odd # {}

\* A thread in user mode finds in the floating-point registers what its own code
\* has put there, although they are switched only when another thread's values
\* are in them and saved only if marked. A clone made while they are unsaved
\* starts with other values, and a handler that uses them spoils them; clones and
\* execs made inside a handler are excepted.
FpKept == \A t \in Threads :
    cur = t /\ at[t] = "user" /\ share[t] \notin odd /\ fpwant[t] # Any => reg = fpwant[t]

\* SIGALRM is sent for a one-shot timer when its time has come, not before, and
\* not if it was disarmed first, be it between its wake-up and its task's run.
AlarmOnTime == \A k \in Timers :
    timer[k].st = "sent" => timer[k].due <= now /\ ~ timer[k].off

\* A thread whose lowest pending signal has a deadly default action ends, although
\* threads that share its Signal end on the same signal and none of them clears it,
\* unless the program changes the action, a handler is entered or a lower signal
\* comes first, and although no signal ends its sleep or its sigwait (userloop).
Doomed(t, s) ==
    /\ at[t] \in {"head", "user", "sleep", "sigwait"} /\ died = "no"
    /\ S(t).processing = {} /\ s \in S(t).pending /\ S(t).handler[s] = "dfl"
    /\ \A r \in S(t).pending : s <= r
Spared(t, s) ==
    \/ S(t).handler[s] # "dfl" \/ S(t).processing # {} \/ died # "no"
    \/ \E r \in S(t).pending : r < s
DoomedEnds ==
    \A t \in Threads, s \in Deadly : Doomed(t, s) ~> (at[t] = "gone" \/ Spared(t, s))
=============================================================================
