-------------------------------- MODULE Console --------------------------------
(***************************************************************************)
(* Console input (drivers/serial/mod.rs, fs/stdio.rs): the external        *)
(* interrupt takes one byte from the UART, puts it into a ring and wakes   *)
(* one waiting reader; a read of standard input or of /dev/tty takes one   *)
(* byte from the ring or queues its waker.  The interrupt comes between    *)
(* any two steps of a task, except while the task holds a spin mutex, which *)
(* keeps interrupts off.                                                   *)
(*                                                                         *)
(* The readers are tasks of the executor.  Bytes are numbered in the order *)
(* in which they are typed.  The reads of an empty buffer, output and the  *)
(* foreground group of the terminal change none of this.                   *)
(***************************************************************************)
EXTENDS Executor, FiniteSets

CONSTANTS
    RingSize,      \* the capacity of Serial::buffer, 512 in the code
    MaxTyped,      \* bound: how many bytes are typed
    MaxReads,      \* bound: how many bytes a task reads
    MaxSpurious    \* bound: wakes of a waiting task by a stale waker it left elsewhere

ASSUME ConsoleBoundsAreNat ==
    RingSize \in Nat \ {0} /\ {MaxTyped, MaxReads, MaxSpurious} \subseteq Nat

VARIABLES
    typed,     \* how many bytes have been typed
    line,      \* the bytes in the UART, which keep its interrupt pending
    ring,      \* Serial::buffer
    waiting,   \* Serial::waiting
    masked,    \* the running task holds a spin mutex: interrupts are off
    st,        \* each task: "new", "idle", "check", "leave", "wait" or "done"
    got,       \* what each task has read
    lost,      \* the bytes the full ring has overwritten
    spurious   \* stale wakes so far

device == <<typed, line, ring, lost>>
vars == <<execVars, device, waiting, masked, st, got, spurious>>

Init ==
    /\ ExecInit
    /\ typed = 0 /\ line = <<>> /\ ring = <<>> /\ waiting = <<>>
    /\ masked = FALSE
    /\ st = [t \in Tasks |-> "new"]
    /\ got = [t \in Tasks |-> <<>>]
    /\ lost = {}
    /\ spurious = 0

Type ==
    /\ typed < MaxTyped
    /\ typed' = typed + 1
    /\ line' = Append(line, typed')
    /\ UNCHANGED <<execVars, ring, waiting, masked, st, got, lost, spurious>>

-------------------------------------------------------------------------------
(* The interrupt handler. *)

\* Serial::buffer.enqueue: a full ring overwrites its oldest byte.
Enqueued(b) == Append(IF Len(ring) = RingSize THEN Tail(ring) ELSE ring, b)

\* Uart::receive.
Received == Head(line)

\* Serial::interrupt_handler: one byte, one waker.
SerialInterrupt ==
    /\ line' = Tail(line)
    /\ ring' = Enqueued(Received)
    /\ lost' = IF Len(ring) = RingSize THEN lost \cup {Head(ring)} ELSE lost
    /\ waiting' = IF waiting = <<>> THEN waiting ELSE Tail(waiting)
    /\ queue' = IF waiting = <<>> THEN queue ELSE WakeQ(queue, Head(waiting))
    /\ notified' = (notified \/ (waiting # <<>> /\ Head(waiting) = running))

\* The interrupt controller has an interrupt to claim: it is raised again after
\* its completion while bytes are left in the UART.
Pending == line # <<>>

\* DeviceManager::interrupt_handler: claim, handle, complete.
InterruptHandler ==
    /\ ~masked /\ Pending
    /\ SerialInterrupt
    /\ UNCHANGED <<typed, running, live, masked, st, got, spurious>>

-------------------------------------------------------------------------------
(* The readers. *)

Start(t) ==
    /\ st[t] = "new"
    /\ Spawn(t)
    /\ st' = [st EXCEPT ![t] = "idle"]
    /\ UNCHANGED <<device, waiting, masked, got, spurious>>

Poll ==
    /\ Fetch
    /\ UNCHANGED <<device, waiting, masked, st, got, spurious>>

\* Stdin::read_at: a new read, or the poll of one that waits.
Reads(t) ==
    /\ running = t
    /\ st[t] = "wait" \/ (st[t] = "idle" /\ Len(got[t]) < MaxReads)

\* The byte stays in the ring.
ReadBytePeek(t) ==
    /\ Reads(t) /\ ring # <<>>
    /\ got' = [got EXCEPT ![t] = Append(@, Head(ring))]
    /\ st' = [st EXCEPT ![t] = "idle"]
    /\ UNCHANGED <<execVars, device, waiting, masked, spurious>>

\* SerialReadFuture::poll with a byte in the ring, for a new read or a woken one.
ReadByte(t) ==
    /\ Reads(t) /\ ring # <<>>
    /\ ring' = Tail(ring)
    /\ got' = [got EXCEPT ![t] = Append(@, Head(ring))]
    /\ st' = [st EXCEPT ![t] = "idle"]
    /\ UNCHANGED <<execVars, typed, line, lost, waiting, masked, spurious>>

\* The guard of the buffer is dropped before the else branch.
FindEmptyUnlocked(t) ==
    /\ Reads(t) /\ ring = <<>>
    /\ st' = [st EXCEPT ![t] = "check"]
    /\ UNCHANGED <<execVars, device, waiting, masked, got, spurious>>

\* The same with an empty ring: the guard of the buffer is a temporary of the
\* if-let and lives to the end of its else branch.
FindEmpty(t) ==
    /\ Reads(t) /\ ring = <<>>
    /\ st' = [st EXCEPT ![t] = "check"]
    /\ masked' = TRUE
    /\ UNCHANGED <<execVars, device, waiting, got, spurious>>

\* The else branch and the end of the if-let.
PushWaker(t) ==
    /\ running = t /\ st[t] = "check"
    /\ waiting' = Append(waiting, t)
    /\ masked' = FALSE
    /\ st' = [st EXCEPT ![t] = "leave"]
    /\ UNCHANGED <<execVars, device, got, spurious>>

\* Poll::Pending reaches the executor.
ReadPending(t) ==
    /\ running = t /\ st[t] = "leave"
    /\ Suspend
    /\ st' = [st EXCEPT ![t] = "wait"]
    /\ UNCHANGED <<device, waiting, masked, got, spurious>>

\* The task is preempted in user mode.
Preempt(t) ==
    /\ running = t /\ st[t] = "idle"
    /\ YieldNow
    /\ UNCHANGED <<device, waiting, masked, st, got, spurious>>

Finish(t) ==
    /\ running = t /\ st[t] = "idle"
    /\ Complete
    /\ st' = [st EXCEPT ![t] = "done"]
    /\ UNCHANGED <<device, waiting, masked, got, spurious>>

\* A waker that a pipe or a timer still keeps from an earlier wait fires.
StaleWake(t) ==
    /\ st[t] = "wait" /\ spurious < MaxSpurious
    /\ Wake(t)
    /\ spurious' = spurious + 1
    /\ UNCHANGED <<device, waiting, masked, st, got>>

TaskStep(t) ==
    \/ ReadByte(t) \/ FindEmpty(t) \/ PushWaker(t) \/ ReadPending(t)
    \/ Preempt(t) \/ Finish(t)

Next ==
    \/ Type \/ InterruptHandler \/ Poll
    \/ \E t \in Tasks : Start(t) \/ StaleWake(t) \/ TaskStep(t)

Spec == Init /\ [][Next]_vars

-------------------------------------------------------------------------------
(* Properties. *)

Waits(t) == st[t] \in {"leave", "wait"}

\* The task is polled again without any further wake.
WillPoll(t) == InQueue(queue, t) \/ (running = t /\ (notified \/ st[t] # "leave"))

\* No reader sleeps on input: while bytes are in the ring and readers wait, one
\* of them is going to be polled, although each byte wakes one reader only, a
\* newcomer may take the byte first and the interrupt may come anywhere in the
\* poll (serial/mod.rs 107 and 147-153).  A stale wake makes a reader queue its
\* waker twice, and a byte may then wake nobody who waits.
InputWakesReader ==
    spurious = 0 /\ ring # <<>> /\ (\E t \in Tasks : Waits(t)) =>
        \E t \in Tasks : Waits(t) /\ WillPoll(t)

RangeOf(s) == {s[i] : i \in 1..Len(s)}
Increasing(s) == \A i, j \in 1..Len(s) : i < j => s[i] < s[j]

\* Each byte is in one place, what a reader got is in the order of the typing,
\* and only a full ring loses bytes, the oldest first (serial/mod.rs 99-105 and
\* 147-149).
InputAccounted ==
    LET read == UNION {RangeOf(got[t]) : t \in Tasks}
        kept == ring \o line
    IN /\ read \cup lost \cup RangeOf(kept) = 1..typed
       /\ Cardinality(read) + Cardinality(lost) + Len(kept) = typed
       /\ Increasing(kept)
       /\ \A t \in Tasks : Increasing(got[t])
       /\ \A b \in read \cup lost : kept # <<>> => b < Head(kept)
===============================================================================
