--------------------------------- MODULE Pipe ---------------------------------
(***************************************************************************)
(* The pipes of src/src/fs/npipe.rs, used by processes that block in the   *)
(* executor: read_at and write_at with await_or_signal, the event bus of a *)
(* process (src/src/process/lproc.rs), sys_ppoll and sys_pselect over pipe *)
(* ends, the drop of an end, signals and timers that wake a process.       *)
(*                                                                         *)
(* Bytes are numbered in the order in which they enter the pipe.  Nothing  *)
(* but an interrupt happens between two steps of the running task.         *)
(***************************************************************************)
EXTENDS Executor

CONSTANTS
    Pipes,        \* the pipes
    Capacity,     \* MAX_PIPE_SIZE
    ReadersOf,    \* per pipe, the processes that inherit its read end
    WritersOf,    \* per pipe, the processes that inherit its write end
    IOLens,       \* the lengths of the user buffers
    MaxBytes,     \* bound: no write begins once so many bytes were written to a pipe
    MaxSignals,   \* bound: signals sent
    MaxSelects    \* bound: calls of ppoll and pselect

ASSUME PipeBounds ==
    /\ Capacity \in Nat \ {0}
    /\ IOLens \subseteq Nat
    /\ MaxBytes \in Nat /\ MaxSignals \in Nat /\ MaxSelects \in Nat
    /\ ReadersOf \in [Pipes -> SUBSET Tasks]
    /\ WritersOf \in [Pipes -> SUBSET Tasks]

VARIABLES
    buf,        \* Pipe::buf
    is_closed,  \* Pipe::is_closed
    waker,      \* Pipe::read_waker and Pipe::write_waker, by end
    holders,    \* the processes with an fd for the end (the Arc's count)
    st,         \* each process: "new", "idle", "wait", "ready", "report" or "done"
    fut,        \* the I/O call it awaits
    reg,        \* its interrupt futures that have registered (event_id is Some)
    nodes,      \* EventBus::events of each process
    timed,      \* the sleep queue has a node with the process's waker
    signals, selects,   \* how many so far
    sent, received      \* history: bytes written, bytes read

pipe == <<buf, is_closed, waker, holders, sent, received>>
proc == <<st, fut, reg, nodes>>
vars == <<execVars, pipe, proc, timed, signals, selects>>

Ends == Pipes \X {"r", "w"}
Peer(e) == <<e[1], IF e[2] = "r" THEN "w" ELSE "r">>
EndsOf(t) == {e \in Ends : t \in holders[e]}
NoCall == [kind |-> "none", ends |-> <<>>, len |-> 0]

Init ==
    /\ ExecInit
    /\ buf = [p \in Pipes |-> <<>>]
    /\ is_closed = [p \in Pipes |-> FALSE]
    /\ waker = [e \in Ends |-> NoTask]
    /\ holders = [e \in Ends |-> IF e[2] = "r" THEN ReadersOf[e[1]] ELSE WritersOf[e[1]]]
    /\ st = [t \in Tasks |-> "new"]
    /\ fut = [t \in Tasks |-> NoCall]
    /\ reg = [t \in Tasks |-> {}]
    /\ nodes = [t \in Tasks |-> {}]
    /\ timed = [t \in Tasks |-> FALSE]
    /\ signals = 0 /\ selects = 0
    /\ sent = [p \in Pipes |-> 0]
    /\ received = [p \in Pipes |-> <<>>]

Start(t) ==
    /\ st[t] = "new"
    /\ Spawn(t)
    /\ st' = [st EXCEPT ![t] = "idle"]
    /\ UNCHANGED <<pipe, fut, reg, nodes, timed, signals, selects>>

Poll ==
    /\ Fetch
    /\ UNCHANGED <<pipe, proc, timed, signals, selects>>

\* The process awaits a new call; its futures have not been polled yet.
Call(t, c) ==
    /\ running = t /\ st[t] = "idle"
    /\ st' = [st EXCEPT ![t] = "wait"]
    /\ fut' = [fut EXCEPT ![t] = c]
    /\ UNCHANGED <<execVars, pipe, reg, nodes, timed, signals>>

Return(t) ==
    /\ st' = [st EXCEPT ![t] = "idle"]
    /\ fut' = [fut EXCEPT ![t] = NoCall]

\* sys_read and sys_write on a pipe: read_at and write_at call poll_ready.
BeginIO(t, e, n) ==
    /\ e \in EndsOf(t)
    /\ e[2] = "w" => sent[e[1]] < MaxBytes
    /\ Call(t, [kind |-> "io", ends |-> <<e>>, len |-> n])
    /\ UNCHANGED selects

\* sys_ppoll and sys_pselect: one poll_ready future for each end, in fd order.
BeginSelect(t, es) ==
    /\ selects < MaxSelects
    /\ \A i \in 1..Len(es) : es[i] \in EndsOf(t)
    /\ Call(t, [kind |-> "select", ends |-> es, len |-> 0])
    /\ selects' = selects + 1

\* PipeReadPollFuture::poll and PipeWritePollFuture::poll: is it Ready?
ReadReady(p) == is_closed[p] \/ buf[p] # <<>>
WriteReady(p) == is_closed[p] \/ Len(buf[p]) < Capacity
LeftReady(e) == IF e[2] = "r" THEN ReadReady(e[1]) ELSE WriteReady(e[1])

\* A closed pipe is not told apart from one with data or space.
LeftOkAny(e) == LeftReady(e)

\* ... and is it Ready(Ok)?  Data is read after the close, nothing is written.
LeftOk(e) ==
    /\ LeftReady(e)
    /\ IF e[2] = "r" THEN buf[e[1]] # <<>> ELSE ~is_closed[e[1]]

\* EventBusWaitForFuture::poll: Ready whenever it is polled again, else it
\* registers; its drop takes the node off the event bus.
InterruptReady(t, i) == i \in reg[t]

Register(t) ==
    /\ reg' = [reg EXCEPT ![t] = 1..Len(fut[t].ends)]
    /\ nodes' = [nodes EXCEPT ![t] = 1..Len(fut[t].ends)]

DropFutures(t) ==
    /\ reg' = [reg EXCEPT ![t] = {}]
    /\ nodes' = [nodes EXCEPT ![t] = {}]

\* JoinFuture: the pipe's future is polled, or else the interrupt future.
JoinReady(t, i) == LeftReady(fut[t].ends[i]) \/ InterruptReady(t, i)

ReadyFutures(t) == {i \in 1..Len(fut[t].ends) : JoinReady(t, i)}

\* AnyFuture polls its futures in order, up to the first that is Ready.
AnyReady(t, i) == i \in ReadyFutures(t) /\ \A j \in ReadyFutures(t) : i <= j

\* The pipe futures with index up to i that are Pending keep the task's waker.
WakersAfter(t, i) ==
    [e \in Ends |-> IF \E j \in 1..i : fut[t].ends[j] = e /\ ~LeftReady(e) THEN t ELSE waker[e]]

\* The futures are dropped without taking their nodes off the event bus.
PollCallKeepNodes(t) ==
    /\ running = t /\ st[t] = "wait"
    /\ \E i \in 1..Len(fut[t].ends) :
        /\ AnyReady(t, i)
        /\ waker' = WakersAfter(t, i)
        /\ st' = [st EXCEPT ![t] = IF LeftOk(fut[t].ends[i]) THEN "ready" ELSE "idle"]
        /\ fut' = [fut EXCEPT ![t].ends = <<fut[t].ends[i]>>]
    /\ reg' = [reg EXCEPT ![t] = {}]
    /\ UNCHANGED <<execVars, nodes, buf, is_closed, holders, sent, received, timed, signals, selects>>

\* The first Ready future ends the call of await_or_signal, ppoll or pselect.
PollCall(t) ==
    /\ running = t /\ st[t] = "wait"
    /\ \E i \in 1..Len(fut[t].ends) :
        /\ AnyReady(t, i)
        /\ waker' = WakersAfter(t, i)
        /\ LET e == fut[t].ends[i] IN
            /\ st' = [st EXCEPT ![t] = IF fut[t].kind = "select" THEN "report"
                                       ELSE IF LeftOk(e) THEN "ready" ELSE "idle"]
            /\ fut' = [fut EXCEPT ![t] = IF fut[t].kind = "select" \/ LeftOk(e)
                                         THEN [@ EXCEPT !.ends = <<e>>] ELSE NoCall]
    /\ DropFutures(t)
    /\ UNCHANGED <<execVars, buf, is_closed, holders, sent, received, timed, signals, selects>>

\* SleepFuture leaves a node in the sleep queue where there is a timeout.
PushNode(t) == timed' \in {timed, [timed EXCEPT ![t] = (fut[t].kind = "select")]}

\* No future is Ready: each keeps a waker, in the pipe and on the event bus.
PendingCall(t) ==
    /\ running = t /\ st[t] = "wait" /\ ReadyFutures(t) = {}
    /\ waker' = WakersAfter(t, Len(fut[t].ends))
    /\ Register(t)
    /\ PushNode(t)
    /\ Suspend
    /\ UNCHANGED <<buf, is_closed, holders, sent, received, st, fut, signals, selects>>

\* SleepFuture::poll finds the time over already: the call returns 0 and the
\* pipes keep the wakers.
TimeoutCall(t) ==
    /\ running = t /\ st[t] = "wait" /\ ReadyFutures(t) = {} /\ fut[t].kind = "select"
    /\ waker' = WakersAfter(t, Len(fut[t].ends))
    /\ Return(t)
    /\ UNCHANGED <<execVars, buf, is_closed, holders, sent, received,
                   reg, nodes, timed, signals, selects>>

\* sys_ppoll and sys_pselect write the reported fd to the user and return 1.
ReportSelect(t) ==
    /\ running = t /\ st[t] = "report"
    /\ Return(t)
    /\ UNCHANGED <<execVars, pipe, reg, nodes, timed, signals, selects>>

\* The waker is taken and dropped.
TakeNoWake(e) ==
    /\ waker' = [waker EXCEPT ![e] = NoTask]
    /\ UNCHANGED execVars

\* Taking a waker out of the pipe and waking it.
TakeWaker(e) ==
    /\ waker' = [waker EXCEPT ![e] = NoTask]
    /\ queue' = IF waker[e] = NoTask THEN queue ELSE WakeQ(queue, waker[e])
    /\ notified' = (notified \/ (waker[e] # NoTask /\ waker[e] = running))
    /\ UNCHANGED <<running, live>>

AtMost(m, n) == IF m <= n THEN m ELSE n

\* PipeReadEnd::poll_read, in the poll in which poll_ready returned.
PollRead(t) ==
    /\ running = t /\ st[t] = "ready" /\ fut[t].ends[1][2] = "r"
    /\ LET p == fut[t].ends[1][1]
           n == AtMost(Len(buf[p]), fut[t].len)
       IN /\ buf' = [buf EXCEPT ![p] = SubSeq(@, n + 1, Len(@))]
          /\ received' = [received EXCEPT ![p] = @ \o SubSeq(buf[p], 1, n)]
          /\ IF fut[t].len = 0 THEN UNCHANGED <<waker, execVars>> ELSE TakeWaker(<<p, "w">>)
    /\ Return(t)
    /\ UNCHANGED <<is_closed, holders, sent, reg, nodes, timed, signals, selects>>

\* AllocRingBuffer::push (external): a full ring loses its oldest byte.
RingPush(b, s) ==
    LET c == b \o s IN IF Len(c) <= Capacity THEN c ELSE SubSeq(c, Len(c) - Capacity + 1, Len(c))

\* The whole user buffer is pushed, whatever space is left.
PollWriteAll(t) ==
    /\ running = t /\ st[t] = "ready" /\ fut[t].ends[1][2] = "w"
    /\ LET p == fut[t].ends[1][1]
           n == fut[t].len
       IN /\ buf' = [buf EXCEPT ![p] = RingPush(@, [i \in 1..n |-> sent[p] + i])]
          /\ sent' = [sent EXCEPT ![p] = @ + n]
          /\ IF fut[t].len = 0 THEN UNCHANGED <<waker, execVars>> ELSE TakeWaker(<<p, "r">>)
    /\ Return(t)
    /\ UNCHANGED <<is_closed, holders, received, reg, nodes, timed, signals, selects>>

\* PipeWriteEnd::poll_write, in the poll in which poll_ready returned.
PollWrite(t) ==
    /\ running = t /\ st[t] = "ready" /\ fut[t].ends[1][2] = "w"
    /\ LET p == fut[t].ends[1][1]
           n == AtMost(Capacity - Len(buf[p]), fut[t].len)
       IN /\ buf' = [buf EXCEPT ![p] = RingPush(@, [i \in 1..n |-> sent[p] + i])]
          /\ sent' = [sent EXCEPT ![p] = @ + n]
          /\ IF fut[t].len = 0 THEN UNCHANGED <<waker, execVars>> ELSE TakeWaker(<<p, "r">>)
    /\ Return(t)
    /\ UNCHANGED <<is_closed, holders, received, reg, nodes, timed, signals, selects>>

\* The last fd of an end is closed and the other end is not told.
CloseEndNoWake(t, e) ==
    /\ running = t /\ st[t] = "idle" /\ e \in EndsOf(t)
    /\ holders' = [holders EXCEPT ![e] = @ \ {t}]
    /\ is_closed' = [is_closed EXCEPT ![e[1]] = @ \/ holders[e] = {t}]
    /\ UNCHANGED <<waker, execVars, buf, sent, received, proc, timed, signals, selects>>

\* PipeReadEnd::drop and PipeWriteEnd::drop wake the task at the other end.
DropEnd(e) ==
    /\ is_closed' = [is_closed EXCEPT ![e[1]] = TRUE]
    /\ TakeWaker(Peer(e))

\* sys_close on the fd of an end, which is dropped with its last fd.
CloseEnd(t, e) ==
    /\ running = t /\ st[t] = "idle" /\ e \in EndsOf(t)
    /\ holders' = [holders EXCEPT ![e] = @ \ {t}]
    /\ IF holders[e] = {t} THEN DropEnd(e) ELSE UNCHANGED <<is_closed, waker, execVars>>
    /\ UNCHANGED <<buf, sent, received, proc, timed, signals, selects>>

\* The process runs on in user mode until a timer interrupt makes it yield.
Yield(t) ==
    /\ running = t /\ st[t] = "idle"
    /\ YieldNow
    /\ UNCHANGED <<pipe, proc, timed, signals, selects>>

\* do_exit has closed every fd (release_all) and the userloop returns.
Exit(t) ==
    /\ running = t /\ st[t] = "idle" /\ EndsOf(t) = {}
    /\ Complete
    /\ st' = [st EXCEPT ![t] = "done"]
    /\ UNCHANGED <<pipe, fut, reg, nodes, timed, signals, selects>>

\* EventBus::notify wakes and removes every node.
Notify(t) ==
    /\ nodes' = [nodes EXCEPT ![t] = {}]
    /\ IF nodes[t] = {} THEN UNCHANGED execVars ELSE Wake(t)

\* LightProcess::send_signal.
SendSignal(t) ==
    /\ signals < MaxSignals
    /\ signals' = signals + 1
    /\ Notify(t)
    /\ UNCHANGED <<pipe, st, fut, reg, timed, selects>>

\* SleepQueue::wake_ready reaches the node, whatever the process does by now.
TimerTick(t) ==
    /\ timed[t]
    /\ timed' = [timed EXCEPT ![t] = FALSE]
    /\ Wake(t)
    /\ UNCHANGED <<pipe, proc, signals, selects>>

SelectLists == {es \in [1..2 -> Ends] : es[1] # es[2]} \cup [1..1 -> Ends]

RunTask ==
    \E t \in Tasks :
        \/ PollCall(t) \/ PendingCall(t) \/ TimeoutCall(t) \/ ReportSelect(t)
        \/ PollRead(t) \/ PollWrite(t) \/ Yield(t) \/ Exit(t)
        \/ \E e \in Ends : CloseEnd(t, e) \/ \E n \in IOLens : BeginIO(t, e, n)
        \/ \E es \in SelectLists : BeginSelect(t, es)

Next == Poll \/ RunTask \/ \E t \in Tasks : Start(t) \/ SendSignal(t) \/ TimerTick(t)
Spec == Init /\ [][Next]_vars

\* The boot hart runs the executor for ever, a poll returns, and the timer
\* interrupts a process that stays in user mode.
FairSpec ==
    /\ Spec
    /\ WF_vars(Poll) /\ WF_vars(RunTask)
    /\ \A t \in Tasks : SF_vars(Yield(t))

-------------------------------------------------------------------------------
\* poll_read and poll_write assert that there is a byte to read and space to
\* write (npipe.rs 160 and 258), and rely on it after poll_ready has returned.
TransferHasRoom ==
    \A t \in Tasks : st[t] = "ready" =>
        LET e == fut[t].ends[1] IN
            IF e[2] = "r" THEN Len(buf[e[1]]) > 0 ELSE Len(buf[e[1]]) < Capacity

\* An EventNode points at a Waker inside the future that registered it: no
\* node outlives its future, whichever of pipe, signal and timer ended the wait
\* (lproc.rs 867-887 and 920-926).
NoDanglingNode ==
    \A t \in Tasks : nodes[t] # {} => st[t] = "wait" /\ nodes[t] \subseteq reg[t]

\* With one process at each end, a process that sleeps in a pipe call and is
\* not going to be polled has nothing to do: none of its ends is ready, however
\* data, closes, signals, timeouts and stale wakers came in.
NoStrandedProcess ==
    \A t \in Tasks :
        st[t] = "wait" /\ ~Scheduled(t) =>
            \A i \in 1..Len(fut[t].ends) : ~LeftReady(fut[t].ends[i])

\* A pipe is a bounded FIFO channel (BoundedChannel): no byte is lost,
\* duplicated, reordered or written to a closed pipe.
Channel == INSTANCE BoundedChannel WITH closed <- is_closed
IsChannel == Channel!Spec

\* A process that waits for an end that became ready returns from the call.
ReadyCallReturns ==
    \A t \in Tasks :
        (st[t] = "wait" /\ \E i \in 1..Len(fut[t].ends) : LeftReady(fut[t].ends[i]))
            ~> st[t] # "wait"
===============================================================================
