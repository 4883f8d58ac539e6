------------------------------ MODULE PipeProofs ------------------------------
(***************************************************************************)
(* Proofs about Pipe for any processes, pipes, capacity, buffer lengths    *)
(* and numbers of bytes, signals and calls.                                *)
(***************************************************************************)
EXTENDS Pipe, SequenceTheorems, TLAPS

States == {"new", "idle", "wait", "ready", "report", "done"}
Kinds == {"none", "io", "select"}
CallType == [kind : Kinds, ends : Seq(Ends), len : Nat]

\* What a process awaits.  The futures of a call are numbered by its ends; one
\* that has registered belongs to a call that waits, and a node on the event bus
\* to a future that has registered.
CallInv ==
    /\ st \in [Tasks -> States]
    /\ fut \in [Tasks -> CallType]
    /\ reg \in [Tasks -> SUBSET Nat]
    /\ nodes \in [Tasks -> SUBSET Nat]
    /\ \A t \in Tasks :
        /\ reg[t] \subseteq 1..Len(fut[t].ends)
        /\ nodes[t] \subseteq reg[t]
        /\ reg[t] # {} => st[t] = "wait"

\* A function over 1..n is a sequence.
LEMMA FunIsSeq ==
    ASSUME NEW S, NEW n \in Nat, NEW f \in [1..n -> S]
    PROVE  f \in Seq(S) /\ Len(f) = n
BY SeqDef

\* The calls a process can make, and the one it has between two.
LEMMA CallTypes ==
    /\ NoCall \in CallType
    /\ \A e \in Ends, n \in Nat : [kind |-> "io", ends |-> <<e>>, len |-> n] \in CallType
    /\ \A es \in SelectLists : [kind |-> "select", ends |-> es, len |-> 0] \in CallType
<1>1. \A e \in Ends : <<e>> \in Seq(Ends)
  OBVIOUS
<1>2. SelectLists \subseteq Seq(Ends)
  BY FunIsSeq, ZenonT(30) DEF SelectLists
<1> QED BY <1>1, <1>2 DEF NoCall, CallType, Kinds

\* The call that PollCall leaves to the transfer or the report has one end.
LEMMA OneEnd ==
    ASSUME NEW c \in CallType, NEW e \in Ends
    PROVE  /\ [c EXCEPT !.ends = <<e>>] \in CallType
           /\ [c EXCEPT !.ends = <<e>>].ends = <<e>>
<1>1. <<e>> \in Seq(Ends)
  OBVIOUS
<1> DEFINE x == <<e>>
<1> HIDE DEF x
<1>2. ASSUME x \in Seq(Ends)
      PROVE  [c EXCEPT !.ends = x] \in CallType /\ [c EXCEPT !.ends = x].ends = x
  BY <1>2 DEF CallType
<1> QED BY <1>1, <1>2 DEF x

\* A step that changes what one process awaits.
CallStep(t) ==
    \E s \in States, c \in CallType, r, n \in SUBSET Nat :
        /\ st' = [st EXCEPT ![t] = s]
        /\ fut' = [fut EXCEPT ![t] = c]
        /\ reg' = [reg EXCEPT ![t] = r]
        /\ nodes' = [nodes EXCEPT ![t] = n]
        /\ r \subseteq 1..Len(c.ends) /\ n \subseteq r /\ (r # {} => s = "wait")

\* A step on the call of one process keeps the invariant of the calls.
LEMMA CallStepInv ==
    ASSUME CallInv, NEW t \in Tasks, CallStep(t)
    PROVE  CallInv'
<1>1. PICK s \in States, c \in CallType, r, n \in SUBSET Nat :
        /\ st' = [st EXCEPT ![t] = s]
        /\ fut' = [fut EXCEPT ![t] = c]
        /\ reg' = [reg EXCEPT ![t] = r]
        /\ nodes' = [nodes EXCEPT ![t] = n]
        /\ r \subseteq 1..Len(c.ends) /\ n \subseteq r /\ (r # {} => s = "wait")
  BY ZenonT(30) DEF CallStep
<1> QED BY <1>1, ZenonT(30) DEF CallInv

\* The start of a process begins no call.
LEMMA StartCall ==
    ASSUME CallInv, NEW t \in Tasks, Start(t)
    PROVE  CallStep(t)
<1> DEFINE s == "idle" c == fut[t] r == reg[t] n == nodes[t]
<1>1. s \in States /\ c \in CallType /\ r \in SUBSET Nat /\ n \in SUBSET Nat
  BY DEF CallInv, States
<1>2. r = {} /\ n = {}
  BY DEF CallInv, Start
<1>3. /\ st' = [st EXCEPT ![t] = s]
      /\ fut' = [fut EXCEPT ![t] = c]
      /\ reg' = [reg EXCEPT ![t] = r]
      /\ nodes' = [nodes EXCEPT ![t] = n]
  BY DEF CallInv, Start
<1> HIDE DEF s, c, r, n
<1> QED BY <1>1, <1>2, <1>3, ZenonT(30) DEF CallStep

\* A call begins with no registered future.
LEMMA BeginCall ==
    ASSUME CallInv, NEW t \in Tasks, NEW c \in CallType, Call(t, c)
    PROVE  CallStep(t)
<1> DEFINE s == "wait" r == reg[t] n == nodes[t]
<1>1. s \in States /\ c \in CallType /\ r \in SUBSET Nat /\ n \in SUBSET Nat
  BY DEF CallInv, States
<1>2. r = {} /\ n = {}
  BY DEF CallInv, Call
<1>3. /\ st' = [st EXCEPT ![t] = s]
      /\ fut' = [fut EXCEPT ![t] = c]
      /\ reg' = [reg EXCEPT ![t] = r]
      /\ nodes' = [nodes EXCEPT ![t] = n]
  BY DEF CallInv, Call
<1> HIDE DEF s, r, n
<1> QED BY <1>1, <1>2, <1>3, ZenonT(30) DEF CallStep

\* A call that ends without futures that have registered.
LEMMA ReturnCall ==
    ASSUME CallInv, NEW t \in Tasks, Return(t), UNCHANGED <<reg, nodes>>, reg[t] = {}
    PROVE  CallStep(t)
<1> DEFINE s == "idle" c == NoCall r == {} n == {}
<1>1. s \in States /\ c \in CallType /\ r \in SUBSET Nat /\ n \in SUBSET Nat
  BY CallTypes DEF States
<1>2. nodes[t] = {}
  BY DEF CallInv
<1>3. /\ st' = [st EXCEPT ![t] = s]
      /\ fut' = [fut EXCEPT ![t] = c]
      /\ reg' = [reg EXCEPT ![t] = r]
      /\ nodes' = [nodes EXCEPT ![t] = n]
  BY <1>2 DEF CallInv, Return
<1> HIDE DEF s, c
<1> QED BY <1>1, <1>3, ZenonT(30) DEF CallStep

\* await_or_signal, ppoll or pselect ends: its futures are dropped.
LEMMA PollCallCall ==
    ASSUME CallInv, NEW t \in Tasks, PollCall(t)
    PROVE  CallStep(t)
<1>1. PICK i \in 1..Len(fut[t].ends) :
        LET e == fut[t].ends[i] IN
            /\ st' = [st EXCEPT ![t] = IF fut[t].kind = "select" THEN "report"
                                       ELSE IF LeftOk(e) THEN "ready" ELSE "idle"]
            /\ fut' = [fut EXCEPT ![t] = IF fut[t].kind = "select" \/ LeftOk(e)
                                         THEN [@ EXCEPT !.ends = <<e>>] ELSE NoCall]
  BY ZenonT(30) DEF PollCall
<1> DEFINE e == fut[t].ends[i]
           s == IF fut[t].kind = "select" THEN "report" ELSE IF LeftOk(e) THEN "ready" ELSE "idle"
           c == IF fut[t].kind = "select" \/ LeftOk(e) THEN [fut[t] EXCEPT !.ends = <<e>>] ELSE NoCall
           r == {} n == {}
<1>2. e \in Ends
  BY ElementOfSeq DEF CallInv, CallType
<1>3. c \in CallType
  BY <1>2, CallTypes, OneEnd, ZenonT(30) DEF CallInv
<1>4. s \in States /\ r \in SUBSET Nat /\ n \in SUBSET Nat
  BY DEF States
<1>5. /\ st' = [st EXCEPT ![t] = s]
      /\ fut' = [fut EXCEPT ![t] = c]
      /\ reg' = [reg EXCEPT ![t] = r]
      /\ nodes' = [nodes EXCEPT ![t] = n]
  BY <1>1, ZenonT(30) DEF CallInv, PollCall, DropFutures
<1> HIDE DEF s, c
<1> QED BY <1>3, <1>4, <1>5, ZenonT(30) DEF CallStep

\* No future of the call has registered where none of them is ready.
LEMMA NotRegistered ==
    ASSUME CallInv, NEW t \in Tasks, ReadyFutures(t) = {}
    PROVE  reg[t] = {}
<1>1. \A i \in 1..Len(fut[t].ends) : i \notin reg[t]
  BY DEF ReadyFutures, JoinReady, InterruptReady
<1> QED BY <1>1 DEF CallInv

\* A poll that stays pending registers futures of the call only.
LEMMA PendingCallCall ==
    ASSUME CallInv, NEW t \in Tasks, PendingCall(t)
    PROVE  CallStep(t)
<1> DEFINE s == "wait" c == fut[t] r == 1..Len(fut[t].ends) n == r
<1>1. s \in States /\ c \in CallType /\ Len(fut[t].ends) \in Nat
  BY DEF CallInv, CallType, States
<1>2. r \in SUBSET Nat /\ n \in SUBSET Nat /\ n \subseteq r /\ r \subseteq 1..Len(c.ends)
  BY <1>1
<1>3. /\ st' = [st EXCEPT ![t] = s]
      /\ fut' = [fut EXCEPT ![t] = c]
      /\ reg' = [reg EXCEPT ![t] = r]
      /\ nodes' = [nodes EXCEPT ![t] = n]
  BY DEF CallInv, PendingCall, Register
<1>4. s = "wait"
  OBVIOUS
<1> HIDE DEF s, c, r, n
<1> QED BY <1>1, <1>2, <1>3, <1>4, ZenonT(30) DEF CallStep

\* EventBus::notify takes the nodes away; the futures stay.
LEMMA SendSignalCall ==
    ASSUME CallInv, NEW t \in Tasks, SendSignal(t)
    PROVE  CallInv'
BY DEF CallInv, SendSignal, Notify

\* The transfer and the report happen outside the wait.
LEMMA TransferCall ==
    ASSUME CallInv, NEW t \in Tasks, ReportSelect(t) \/ PollRead(t) \/ PollWrite(t)
    PROVE  CallStep(t)
<1>1. Return(t) /\ UNCHANGED <<reg, nodes>> /\ st[t] \in {"report", "ready"}
  BY ZenonT(30) DEF ReportSelect, PollRead, PollWrite
<1>2. reg[t] = {}
  BY <1>1 DEF CallInv
<1> QED BY <1>1, <1>2, ReturnCall

\* What processes await stays well formed.
LEMMA CallInvStep == CallInv /\ [Next]_vars => CallInv'
<1> SUFFICES ASSUME CallInv, [Next]_vars PROVE CallInv'
  OBVIOUS
<1>1. ASSUME UNCHANGED proc
      PROVE  CallInv'
  BY <1>1 DEF CallInv, proc
<1>2. ASSUME NEW t \in Tasks, Start(t) \/ PollCall(t) \/ PendingCall(t) \/ ReportSelect(t)
                              \/ PollRead(t) \/ PollWrite(t)
      PROVE  CallInv'
  BY <1>2, StartCall, PollCallCall, PendingCallCall, TransferCall, CallStepInv
<1>3. ASSUME NEW t \in Tasks, TimeoutCall(t)
      PROVE  CallInv'
  <2>1. Return(t) /\ UNCHANGED <<reg, nodes>> /\ ReadyFutures(t) = {}
    BY <1>3 DEF TimeoutCall
  <2> QED BY <2>1, NotRegistered, ReturnCall, CallStepInv
<1>4. ASSUME NEW t \in Tasks, NEW e \in Ends, NEW n \in IOLens, BeginIO(t, e, n)
      PROVE  CallInv'
  <2>1. [kind |-> "io", ends |-> <<e>>, len |-> n] \in CallType
    BY CallTypes, PipeBounds
  <2> QED BY <1>4, <2>1, BeginCall, CallStepInv DEF BeginIO
<1>5. ASSUME NEW t \in Tasks, NEW es \in SelectLists, BeginSelect(t, es)
      PROVE  CallInv'
  BY <1>5, CallTypes, BeginCall, CallStepInv DEF BeginSelect
<1>6. ASSUME NEW t \in Tasks, NEW e \in Ends, CloseEnd(t, e)
      PROVE  CallInv'
  BY <1>1, <1>6 DEF CloseEnd
<1>7. ASSUME NEW t \in Tasks, Yield(t) \/ TimerTick(t)
      PROVE  CallInv'
  BY <1>1, <1>7 DEF Yield, TimerTick
<1>8. ASSUME NEW t \in Tasks, Exit(t)
      PROVE  CallInv'
  BY <1>8 DEF CallInv, Exit, States
<1>9. CASE Poll
  BY <1>1, <1>9 DEF Poll
<1>10. CASE UNCHANGED vars
  BY <1>1, <1>10 DEF vars
<1> QED BY <1>2, <1>3, <1>4, <1>5, <1>6, <1>7, <1>8, <1>9, <1>10, SendSignalCall
        DEF Next, RunTask

\* At the start no call is in progress.
LEMMA CallInvInit == Init => CallInv
BY CallTypes DEF Init, CallInv, States

\* No node of the event bus outlives the future whose waker it points at,
\* whichever of pipe, signal and timeout ends the wait (lproc.rs 867-887 and
\* 920-926): NoDanglingNode is an invariant.
THEOREM NoDanglingNodeHolds == Spec => []NoDanglingNode
<1>1. CallInv => NoDanglingNode
  BY DEF CallInv, NoDanglingNode
<1> QED BY <1>1, CallInvInit, CallInvStep, PTL DEF Spec

-------------------------------------------------------------------------------
(* The executor. *)

ExecInv ==
    /\ queue \in Seq(Tasks)
    /\ running \in Tasks \cup {NoTask}
    /\ live \in SUBSET Tasks
    /\ waker \in [Ends -> Tasks \cup {NoTask}]

\* A step of the executor keeps everybody who is scheduled, except perhaps the
\* task whose poll ends.
ExecKeeps ==
    /\ queue' \in Seq(Tasks) /\ running' \in Tasks \cup {NoTask} /\ live' \in SUBSET Tasks
    /\ \A u \in Tasks \ {running} : Scheduled(u) => Scheduled(u)'

\* A task put at the end of the run queue.
LEMMA InAppend ==
    ASSUME NEW q \in Seq(Tasks), NEW x \in Tasks, NEW u
    PROVE  /\ Append(q, x) \in Seq(Tasks)
           /\ InQueue(Append(q, x), u) <=> InQueue(q, u) \/ u = x
<1>1. /\ Append(q, x) \in Seq(Tasks)
      /\ Len(Append(q, x)) = Len(q) + 1
      /\ \A i \in 1..Len(q) : Append(q, x)[i] = q[i]
      /\ Append(q, x)[Len(q) + 1] = x
      /\ Len(q) \in Nat
  BY AppendProperties, LenProperties
<1>2. 1..(Len(q) + 1) = (1..Len(q)) \cup {Len(q) + 1}
  BY <1>1
<1> QED BY <1>1, <1>2 DEF InQueue

\* The task taken from the front of the run queue.
LEMMA InTail ==
    ASSUME NEW q \in Seq(Tasks), q # <<>>, NEW u
    PROVE  /\ Head(q) \in Tasks /\ Tail(q) \in Seq(Tasks)
           /\ InQueue(q, u) <=> u = Head(q) \/ InQueue(Tail(q), u)
<1>1. /\ Head(q) \in Tasks /\ Tail(q) \in Seq(Tasks)
      /\ Len(Tail(q)) = Len(q) - 1 /\ Head(q) = q[1]
      /\ \A i \in 1..Len(Tail(q)) : Tail(q)[i] = q[i + 1]
      /\ Len(q) \in Nat /\ Len(q) > 0
  BY HeadTailProperties, EmptySeq, LenProperties
<1>2. \A i \in 1..Len(q) : i = 1 \/ (i - 1 \in 1..Len(Tail(q)) /\ i = (i - 1) + 1)
  BY <1>1
<1>3. \A i \in 1..Len(Tail(q)) : i + 1 \in 1..Len(q)
  BY <1>1
<1>4. 1 \in 1..Len(q)
  BY <1>1
<1> QED BY <1>1, <1>2, <1>3, <1>4, ZenonT(30) DEF InQueue

\* A wake drops nobody from the run queue and queues a live task that is not
\* running.
LEMMA WakeQKeeps ==
    ASSUME ExecInv, NEW t \in Tasks
    PROVE  /\ WakeQ(queue, t) \in Seq(Tasks)
           /\ \A u \in Tasks : InQueue(queue, u) => InQueue(WakeQ(queue, t), u)
           /\ t \in live => t = running \/ InQueue(WakeQ(queue, t), t)
BY InAppend DEF ExecInv, WakeQ

\* A wake loses no scheduled task and schedules its own.
LEMMA WakeKeeps ==
    ASSUME ExecInv, NEW t \in Tasks, Wake(t)
    PROVE  ExecKeeps /\ (t \in live => Scheduled(t)') /\ running' = running
<1>1. queue' = WakeQ(queue, t) /\ running' = running /\ live' = live
  BY DEF Wake
<1> QED BY <1>1, WakeQKeeps DEF ExecKeeps, Scheduled, ExecInv

\* Taking the waker of an end wakes its task.
LEMMA TakeWakerKeeps ==
    ASSUME ExecInv, NEW e \in Ends, TakeWaker(e)
    PROVE  /\ ExecKeeps /\ running' = running
           /\ \A u \in live : waker[e] = u => Scheduled(u)'
<1>1. PICK t \in Tasks \cup {NoTask} : t = waker[e]
  BY DEF ExecInv
<1>2. running' = running /\ live' = live
  BY DEF TakeWaker
<1>3. CASE t = NoTask
  <2>1. queue' = queue /\ t \notin live
    BY <1>1, <1>3, NoTaskIsNone DEF TakeWaker, ExecInv
  <2> QED BY <1>1, <1>2, <2>1 DEF ExecKeeps, Scheduled, ExecInv
<1>4. CASE t # NoTask
  <2>1. queue' = WakeQ(queue, t) /\ t \in Tasks
    BY <1>1, <1>4 DEF TakeWaker
  <2> QED BY <1>1, <1>2, <2>1, WakeQKeeps DEF ExecKeeps, Scheduled, ExecInv
<1> QED BY <1>3, <1>4

\* The task taken from the run queue is running afterwards.
LEMMA FetchKeeps ==
    ASSUME ExecInv, Fetch
    PROVE  ExecKeeps
BY InTail, NoTaskIsNone DEF ExecInv, Fetch, ExecKeeps, Scheduled

\* A spawn loses no scheduled task.
LEMMA SpawnKeeps ==
    ASSUME ExecInv, NEW t \in Tasks, Spawn(t)
    PROVE  ExecKeeps /\ running' = running
BY InAppend DEF ExecInv, Spawn, ExecKeeps, Scheduled

\* The end of a poll loses no scheduled task but perhaps its own.
LEMMA EndOfPollKeeps ==
    ASSUME ExecInv, running \in Tasks, Suspend \/ YieldNow \/ Complete
    PROVE  ExecKeeps
BY InAppend, ZenonT(30) DEF ExecInv, Suspend, YieldNow, Complete, ExecKeeps, Scheduled

\* A step that leaves the executor alone loses no task.
LEMMA StutterKeeps ==
    ASSUME ExecInv, UNCHANGED execVars
    PROVE  ExecKeeps
BY DEF ExecInv, ExecKeeps, execVars, Scheduled

-------------------------------------------------------------------------------
(* The transfer. *)

\* Between poll_ready and the transfer the process keeps running, so that what
\* poll_ready has found about the one end of the call is still true.
ReadyInv ==
    \A t \in Tasks : st[t] = "ready" =>
        /\ running = t
        /\ \E e \in Ends : fut[t].ends = <<e>> /\ LeftOk(e)

\* Nobody is between poll_ready and the transfer.
NobodyReady == \A t \in Tasks : st[t] # "ready"

\* Nobody but the running process is between poll_ready and the transfer.
LEMMA OnlyRunningReady ==
    ASSUME ReadyInv, NEW t \in Tasks, running = t
    PROVE  \A u \in Tasks \ {t} : st[u] # "ready"
BY DEF ReadyInv

\* A poll of a call leaves at most the running process before its transfer.
LEMMA PollCallReady ==
    ASSUME CallInv, ReadyInv, NEW t \in Tasks, PollCall(t)
    PROVE  ReadyInv'
<1>1. PICK i \in 1..Len(fut[t].ends) :
        LET e == fut[t].ends[i] IN
            /\ st' = [st EXCEPT ![t] = IF fut[t].kind = "select" THEN "report"
                                       ELSE IF LeftOk(e) THEN "ready" ELSE "idle"]
            /\ fut' = [fut EXCEPT ![t] = IF fut[t].kind = "select" \/ LeftOk(e)
                                         THEN [@ EXCEPT !.ends = <<e>>] ELSE NoCall]
  BY ZenonT(30) DEF PollCall
<1>2. PICK e \in Ends : e = fut[t].ends[i]
  BY ElementOfSeq DEF CallInv, CallType
<1>3. fut[t] \in CallType
  BY DEF CallInv
<1>4. running = t /\ UNCHANGED <<running, buf, is_closed>>
  BY DEF PollCall, execVars
<1>5. \A u \in Tasks : st'[u] = "ready" => u = t
  BY <1>1, <1>4, OnlyRunningReady DEF CallInv
<1>6. st'[t] = "ready" => fut'[t].ends = <<e>> /\ LeftOk(e)
  BY <1>1, <1>2, <1>3, OneEnd DEF CallInv
<1>7. LeftOk(e)' <=> LeftOk(e)
  BY <1>4 DEF LeftOk, LeftReady, ReadReady, WriteReady
<1> QED BY <1>2, <1>4, <1>5, <1>6, <1>7 DEF ReadyInv

\* After every other step nobody is between poll_ready and the transfer, or
\* the step changes nothing of it.
LEMMA QuietReady ==
    ASSUME ReadyInv,
           NobodyReady' \/ UNCHANGED <<running, st, fut, buf, is_closed>>
    PROVE  ReadyInv'
<1>1. CASE NobodyReady'
  BY <1>1 DEF ReadyInv, NobodyReady
<1>2. CASE UNCHANGED <<running, st, fut, buf, is_closed>>
  BY <1>2 DEF ReadyInv, LeftOk, LeftReady, ReadReady, WriteReady
<1> QED BY <1>1, <1>2

\* The end of a transfer, whose peer's waker is taken unless the buffer is empty.
LEMMA TransferEnd ==
    ASSUME ReadyInv, NEW t \in Tasks, PollRead(t) \/ PollWrite(t)
    PROVE  \E e \in Ends :
              /\ fut[t].ends[1] = e /\ LeftOk(e) /\ Peer(e) \in Ends
              /\ UNCHANGED <<waker, execVars>> \/ TakeWaker(Peer(e))
<1>1. st[t] = "ready"
  BY ZenonT(30) DEF PollRead, PollWrite
<1>2. PICK e \in Ends : fut[t].ends = <<e>> /\ LeftOk(e)
  BY <1>1 DEF ReadyInv
<1>3. fut[t].ends[1] = e
  BY <1>2
<1>4. Peer(e) \in Ends
  BY DEF Peer, Ends
<1>5. CASE PollRead(t)
  <2>1. e[2] = "r" /\ Peer(e) = <<e[1], "w">>
    BY <1>3, <1>5 DEF PollRead, Peer
  <2> QED BY <1>2, <1>3, <1>4, <1>5, <2>1 DEF PollRead
<1>6. CASE PollWrite(t)
  <2>1. e[2] = "w" /\ Peer(e) = <<e[1], "r">>
    BY <1>3, <1>6 DEF PollWrite, Peer
  <2> QED BY <1>2, <1>3, <1>4, <1>6, <2>1 DEF PollWrite
<1> QED BY <1>5, <1>6, SMTT(30)

\* The wakers and the executor after each step of the running task.
LEMMA TransferKeeps ==
    ASSUME ExecInv, ReadyInv, NEW t \in Tasks, PollRead(t) \/ PollWrite(t)
    PROVE  ExecInv' /\ ExecKeeps /\ running' = running
<1>1. PICK e \in Ends : UNCHANGED <<waker, execVars>> \/ TakeWaker(e)
  BY TransferEnd
<1>2. CASE UNCHANGED <<waker, execVars>>
  BY <1>2, StutterKeeps DEF ExecInv, execVars
<1>3. CASE TakeWaker(e)
  BY <1>3, TakeWakerKeeps, ZenonT(30) DEF ExecInv, ExecKeeps, TakeWaker
<1> QED BY <1>1, <1>2, <1>3

\* Closing an end wakes its peer and loses no scheduled task.
LEMMA CloseEndKeeps ==
    ASSUME ExecInv, NEW t \in Tasks, NEW e \in Ends, CloseEnd(t, e)
    PROVE  ExecInv' /\ ExecKeeps /\ running' = running
<1>1. Peer(e) \in Ends
  BY DEF Peer, Ends
<1>2. CASE UNCHANGED <<waker, execVars>>
  BY <1>2, StutterKeeps DEF ExecInv, execVars
<1>3. CASE TakeWaker(Peer(e))
  BY <1>1, <1>3, TakeWakerKeeps, ZenonT(30) DEF ExecInv, ExecKeeps, TakeWaker
<1> QED BY <1>2, <1>3 DEF CloseEnd, DropEnd

\* Every step keeps the run queue and loses no task.
LEMMA ExecInvStep ==
    ASSUME ExecInv, ReadyInv, Next
    PROVE  ExecInv' /\ ExecKeeps
<1>1. ASSUME ExecKeeps, waker' = waker
      PROVE  ExecInv'
  BY <1>1 DEF ExecInv, ExecKeeps
<1>2. ASSUME NEW t \in Tasks, NEW i, ExecKeeps, waker' = WakersAfter(t, i)
      PROVE  ExecInv'
  BY <1>2 DEF ExecInv, ExecKeeps, WakersAfter
<1>3. ASSUME NEW t \in Tasks, PollCall(t) \/ TimeoutCall(t)
      PROVE  ExecInv' /\ ExecKeeps
  BY <1>2, <1>3, StutterKeeps DEF PollCall, TimeoutCall
<1>4. ASSUME NEW t \in Tasks, PendingCall(t)
      PROVE  ExecInv' /\ ExecKeeps
  BY <1>2, <1>4, EndOfPollKeeps DEF PendingCall
<1>5. ASSUME NEW t \in Tasks, ReportSelect(t) \/ \E c : Call(t, c)
      PROVE  ExecInv' /\ ExecKeeps
  BY <1>1, <1>5, StutterKeeps DEF ReportSelect, Call, pipe
<1>6. ASSUME NEW t \in Tasks, Yield(t) \/ Exit(t)
      PROVE  ExecInv' /\ ExecKeeps
  BY <1>1, <1>6, EndOfPollKeeps DEF Yield, Exit, pipe
<1>7. ASSUME NEW t \in Tasks, Start(t)
      PROVE  ExecInv' /\ ExecKeeps
  BY <1>1, <1>7, SpawnKeeps DEF Start, pipe
<1>8. ASSUME NEW t \in Tasks, SendSignal(t) \/ TimerTick(t)
      PROVE  ExecInv' /\ ExecKeeps
  BY <1>1, <1>8, WakeKeeps, StutterKeeps DEF SendSignal, Notify, TimerTick, pipe
<1>9. CASE Poll
  BY <1>1, <1>9, FetchKeeps DEF Poll, pipe
<1> QED BY <1>3, <1>4, <1>5, <1>6, <1>7, <1>8, <1>9, TransferKeeps, CloseEndKeeps, ZenonT(30)
        DEF Next, RunTask, BeginIO, BeginSelect

\* Every step keeps what poll_ready found true until the transfer.
LEMMA ReadyInvStep ==
    ASSUME CallInv, ExecInv, ReadyInv, [Next]_vars
    PROVE  ReadyInv'
<1>1. ASSUME NEW t \in Tasks, running = t, NEW s \in States \ {"ready"}, st' = [st EXCEPT ![t] = s]
      PROVE  ReadyInv'
  <2>1. NobodyReady'
    BY <1>1, OnlyRunningReady DEF CallInv, NobodyReady
  <2> QED BY <2>1, QuietReady
<1>2. ASSUME NEW t \in Tasks, PendingCall(t) \/ TimeoutCall(t) \/ ReportSelect(t) \/ PollRead(t)
                              \/ PollWrite(t) \/ Exit(t) \/ \E c : Call(t, c)
      PROVE  ReadyInv'
  <2>1. running = t
    BY <1>2, ZenonT(30) DEF PendingCall, TimeoutCall, ReportSelect, PollRead, PollWrite, Exit, Call
  <2>2. \E s \in {"idle", "wait", "done"} : st' = [st EXCEPT ![t] = s]
    <3>1. PendingCall(t) => st' = [st EXCEPT ![t] = "wait"]
      BY DEF PendingCall, CallInv
    <3> QED BY <1>2, <3>1, ZenonT(30)
            DEF TimeoutCall, ReportSelect, PollRead, PollWrite, Exit, Call, Return
  <2> QED BY <1>1, <2>1, <2>2, ZenonT(30) DEF States
<1>3. ASSUME NEW t \in Tasks, running = t, st[t] = "idle", UNCHANGED st
      PROVE  ReadyInv'
  <2>1. NobodyReady'
    BY <1>3, OnlyRunningReady DEF NobodyReady
  <2> QED BY <2>1, QuietReady
<1>4. ASSUME NEW t \in Tasks, Yield(t) \/ \E e \in Ends : CloseEnd(t, e)
      PROVE  ReadyInv'
  BY <1>3, <1>4 DEF Yield, CloseEnd, proc
<1>5. ASSUME NEW t \in Tasks, Start(t)
      PROVE  ReadyInv'
  <2>1. UNCHANGED <<running, fut, buf, is_closed>> /\ st' = [st EXCEPT ![t] = "idle"]
    BY <1>5 DEF Start, Spawn, pipe
  <2>2. \A u \in Tasks : st'[u] = "ready" => st[u] = "ready"
    BY <2>1 DEF CallInv
  <2> QED BY <2>1, <2>2 DEF ReadyInv, LeftOk, LeftReady, ReadReady, WriteReady
<1>6. ASSUME NEW t \in Tasks, SendSignal(t) \/ TimerTick(t)
      PROVE  ReadyInv'
  BY <1>6, QuietReady DEF SendSignal, Notify, TimerTick, Wake, pipe, proc, execVars
<1>7. CASE Poll
  <2>1. NobodyReady'
    BY <1>7, NoTaskIsNone DEF Poll, Fetch, proc, ReadyInv, NobodyReady
  <2> QED BY <2>1, QuietReady
<1>8. CASE UNCHANGED vars
  BY <1>8, QuietReady DEF vars, pipe, proc, execVars
<1> QED BY <1>2, <1>4, <1>5, <1>6, <1>7, <1>8, PollCallReady, ZenonT(30)
        DEF Next, RunTask, BeginIO, BeginSelect

-------------------------------------------------------------------------------
(* The bytes. *)

\* The bytes in the pipe are those between the last that was read and the last
\* that was written, in order, and there is room for them.
DataInv ==
    /\ buf \in [Pipes -> Seq(Nat)]
    /\ is_closed \in [Pipes -> BOOLEAN]
    /\ sent \in [Pipes -> Nat]
    /\ received \in [Pipes -> Seq(Nat)]
    /\ \A p \in Pipes :
        /\ Len(buf[p]) <= Capacity
        /\ sent[p] = Len(received[p]) + Len(buf[p])
        /\ \A i \in 1..Len(buf[p]) : buf[p][i] = Len(received[p]) + i

\* What poll_ready finds about the end of a transfer.
LEMMA TransferRoom ==
    ASSUME DataInv, NEW e \in Ends, LeftOk(e)
    PROVE  /\ e[1] \in Pipes
           /\ e[2] = "r" => Len(buf[e[1]]) > 0
           /\ e[2] # "r" => ~is_closed[e[1]] /\ Len(buf[e[1]]) < Capacity
<1>1. e[1] \in Pipes
  BY DEF Ends
<1>2. buf[e[1]] # <<>> => Len(buf[e[1]]) > 0
  BY <1>1, EmptySeq, LenProperties DEF DataInv
<1> QED BY <1>1, <1>2 DEF LeftOk, LeftReady, WriteReady

\* A run of n numbers that follow k.
LEMMA Run ==
    ASSUME NEW k \in Nat, NEW n \in Nat
    PROVE  /\ [i \in 1..n |-> k + i] \in Seq(Nat)
           /\ Len([i \in 1..n |-> k + i]) = n
<1>1. [i \in 1..n |-> k + i] \in [1..n -> Nat]
  OBVIOUS
<1> QED BY <1>1, FunIsSeq

\* poll_read takes the first n bytes.
LEMMA ReadBytes ==
    ASSUME NEW b \in Seq(Nat), NEW r \in Seq(Nat), NEW n \in Nat, n <= Len(b),
           \A i \in 1..Len(b) : b[i] = Len(r) + i
    PROVE  LET left == SubSeq(b, n + 1, Len(b))
               got == SubSeq(b, 1, n)
           IN /\ left \in Seq(Nat) /\ Len(left) = Len(b) - n
              /\ \A i \in 1..Len(left) : left[i] = Len(r) + n + i
              /\ got = [i \in 1..n |-> Len(r) + i]
              /\ r \o got \in Seq(Nat) /\ Len(r \o got) = Len(r) + n
<1> DEFINE left == SubSeq(b, n + 1, Len(b))
           got == SubSeq(b, 1, n)
           run == [i \in 1..n |-> Len(r) + i]
<1>1. Len(b) \in Nat /\ Len(r) \in Nat /\ \A i \in 1..Len(b) : b[i] \in Nat
  BY LenProperties, ElementOfSeq
<1>2. /\ left \in Seq(Nat) /\ Len(left) = Len(b) - n
      /\ \A i \in 1..(Len(b) - n) : left[i] = b[n + i]
  <2>1. n + 1 \in Int /\ Len(b) \in Int /\ \A i \in (n + 1)..Len(b) : b[i] \in Nat
    BY <1>1
  <2>2. /\ left \in Seq(Nat)
        /\ Len(left) = IF n + 1 <= Len(b) THEN Len(b) - (n + 1) + 1 ELSE 0
        /\ \A i \in 1..(Len(b) - (n + 1) + 1) : left[i] = b[(n + 1) + i - 1]
    BY <2>1, SubSeqProperties
  <2>3. \A i \in 1..(Len(b) - n) : i \in 1..(Len(b) - (n + 1) + 1) /\ (n + 1) + i - 1 = n + i
    BY <1>1
  <2> HIDE DEF left
  <2> QED BY <1>1, <2>2, <2>3
<1>3. /\ got \in Seq(Nat) /\ Len(got) = n
      /\ \A i \in 1..n : got[i] = b[i]
  <2>1. 1 \in Int /\ n \in Int /\ \A i \in 1..n : b[i] \in Nat
    BY <1>1
  <2>2. /\ got \in Seq(Nat)
        /\ Len(got) = IF 1 <= n THEN n - 1 + 1 ELSE 0
        /\ \A i \in 1..(n - 1 + 1) : got[i] = b[1 + i - 1]
    BY <2>1, SubSeqProperties
  <2>3. \A i \in 1..n : i \in 1..(n - 1 + 1) /\ 1 + i - 1 = i
    OBVIOUS
  <2> HIDE DEF got
  <2> QED BY <2>2, <2>3
<1>4. \A i \in 1..n : got[i] = Len(r) + i
  BY <1>1, <1>3
<1>5. got = run
  <2>1. run \in Seq(Nat) /\ Len(run) = n
    BY <1>1, Run
  <2>2. \A i \in 1..n : run[i] = Len(r) + i
    OBVIOUS
  <2> HIDE DEF got, run
  <2>3. Len(got) = Len(run) /\ \A i \in 1..Len(got) : got[i] = run[i]
    BY <1>3, <1>4, <2>1, <2>2
  <2> QED BY <1>3, <2>1, <2>3, SeqEqual
<1>6. \A i \in 1..Len(left) : left[i] = Len(r) + n + i
  <2> HIDE DEF left
  <2> QED BY <1>1, <1>2
<1>7. r \o got \in Seq(Nat) /\ Len(r \o got) = Len(r) + n
  <2> HIDE DEF got
  <2> QED BY <1>3, ConcatProperties, ZenonT(30)
<1> QED BY <1>2, <1>5, <1>6, <1>7

\* poll_write appends bytes for which there is room.
LEMMA WriteBytes ==
    ASSUME NEW b \in Seq(Nat), NEW run \in Seq(Nat), NEW r \in Nat,
           Len(b) + Len(run) <= Capacity,
           \A i \in 1..Len(b) : b[i] = r + i,
           \A i \in 1..Len(run) : run[i] = r + Len(b) + i
    PROVE  /\ RingPush(b, run) \in Seq(Nat)
           /\ Len(RingPush(b, run)) = Len(b) + Len(run)
           /\ \A i \in 1..(Len(b) + Len(run)) : RingPush(b, run)[i] = r + i
<1> DEFINE c == b \o run
<1>1. /\ c \in Seq(Nat) /\ Len(c) = Len(b) + Len(run)
      /\ \A i \in 1..(Len(b) + Len(run)) : c[i] = IF i <= Len(b) THEN b[i] ELSE run[i - Len(b)]
  BY ConcatProperties
<1>2. Len(b) \in Nat /\ Len(run) \in Nat
  BY LenProperties
<1>3. \A i \in 1..Len(c) : c[i] = r + i
  <2> HIDE DEF c
  <2>1. SUFFICES ASSUME NEW i \in 1..Len(c) PROVE c[i] = r + i
    OBVIOUS
  <2>2. CASE i <= Len(b)
    <3>1. i \in 1..Len(b) /\ c[i] = b[i]
      BY <1>1, <1>2, <2>2
    <3> QED BY <3>1
  <2>3. CASE ~(i <= Len(b))
    <3>1. i - Len(b) \in 1..Len(run)
      BY <1>1, <1>2, <2>3
    <3>2. c[i] = r + Len(b) + (i - Len(b))
      BY <1>1, <2>3, <3>1, ZenonT(30)
    <3> QED BY <1>1, <1>2, <3>2
  <2> QED BY <2>2, <2>3
<1>4. RingPush(b, run) = c
  BY <1>1 DEF RingPush
<1> QED BY <1>1, <1>3, <1>4

\* The steps that touch neither bytes nor the closed flag.
LEMMA QuietData ==
    ASSUME NEW t \in Tasks,
           \/ Start(t) \/ SendSignal(t) \/ TimerTick(t) \/ PollCall(t) \/ PendingCall(t)
           \/ TimeoutCall(t) \/ ReportSelect(t) \/ Yield(t) \/ Exit(t) \/ \E c : Call(t, c)
    PROVE  UNCHANGED <<buf, is_closed, sent, received>>
BY DEF Start, SendSignal, TimerTick, PollCall, PendingCall, TimeoutCall, ReportSelect,
       Yield, Exit, Call, pipe

\* A read takes the oldest bytes of the buffer: a receive of the channel, or nothing.
LEMMA PollReadData ==
    ASSUME CallInv, ReadyInv, DataInv, NEW t \in Tasks, PollRead(t)
    PROVE  DataInv' /\ [Channel!Next]_(Channel!chanVars)
<1>1. PICK e \in Ends : fut[t].ends[1] = e /\ LeftOk(e)
  BY TransferEnd
<1>2. PICK p \in Pipes : p = e[1]
  BY DEF Ends
<1> DEFINE b == buf[p]
           r == received[p]
           n == AtMost(Len(b), fut[t].len)
           left == SubSeq(b, n + 1, Len(b))
           got == SubSeq(b, 1, n)
           run == [i \in 1..n |-> Len(r) + i]
<1>3. /\ buf' = [buf EXCEPT ![p] = left]
      /\ received' = [received EXCEPT ![p] = r \o got]
      /\ UNCHANGED <<is_closed, sent>>
  BY <1>1, <1>2 DEF PollRead
<1>4. /\ b \in Seq(Nat) /\ r \in Seq(Nat) /\ Len(b) \in Nat /\ Len(r) \in Nat
      /\ \A i \in 1..Len(b) : b[i] = Len(r) + i
      /\ sent[p] = Len(r) + Len(b) /\ Len(b) <= Capacity
  BY LenProperties DEF DataInv
<1>5. n \in Nat /\ n <= Len(b)
  BY <1>4 DEF AtMost, CallInv, CallType
<1> HIDE DEF n, b, r
<1>6. /\ left \in Seq(Nat) /\ Len(left) = Len(b) - n
      /\ \A i \in 1..Len(left) : left[i] = Len(r) + n + i
      /\ got = run
      /\ r \o got \in Seq(Nat) /\ Len(r \o got) = Len(r) + n
  BY <1>4, <1>5, ReadBytes, ZenonT(30)
<1>7. DataInv'
  <2> HIDE DEF left, got
  <2>1. /\ buf'[p] = left /\ received'[p] = r \o got
        /\ \A q \in Pipes \ {p} : buf'[q] = buf[q] /\ received'[q] = received[q]
    BY <1>3 DEF DataInv
  <2>2. buf' \in [Pipes -> Seq(Nat)] /\ received' \in [Pipes -> Seq(Nat)]
    BY <1>3, <1>6 DEF DataInv
  <2>3. /\ Len(left) <= Capacity
        /\ sent[p] = Len(r \o got) + Len(left)
        /\ \A i \in 1..Len(left) : left[i] = Len(r \o got) + i
    BY <1>4, <1>5, <1>6, PipeBounds
  <2> QED BY <1>3, <2>1, <2>2, <2>3 DEF DataInv
<1>8. CASE n = 0
  <2>1. got = <<>>
    BY <1>8, SubSeqEmpty
  <2>2. r \o got = r
    BY <1>4, <2>1, ConcatEmptySeq, ZenonT(30)
  <2>3. received' = received
    BY <1>3, <2>2, ZenonT(30) DEF DataInv, r
  <2> QED BY <1>3, <1>7, <2>3, ZenonT(30) DEF Channel!chanVars
<1>9. CASE n # 0
  <2>1. n \in 1..Capacity
    BY <1>4, <1>5, <1>9, PipeBounds
  <2>2. Channel!Receive(p, n)
    <3>1. n <= Channel!InFlight(p)
      BY <1>4, <1>5 DEF Channel!InFlight, r
    <3>2. received' = [received EXCEPT ![p] = received[p] \o [i \in 1..n |-> Len(received[p]) + i]]
      BY <1>3, <1>6, ZenonT(30) DEF r
    <3> QED BY <1>3, <3>1, <3>2, ZenonT(30) DEF Channel!Receive
  <2>3. Channel!Next
    BY <2>1, <2>2 DEF Channel!Next
  <2> QED BY <1>7, <2>3
<1> QED BY <1>8, <1>9

\* A write puts the next bytes into the buffer: a send of the channel, or
\* nothing.
LEMMA PollWriteData ==
    ASSUME CallInv, ReadyInv, DataInv, NEW t \in Tasks, PollWrite(t)
    PROVE  DataInv' /\ [Channel!Next]_(Channel!chanVars)
<1>1. PICK e \in Ends : fut[t].ends[1] = e /\ LeftOk(e)
  BY TransferEnd
<1>2. PICK p \in Pipes : p = e[1]
  BY DEF Ends
<1> DEFINE b == buf[p]
           r == Len(received[p])
           k == sent[p]
           n == AtMost(Capacity - Len(b), fut[t].len)
           run == [i \in 1..n |-> k + i]
           c == RingPush(b, run)
<1>3. /\ buf' = [buf EXCEPT ![p] = c]
      /\ sent' = [sent EXCEPT ![p] = k + n]
      /\ UNCHANGED <<is_closed, received>>
  BY <1>1, <1>2 DEF PollWrite
<1>4. /\ b \in Seq(Nat) /\ r \in Nat /\ k \in Nat /\ Len(b) \in Nat
      /\ \A i \in 1..Len(b) : b[i] = r + i
      /\ k = r + Len(b)
  BY LenProperties DEF DataInv
<1>5. ~is_closed[p] /\ Len(b) < Capacity
  <2>1. e[2] # "r"
    BY <1>1 DEF PollWrite
  <2> QED BY <1>1, <1>2, <2>1, TransferRoom
<1>6. n \in Nat /\ Len(b) + n <= Capacity
  <2>1. fut[t].len \in Nat /\ Capacity - Len(b) \in Nat
    BY <1>4, <1>5, PipeBounds DEF CallInv, CallType
  <2>2. \A x, y \in Nat : AtMost(x, y) \in Nat /\ AtMost(x, y) <= x
    BY DEF AtMost
  <2>3. n \in Nat /\ n <= Capacity - Len(b)
    BY <2>1, <2>2, ZenonT(30)
  <2> HIDE DEF n
  <2> QED BY <1>4, <2>3, PipeBounds
<1> HIDE DEF n, b, r, k
<1>7. /\ c \in Seq(Nat) /\ Len(c) = Len(b) + n
      /\ \A i \in 1..Len(c) : c[i] = r + i
  <2>1. run \in Seq(Nat) /\ Len(run) = n /\ \A i \in 1..n : run[i] = k + i
    BY <1>4, <1>6, Run
  <2> HIDE DEF run
  <2>2. Len(b) + Len(run) <= Capacity /\ \A i \in 1..Len(run) : run[i] = r + Len(b) + i
    BY <1>4, <1>6, <2>1
  <2>3. /\ RingPush(b, run) \in Seq(Nat)
        /\ Len(RingPush(b, run)) = Len(b) + Len(run)
        /\ \A i \in 1..(Len(b) + Len(run)) : RingPush(b, run)[i] = r + i
    BY <1>4, <2>1, <2>2, WriteBytes, ZenonT(30)
  <2> QED BY <2>1, <2>3
<1>8. DataInv'
  <2> HIDE DEF c
  <2>1. /\ buf'[p] = c /\ sent'[p] = k + n /\ k + n = r + Len(c) /\ k + n \in Nat
        /\ \A q \in Pipes \ {p} : buf'[q] = buf[q] /\ sent'[q] = sent[q]
    BY <1>3, <1>4, <1>6, <1>7 DEF DataInv
  <2>2. buf' \in [Pipes -> Seq(Nat)] /\ sent' \in [Pipes -> Nat]
    BY <1>3, <1>7, <2>1 DEF DataInv
  <2> QED BY <1>3, <1>6, <1>7, <2>1, <2>2, ZenonT(30) DEF DataInv, r
<1>9. CASE n = 0
  <2>1. k + n = sent[p]
    BY <1>4, <1>9 DEF k
  <2>2. sent' = sent
    BY <1>3, <2>1 DEF DataInv
  <2> QED BY <1>3, <1>8, <2>2 DEF Channel!chanVars
<1>10. CASE n # 0
  <2>1. n \in 1..Capacity
    BY <1>4, <1>6, <1>10, PipeBounds
  <2>2. Channel!Send(p, n)
    <3>1. Channel!InFlight(p) + n <= Capacity
      BY <1>4, <1>6 DEF Channel!InFlight, r, k
    <3> QED BY <1>3, <1>5, <3>1 DEF Channel!Send, k
  <2>3. Channel!Next
    BY <2>1, <2>2 DEF Channel!Next
  <2> QED BY <1>8, <2>3
<1> QED BY <1>9, <1>10

\* Closing an end leaves the bytes alone: a close of the channel, or nothing.
LEMMA CloseEndData ==
    ASSUME DataInv, NEW t \in Tasks, NEW e \in Ends, CloseEnd(t, e)
    PROVE  DataInv' /\ [Channel!Next]_(Channel!chanVars)
<1>1. UNCHANGED <<buf, sent, received>>
  BY DEF CloseEnd
<1>2. CASE UNCHANGED is_closed
  BY <1>1, <1>2 DEF DataInv, Channel!chanVars
<1>3. CASE is_closed' = [is_closed EXCEPT ![e[1]] = TRUE]
  <2>1. e[1] \in Pipes
    BY DEF Ends
  <2>2. Channel!Close(e[1])
    BY <1>1, <1>3 DEF Channel!Close
  <2>3. DataInv'
    BY <1>1, <1>3, <2>1, SMTT(30) DEF DataInv
  <2> QED BY <2>1, <2>2, <2>3 DEF Channel!Next
<1> QED BY <1>2, <1>3 DEF CloseEnd, DropEnd

\* Every step of the pipes keeps the bytes in order and is one of the channel.
LEMMA DataInvStep ==
    ASSUME CallInv, ReadyInv, DataInv, [Next]_vars
    PROVE  DataInv' /\ [Channel!Next]_(Channel!chanVars)
<1>1. ASSUME UNCHANGED <<buf, is_closed, sent, received>>
      PROVE  DataInv' /\ [Channel!Next]_(Channel!chanVars)
  BY <1>1 DEF DataInv, Channel!chanVars
<1>2. ASSUME Poll \/ UNCHANGED vars
      PROVE  UNCHANGED <<buf, is_closed, sent, received>>
  BY <1>2 DEF Poll, vars, pipe
<1> QED BY <1>1, <1>2, QuietData, PollReadData, PollWriteData, CloseEndData, ZenonT(30)
        DEF Next, RunTask, BeginIO, BeginSelect

-------------------------------------------------------------------------------
(* What the pipes promise. *)

\* The inductive invariant.
PipeInv == CallInv /\ ExecInv /\ ReadyInv /\ DataInv

\* The invariant of the pipes holds in every state.
LEMMA PipeInvHolds == Spec => []PipeInv
<1>1. Init => PipeInv
  <2> SUFFICES ASSUME Init PROVE PipeInv
    OBVIOUS
  <2>1. ExecInv
    BY DEF Init, ExecInit, ExecInv
  <2>2. ReadyInv
    BY DEF Init, ReadyInv
  <2>3. DataInv
    <3>1. <<>> \in Seq(Nat) /\ Len(<<>>) = 0
      OBVIOUS
    <3> QED BY <3>1, PipeBounds DEF Init, DataInv
  <2> QED BY <2>1, <2>2, <2>3, CallInvInit DEF PipeInv
<1>2. PipeInv /\ [Next]_vars => PipeInv'
  <2> SUFFICES ASSUME PipeInv, [Next]_vars PROVE PipeInv'
    OBVIOUS
  <2>1. ExecInv'
    <3>1. UNCHANGED vars => UNCHANGED <<execVars, waker>>
      BY DEF vars, pipe
    <3>2. UNCHANGED <<execVars, waker>> => ExecInv'
      BY DEF PipeInv, ExecInv, execVars
    <3> QED BY <3>1, <3>2, ExecInvStep DEF PipeInv
  <2> QED BY <2>1, CallInvStep, ReadyInvStep, DataInvStep DEF PipeInv
<1> QED BY <1>1, <1>2, PTL DEF Spec

\* The assertions of poll_read and poll_write hold (npipe.rs 160 and 258): what
\* poll_ready has seen is still there, because nobody else runs in between.
THEOREM TransferHasRoomHolds == Spec => []TransferHasRoom
<1>1. PipeInv => TransferHasRoom
  <2> SUFFICES ASSUME PipeInv, NEW t \in Tasks, st[t] = "ready"
               PROVE  LET e == fut[t].ends[1] IN
                        IF e[2] = "r" THEN Len(buf[e[1]]) > 0 ELSE Len(buf[e[1]]) < Capacity
    BY DEF TransferHasRoom
  <2>1. PICK e \in Ends : fut[t].ends = <<e>> /\ LeftOk(e)
    BY DEF PipeInv, ReadyInv
  <2>2. fut[t].ends[1] = e
    BY <2>1
  <2> QED BY <2>1, <2>2, TransferRoom DEF PipeInv
<1> QED BY <1>1, PipeInvHolds, PTL

\* A pipe is a bounded FIFO channel, whatever its processes do with its ends:
\* no byte is lost, duplicated, reordered or written to a closed pipe.
THEOREM IsChannelHolds == Spec => IsChannel
<1>1. Init => Channel!Init
  BY DEF Init, Channel!Init
<1>2. PipeInv /\ [Next]_vars => [Channel!Next]_(Channel!chanVars)
  BY DataInvStep DEF PipeInv
<1> QED BY <1>1, <1>2, PipeInvHolds, PTL DEF Spec, IsChannel, Channel!Spec

-------------------------------------------------------------------------------
(* Nobody sleeps on an end that is ready. *)

\* Each end of a pipe was given to one process at most.
OneProcessPerEnd ==
    \A p \in Pipes : /\ \A t, u \in ReadersOf[p] : t = u
                     /\ \A t, u \in WritersOf[p] : t = u

\* The process in a call has the call's ends, alone, and has not ended.
HoldInv ==
    /\ holders \in [Ends -> SUBSET Tasks]
    /\ \A e \in Ends : \A t, u \in holders[e] : t = u
    /\ \A t \in Tasks : st[t] \in {"wait", "ready"} =>
        \A i \in 1..Len(fut[t].ends) : t \in holders[fut[t].ends[i]]
    /\ \A t \in Tasks : st[t] \notin {"new", "done"} => t \in live

\* Steps that change the call of one process and no holder.
LEMMA HoldStep ==
    ASSUME CallInv, HoldInv, NEW t \in Tasks, UNCHANGED <<holders, live>>,
           NEW s \in States \ {"new"}, NEW c \in CallType,
           st' = [st EXCEPT ![t] = s], fut' = [fut EXCEPT ![t] = c],
           s # "done" => t \in live,
           s \in {"wait", "ready"} => \A i \in 1..Len(c.ends) : t \in holders[c.ends[i]]
    PROVE  HoldInv'
BY DEF CallInv, HoldInv

\* A step that leaves holders and calls alone keeps the invariant of the
\* holders.
LEMMA QuietHold ==
    ASSUME HoldInv, UNCHANGED <<holders, live, st, fut>>
    PROVE  HoldInv'
BY DEF HoldInv

\* A poll makes nobody wait for an end that its call does not name.
LEMMA PollCallHold ==
    ASSUME CallInv, HoldInv, NEW t \in Tasks, PollCall(t)
    PROVE  HoldInv'
<1>1. PICK i \in 1..Len(fut[t].ends) :
        LET e == fut[t].ends[i] IN
            /\ st' = [st EXCEPT ![t] = IF fut[t].kind = "select" THEN "report"
                                       ELSE IF LeftOk(e) THEN "ready" ELSE "idle"]
            /\ fut' = [fut EXCEPT ![t] = IF fut[t].kind = "select" \/ LeftOk(e)
                                         THEN [@ EXCEPT !.ends = <<e>>] ELSE NoCall]
  BY ZenonT(30) DEF PollCall
<1>2. PICK e \in Ends : e = fut[t].ends[i]
  BY ElementOfSeq DEF CallInv, CallType
<1>3. st[t] = "wait" /\ UNCHANGED <<holders, live>>
  BY DEF PollCall, execVars
<1>4. t \in live /\ t \in holders[e]
  BY <1>2, <1>3 DEF HoldInv
<1>5. fut[t] \in CallType
  BY DEF CallInv
<1>6. CASE fut[t].kind = "select" \/ LeftOk(e)
  <2>1. PICK c \in CallType : c = [fut[t] EXCEPT !.ends = <<e>>] /\ c.ends = <<e>>
    BY <1>5, OneEnd, ZenonT(30)
  <2>2. \A j \in 1..Len(c.ends) : t \in holders[c.ends[j]]
    BY <1>4, <2>1
  <2>3. PICK s \in {"report", "ready"} : st' = [st EXCEPT ![t] = s]
    <3>1. CASE fut[t].kind = "select"
      BY <1>1, <3>1
    <3>2. CASE fut[t].kind # "select"
      BY <1>1, <1>2, <1>6, <3>2, ZenonT(30)
    <3> QED BY <3>1, <3>2
  <2>4. fut' = [fut EXCEPT ![t] = c]
    BY <1>1, <1>2, <1>6, <2>1, ZenonT(30)
  <2> QED BY <1>3, <1>4, <2>2, <2>3, <2>4, HoldStep, ZenonT(30) DEF States
<1>7. CASE ~(fut[t].kind = "select" \/ LeftOk(e))
  <2>1. st' = [st EXCEPT ![t] = "idle"] /\ fut' = [fut EXCEPT ![t] = NoCall]
    BY <1>1, <1>2, <1>7, ZenonT(30)
  <2> QED BY <1>3, <1>4, <2>1, CallTypes, HoldStep, ZenonT(30) DEF States
<1> QED BY <1>6, <1>7

\* A call names ends that its process holds.
LEMMA BeginHold ==
    ASSUME CallInv, HoldInv, NEW t \in Tasks, NEW c \in CallType, Call(t, c),
           \A i \in 1..Len(c.ends) : c.ends[i] \in EndsOf(t)
    PROVE  HoldInv'
<1>1. t \in live
  BY DEF Call, HoldInv
<1>2. UNCHANGED <<holders, live>> /\ st' = [st EXCEPT ![t] = "wait"] /\ fut' = [fut EXCEPT ![t] = c]
  BY DEF Call, pipe, execVars
<1> QED BY <1>1, <1>2, HoldStep, ZenonT(30) DEF EndsOf, States

\* Who closes an end is not waiting for it.
LEMMA CloseEndHold ==
    ASSUME CallInv, HoldInv, NEW t \in Tasks, NEW e \in Ends, CloseEnd(t, e)
    PROVE  HoldInv'
<1>1. /\ st[t] = "idle" /\ UNCHANGED <<st, fut>>
      /\ holders' = [holders EXCEPT ![e] = @ \ {t}]
  BY DEF CloseEnd, proc
<1>2. live' = live
  BY DEF CloseEnd, DropEnd, TakeWaker, execVars
<1>3. ASSUME NEW u \in Tasks, st[u] \in {"wait", "ready"}, NEW i \in 1..Len(fut[u].ends)
      PROVE  u \in holders'[fut[u].ends[i]]
  <2>1. u # t /\ fut[u].ends[i] \in Ends
    BY <1>1, <1>3, ElementOfSeq DEF CallInv, CallType
  <2> QED BY <1>1, <1>3, <2>1 DEF HoldInv
<1>4. holders' \in [Ends -> SUBSET Tasks] /\ \A d \in Ends : holders'[d] \subseteq holders[d]
  BY <1>1 DEF HoldInv
<1> QED BY <1>1, <1>2, <1>3, <1>4 DEF HoldInv

\* Every step keeps each end with one holder, who alone waits for it.
LEMMA HoldInvStep ==
    ASSUME CallInv, HoldInv, [Next]_vars
    PROVE  HoldInv'
<1>1. ASSUME NEW t \in Tasks, TimeoutCall(t) \/ ReportSelect(t) \/ PollRead(t) \/ PollWrite(t)
      PROVE  HoldInv'
  <2>1. Return(t) /\ st[t] \notin {"new", "done"} /\ UNCHANGED holders
    BY <1>1, ZenonT(30) DEF TimeoutCall, ReportSelect, PollRead, PollWrite, pipe
  <2>2. UNCHANGED live
    BY <1>1, ZenonT(30) DEF TimeoutCall, ReportSelect, PollRead, PollWrite, TakeWaker, execVars
  <2>3. t \in live
    BY <2>1 DEF HoldInv
  <2> QED BY <2>1, <2>2, <2>3, CallTypes, HoldStep, ZenonT(30) DEF Return, States
<1>2. ASSUME NEW t \in Tasks, PendingCall(t) \/ Yield(t) \/ SendSignal(t) \/ TimerTick(t)
      PROVE  HoldInv'
  BY <1>2, QuietHold DEF PendingCall, Suspend, Yield, YieldNow, SendSignal, Notify, TimerTick,
                         Wake, pipe, proc, execVars
<1>3. ASSUME NEW t \in Tasks, NEW e \in Ends, NEW n \in IOLens, BeginIO(t, e, n)
      PROVE  HoldInv'
  <2>1. [kind |-> "io", ends |-> <<e>>, len |-> n] \in CallType
    BY CallTypes, PipeBounds
  <2>2. PICK c \in CallType : c = [kind |-> "io", ends |-> <<e>>, len |-> n]
    BY <2>1
  <2>3. c.ends = <<e>>
    BY <2>2
  <2>4. \A i \in 1..Len(c.ends) : c.ends[i] \in EndsOf(t)
    BY <1>3, <2>3 DEF BeginIO
  <2> QED BY <1>3, <2>2, <2>4, BeginHold DEF BeginIO
<1>4. ASSUME NEW t \in Tasks, NEW es \in SelectLists, BeginSelect(t, es)
      PROVE  HoldInv'
  <2>1. [kind |-> "select", ends |-> es, len |-> 0] \in CallType
    BY CallTypes
  <2>2. PICK c \in CallType : c = [kind |-> "select", ends |-> es, len |-> 0]
    BY <2>1
  <2> QED BY <1>4, <2>2, BeginHold DEF BeginSelect
<1>5. ASSUME NEW t \in Tasks, Start(t)
      PROVE  HoldInv'
  BY <1>5 DEF HoldInv, CallInv, Start, Spawn, pipe
<1>6. ASSUME NEW t \in Tasks, Exit(t)
      PROVE  HoldInv'
  BY <1>6 DEF HoldInv, CallInv, Exit, Complete, pipe
<1>7. CASE Poll \/ UNCHANGED vars
  BY <1>7, QuietHold DEF Poll, Fetch, vars, pipe, proc, execVars
<1> QED BY <1>1, <1>2, <1>3, <1>4, <1>5, <1>6, <1>7, PollCallHold, CloseEndHold
        DEF Next, RunTask

\* The process t sleeps and awaits, among others, the end e.
Awaits(t, e) == \E i \in 1..Len(fut[t].ends) : fut[t].ends[i] = e
Asleep(t) == st[t] = "wait" /\ ~Scheduled(t)

\* The ends for which a process sleeps are not ready and keep its waker.
SleepInv ==
    \A t \in Tasks, e \in Ends :
        Asleep(t) /\ Awaits(t, e) => waker[e] = t /\ ~LeftReady(e)

\* A step after which only those sleep who slept already, and which leaves
\* their ends alone.
LEMMA SleepFrame ==
    ASSUME SleepInv, ExecKeeps,
           \A u \in Tasks : st'[u] = "wait" /\ ~Scheduled(u)' =>
                u # running /\ st[u] = "wait" /\ fut'[u] = fut[u],
           \A u \in Tasks, e \in Ends : Asleep(u) /\ ~Scheduled(u)' /\ Awaits(u, e) =>
                waker'[e] = waker[e] /\ (LeftReady(e)' => LeftReady(e))
    PROVE  SleepInv'
<1> SUFFICES ASSUME NEW u \in Tasks, NEW e \in Ends, st'[u] = "wait", ~Scheduled(u)',
                    NEW i \in 1..Len(fut'[u].ends), fut'[u].ends[i] = e
             PROVE  waker'[e] = u /\ ~LeftReady(e)'
  BY DEF SleepInv, Asleep, Awaits
<1>1. u # running /\ st[u] = "wait" /\ fut'[u] = fut[u]
  OBVIOUS
<1>2. Asleep(u) /\ Awaits(u, e)
  BY <1>1 DEF ExecKeeps, Asleep, Awaits
<1> QED BY <1>2 DEF SleepInv

\* Who waits for an end is its only holder.
LEMMA AwaitsHeld ==
    ASSUME HoldInv, NEW t \in Tasks, NEW e \in Ends, st[t] \in {"wait", "ready"}, Awaits(t, e)
    PROVE  t \in holders[e] /\ \A u \in holders[e] : u = t
BY DEF HoldInv, Awaits

\* An end that is neither d nor its peer belongs to another pipe.
LEMMA EndsOfPipe ==
    ASSUME NEW d \in Ends, NEW e \in Ends, e # d, e # Peer(d)
    PROVE  e[1] # d[1]
BY DEF Ends, Peer

\* The wakers that a poll of the call leaves behind.
LEMMA WakersAfterKeeps ==
    ASSUME ExecInv, CallInv, HoldInv, NEW t \in Tasks, st[t] = "wait",
           NEW i \in 0..Len(fut[t].ends), NEW u \in Tasks, NEW e \in Ends, u # t,
           st[u] = "wait", Awaits(u, e)
    PROVE  WakersAfter(t, i)[e] = waker[e]
<1>1. u \in holders[e] /\ t \notin holders[e]
  BY AwaitsHeld
<1>2. Len(fut[t].ends) \in Nat
  BY LenProperties DEF CallInv, CallType
<1>3. ASSUME NEW j \in 1..i, fut[t].ends[j] = e
      PROVE  FALSE
  <2>1. Awaits(t, e)
    BY <1>2, <1>3 DEF Awaits
  <2> QED BY <1>1, <2>1, AwaitsHeld
<1> QED BY <1>3 DEF WakersAfter

\* A call ends: its process goes on, the others are not disturbed.
LEMMA EndCallSleep ==
    ASSUME ExecInv, CallInv, HoldInv, SleepInv, NEW t \in Tasks, PollCall(t) \/ TimeoutCall(t)
    PROVE  SleepInv'
<1>1. PICK i \in 0..Len(fut[t].ends) : waker' = WakersAfter(t, i)
  <2>1. Len(fut[t].ends) \in Nat
    BY LenProperties DEF CallInv, CallType
  <2> QED BY <2>1 DEF PollCall, TimeoutCall
<1>2. running = t /\ st[t] = "wait" /\ UNCHANGED <<execVars, buf, is_closed>>
  BY DEF PollCall, TimeoutCall
<1>3. /\ \E s : st' = [st EXCEPT ![t] = s]
      /\ \E c : fut' = [fut EXCEPT ![t] = c]
  BY ZenonT(30) DEF PollCall, TimeoutCall, Return
<1>4. ASSUME NEW u \in Tasks, st'[u] = "wait", ~Scheduled(u)'
      PROVE  u # running /\ st[u] = "wait" /\ fut'[u] = fut[u]
  <2>1. u # t
    BY <1>2, <1>4 DEF Scheduled, execVars
  <2> QED BY <1>2, <1>3, <1>4, <2>1 DEF CallInv
<1>5. ASSUME NEW u \in Tasks, NEW e \in Ends, Asleep(u), Awaits(u, e)
      PROVE  waker'[e] = waker[e] /\ (LeftReady(e)' => LeftReady(e))
  <2>1. u # t /\ st[u] = "wait"
    BY <1>2, <1>5, ZenonT(30) DEF Asleep, Scheduled
  <2>2. LeftReady(e)' => LeftReady(e)
    BY <1>2 DEF LeftReady, ReadReady, WriteReady
  <2> QED BY <1>1, <1>2, <1>5, <2>1, <2>2, WakersAfterKeeps
<1>6. ExecKeeps
  BY <1>2, StutterKeeps, SMTT(30)
<1> QED BY <1>4, <1>5, <1>6, SleepFrame

\* A process goes to sleep with its waker in each end, none of which is ready.
LEMMA PendingSleep ==
    ASSUME ExecInv, CallInv, HoldInv, SleepInv, NEW t \in Tasks, PendingCall(t)
    PROVE  SleepInv'
<1>1. /\ running = t /\ st[t] = "wait" /\ ReadyFutures(t) = {}
      /\ waker' = WakersAfter(t, Len(fut[t].ends))
      /\ Suspend /\ UNCHANGED <<buf, is_closed, st, fut>>
  BY DEF PendingCall
<1>2. ExecKeeps
  BY <1>1, EndOfPollKeeps
<1>3. \A e \in Ends : LeftReady(e)' <=> LeftReady(e)
  BY <1>1 DEF LeftReady, ReadReady, WriteReady
<1>4. Len(fut[t].ends) \in Nat
  BY LenProperties DEF CallInv, CallType
<1>5. ASSUME NEW u \in Tasks, NEW e \in Ends, st[u] = "wait", ~Scheduled(u)', Awaits(u, e)
      PROVE  waker'[e] = u /\ ~LeftReady(e)
  <2>1. CASE u = t
    <3>1. PICK j \in 1..Len(fut[t].ends) : fut[t].ends[j] = e
      BY <1>5, <2>1, ZenonT(30) DEF Awaits
    <3>2. ~LeftReady(e)
      BY <1>1, <3>1, ZenonT(30) DEF ReadyFutures, JoinReady
    <3> QED BY <1>1, <2>1, <3>1, <3>2 DEF WakersAfter
  <2>2. CASE u # t
    <3>1. Asleep(u)
      BY <1>1, <1>2, <1>5, <2>2 DEF ExecKeeps, Asleep
    <3>2. WakersAfter(t, Len(fut[t].ends))[e] = waker[e]
      BY <1>1, <1>4, <1>5, <2>2, WakersAfterKeeps, SMTT(30)
    <3> QED BY <1>1, <1>5, <3>1, <3>2 DEF SleepInv
  <2> QED BY <2>1, <2>2
<1>6. \A u \in Tasks, e \in Ends : Awaits(u, e)' <=> Awaits(u, e)
  BY <1>1 DEF Awaits
<1>7. \A u \in Tasks : Asleep(u)' => st[u] = "wait" /\ ~Scheduled(u)'
  BY <1>1 DEF Asleep
<1> QED BY <1>3, <1>5, <1>6, <1>7, ZenonT(30) DEF SleepInv

\* A read or write of no byte leaves the pipe as it is.
LEMMA NoByte ==
    ASSUME CallInv, ReadyInv, DataInv, NEW t \in Tasks, PollRead(t) \/ PollWrite(t), fut[t].len = 0
    PROVE  buf' = buf
<1>1. PICK e \in Ends : fut[t].ends[1] = e /\ LeftOk(e)
  BY TransferEnd
<1>2. PICK p \in Pipes : p = e[1]
  BY SMTT(30) DEF Ends
<1>3. buf[p] \in Seq(Nat) /\ Len(buf[p]) \in Nat /\ Len(buf[p]) <= Capacity
  BY LenProperties DEF DataInv
<1>4. CASE PollRead(t)
  <2>1. AtMost(Len(buf[p]), fut[t].len) = 0
    BY <1>3, SMTT(30) DEF AtMost
  <2>2. buf' = [buf EXCEPT ![p] = SubSeq(buf[p], 0 + 1, Len(buf[p]))]
    BY <1>1, <1>2, <1>4, <2>1, ZenonT(30) DEF PollRead
  <2>3. SubSeq(buf[p], 0 + 1, Len(buf[p])) = buf[p]
    BY <1>3, SubSeqFull
  <2> QED BY <2>2, <2>3 DEF DataInv
<1>5. CASE PollWrite(t)
  <2>1. AtMost(Capacity - Len(buf[p]), fut[t].len) = 0
    BY <1>3, PipeBounds, SMTT(30) DEF AtMost
  <2>2. buf' = [buf EXCEPT ![p] = RingPush(buf[p], [i \in 1..0 |-> sent[p] + i])]
    BY <1>1, <1>2, <1>5, <2>1, ZenonT(30) DEF PollWrite
  <2>3. [i \in 1..0 |-> sent[p] + i] = <<>>
    <3>1. sent[p] \in Nat
      BY DEF DataInv
    <3>2. [i \in 1..0 |-> sent[p] + i] \in Seq(Nat) /\ Len([i \in 1..0 |-> sent[p] + i]) = 0
      BY <3>1, Run
    <3> QED BY <3>2, EmptySeq
  <2>4. buf[p] \o <<>> = buf[p]
    BY <1>3, ConcatEmptySeq
  <2>5. RingPush(buf[p], <<>>) = buf[p]
    BY <1>3, <2>4 DEF RingPush
  <2> QED BY <2>2, <2>3, <2>5 DEF DataInv
<1> QED BY <1>4, <1>5

\* Who sleeps for an end is awake once its waker has been taken.
LEMMA TakenAwake ==
    ASSUME ExecInv, HoldInv, SleepInv, NEW d \in Ends, TakeWaker(d),
           NEW u \in Tasks, NEW e \in Ends, Asleep(u), ~Scheduled(u)', Awaits(u, e)
    PROVE  e # d /\ waker'[e] = waker[e]
<1>1. waker[e] = u /\ u \in live
  BY DEF SleepInv, HoldInv, Asleep
<1>2. e # d
  BY <1>1, TakeWakerKeeps, SMTT(30)
<1> QED BY <1>2, SMTT(30) DEF TakeWaker, ExecInv

\* Whether an end is ready depends on its own pipe only.
LEMMA ReadyLocal ==
    ASSUME NEW e, is_closed'[e[1]] = is_closed[e[1]], buf'[e[1]] = buf[e[1]]
    PROVE  LeftReady(e)' <=> LeftReady(e)
BY ZenonT(30) DEF LeftReady, ReadReady, WriteReady

\* A transfer that makes the other end ready takes and wakes the waker found
\* there.
LEMMA TransferSleep ==
    ASSUME ExecInv, CallInv, ReadyInv, DataInv, HoldInv, SleepInv,
           NEW t \in Tasks, PollRead(t) \/ PollWrite(t)
    PROVE  SleepInv'
<1>1. running = t /\ st[t] = "ready" /\ Return(t) /\ UNCHANGED is_closed
  BY ZenonT(30) DEF PollRead, PollWrite
<1>2. ExecKeeps /\ running' = running
  BY TransferKeeps
<1>3. ASSUME NEW u \in Tasks, st'[u] = "wait", ~Scheduled(u)'
      PROVE  u # running /\ st[u] = "wait" /\ fut'[u] = fut[u]
  <2>1. u # t
    BY <1>1, <1>2, <1>3 DEF Scheduled
  <2> QED BY <1>1, <1>3, <2>1, SMTT(30) DEF CallInv, Return
<1>4. PICK d \in Ends : fut[t].ends = <<d>>
  BY <1>1 DEF ReadyInv
<1>5. d[1] \in Pipes /\ Peer(d) \in Ends /\ fut[t].ends[1] = d
  BY <1>4, SMTT(30) DEF Ends, Peer
<1>6. \A p \in Pipes \ {d[1]} : buf'[p] = buf[p]
  BY <1>5, ZenonT(30) DEF PollRead, PollWrite, DataInv
<1>7. \/ UNCHANGED <<waker, buf>>
      \/ TakeWaker(Peer(d))
  <2>1. CASE fut[t].len = 0
    BY <2>1, NoByte, ZenonT(30) DEF PollRead, PollWrite
  <2>2. CASE PollRead(t) /\ fut[t].len # 0
    <3>1. d[2] = "r" /\ Peer(d) = <<d[1], "w">>
      BY <1>5, <2>2, ZenonT(30) DEF PollRead, Peer
    <3> QED BY <1>5, <2>2, <3>1, SMTT(30) DEF PollRead
  <2>3. CASE PollWrite(t) /\ fut[t].len # 0
    <3>1. d[2] = "w" /\ Peer(d) = <<d[1], "r">>
      BY <1>5, <2>3 DEF PollWrite, Peer
    <3> QED BY <1>5, <2>3, <3>1, SMTT(30) DEF PollWrite
  <2> QED BY <2>1, <2>2, <2>3, ZenonT(30)
<1>8. ASSUME NEW u \in Tasks, NEW e \in Ends, Asleep(u), ~Scheduled(u)', Awaits(u, e)
      PROVE  waker'[e] = waker[e] /\ (LeftReady(e)' => LeftReady(e))
  <2>1. CASE UNCHANGED <<waker, buf>>
    BY <1>1, <2>1, ZenonT(30) DEF LeftReady, ReadReady, WriteReady
  <2>2. CASE TakeWaker(Peer(d))
    <3>1. e # Peer(d) /\ waker'[e] = waker[e]
      BY <1>5, <1>8, <2>2, TakenAwake, ZenonT(30)
    <3>2. e # d
      <4>1. Awaits(t, d)
        BY <1>4 DEF Awaits
      <4>2. u # t /\ st[u] = "wait"
        BY <1>1, <1>8 DEF Asleep
      <4> QED BY <1>1, <1>8, <4>1, <4>2, AwaitsHeld, SMTT(30)
    <3>3. e[1] \in Pipes \ {d[1]}
      <4>1. e[1] \in Pipes
        BY SMTT(30) DEF Ends
      <4> QED BY <3>1, <3>2, <4>1, EndsOfPipe
    <3>4. LeftReady(e)' <=> LeftReady(e)
      BY <1>1, <1>6, <3>3, ReadyLocal, ZenonT(30)
    <3> QED BY <3>1, <3>4, ZenonT(30)
  <2> QED BY <1>7, <2>1, <2>2, ZenonT(30)
<1> QED BY <1>2, <1>3, <1>8, SleepFrame, SMTT(30)

\* A close that makes the other end ready takes and wakes the waker found
\* there.
LEMMA CloseEndSleep ==
    ASSUME ExecInv, DataInv, HoldInv, SleepInv, NEW t \in Tasks, NEW d \in Ends, CloseEnd(t, d)
    PROVE  SleepInv'
<1>1. running = t /\ st[t] = "idle" /\ t \in holders[d] /\ UNCHANGED <<buf, st, fut>>
  BY DEF CloseEnd, EndsOf, proc
<1>2. ExecKeeps /\ running' = running
  BY CloseEndKeeps, SMTT(30)
<1>3. \A u \in Tasks : st'[u] = "wait" /\ ~Scheduled(u)' =>
            u # running /\ st[u] = "wait" /\ fut'[u] = fut[u]
  BY <1>1, SMTT(30) DEF Scheduled
<1>4. ASSUME NEW u \in Tasks, NEW e \in Ends, Asleep(u), ~Scheduled(u)', Awaits(u, e)
      PROVE  waker'[e] = waker[e] /\ (LeftReady(e)' => LeftReady(e))
  <2>1. CASE holders[d] # {t}
    <3>1. UNCHANGED <<is_closed, waker>>
      BY <2>1, SMTT(30) DEF CloseEnd
    <3> QED BY <1>1, <3>1 DEF LeftReady, ReadReady, WriteReady
  <2>2. CASE holders[d] = {t}
    <3>1. TakeWaker(Peer(d)) /\ is_closed' = [is_closed EXCEPT ![d[1]] = TRUE]
      BY <2>2 DEF CloseEnd, DropEnd
    <3>2. Peer(d) \in Ends /\ e[1] \in Pipes
      BY ZenonT(30) DEF Peer, Ends
    <3>3. e # Peer(d) /\ waker'[e] = waker[e]
      BY <1>4, <3>1, <3>2, TakenAwake, SMTT(30)
    <3>4. e # d
      BY <1>1, <1>4, AwaitsHeld DEF Asleep
    <3>5. e[1] # d[1]
      BY <3>3, <3>4, EndsOfPipe, SMTT(30)
    <3> QED BY <1>1, <3>1, <3>2, <3>3, <3>5, ZenonT(30) DEF LeftReady, ReadReady, WriteReady, DataInv
  <2> QED BY <2>1, <2>2, SMTT(30)
<1> QED BY <1>2, <1>3, <1>4, SleepFrame, ZenonT(30)

\* Every step keeps a waker for each process that sleeps, at an end that is not
\* ready.
LEMMA SleepInvStep ==
    ASSUME PipeInv, HoldInv, SleepInv, [Next]_vars
    PROVE  SleepInv'
<1>1. ASSUME Next, UNCHANGED <<waker, buf, is_closed>>,
             \A u \in Tasks : st'[u] = "wait" /\ ~Scheduled(u)' =>
                u # running /\ st[u] = "wait" /\ fut'[u] = fut[u]
      PROVE  SleepInv'
  <2>1. ExecKeeps
    BY <1>1, ExecInvStep, ZenonT(30) DEF PipeInv
  <2>2. \A e \in Ends : waker'[e] = waker[e] /\ (LeftReady(e)' => LeftReady(e))
    BY <1>1, ZenonT(30) DEF LeftReady, ReadReady, WriteReady
  <2> QED BY <1>1, <2>1, <2>2, SleepFrame, ZenonT(30)
<1>2. ASSUME Next, NEW t \in Tasks, Start(t) \/ ReportSelect(t) \/ Yield(t) \/ Exit(t)
                                    \/ SendSignal(t) \/ TimerTick(t) \/ \E c : Call(t, c)
      PROVE  SleepInv'
  <2>1. UNCHANGED <<waker, buf, is_closed>>
    BY <1>2, SMTT(30) DEF Start, ReportSelect, Yield, Exit, SendSignal, TimerTick, Call, pipe
  <2>2. ASSUME NEW u \in Tasks, st'[u] = "wait", ~Scheduled(u)'
        PROVE  u # running /\ st[u] = "wait" /\ fut'[u] = fut[u]
    <3>1. CASE Start(t)
      <4>1. running' = running
        BY <3>1 DEF Start, Spawn
      <4> QED BY <2>2, <3>1, <4>1 DEF Start, Scheduled, PipeInv, CallInv
    <3>2. CASE ReportSelect(t) \/ Exit(t)
      BY <2>2, <3>2, ZenonT(30) DEF ReportSelect, Return, Exit, PipeInv, CallInv
    <3>3. CASE Yield(t)
      BY <2>2, <3>3, ZenonT(30) DEF Yield, proc
    <3>4. CASE SendSignal(t) \/ TimerTick(t)
      <4>1. UNCHANGED <<running, st, fut>>
        BY <3>4 DEF SendSignal, Notify, TimerTick, Wake, proc, execVars
      <4> QED BY <2>2, <4>1 DEF Scheduled
    <3>5. CASE \E c : Call(t, c)
      <4>1. running = t /\ running' = running
        BY <3>5, SMTT(30) DEF Call, execVars
      <4> QED BY <2>2, <3>5, <4>1 DEF Call, Scheduled, PipeInv, CallInv
    <3> QED BY <1>2, <3>1, <3>2, <3>3, <3>4, <3>5, ZenonT(30)
  <2> QED BY <1>1, <1>2, <2>1, <2>2, SMTT(30)
<1>3. CASE Poll
  <2>1. running = NoTask /\ UNCHANGED <<waker, buf, is_closed, st, fut>>
    BY <1>3, ZenonT(30) DEF Poll, Fetch, pipe, proc
  <2> QED BY <1>1, <1>3, <2>1, NoTaskIsNone DEF Next
<1>4. CASE UNCHANGED vars
  BY <1>4 DEF vars, pipe, proc, execVars, SleepInv, Asleep, Awaits, Scheduled,
              LeftReady, ReadReady, WriteReady
<1> QED BY <1>2, <1>3, <1>4, EndCallSleep, PendingSleep, TransferSleep, CloseEndSleep, ZenonT(30)
        DEF Next, RunTask, BeginIO, BeginSelect, PipeInv

\* With one process at each end nobody sleeps through the byte, the space or
\* the close that it waits for, however signals, timeouts and wakers left by
\* earlier calls come in: poll_ready leaves its waker in the pipe, and who
\* makes an end ready takes it (npipe.rs 171, 187, 224, 269, 281 and 313).
THEOREM NoStrandedProcessHolds ==
    ASSUME OneProcessPerEnd
    PROVE  Spec => []NoStrandedProcess
<1>1. Init => HoldInv /\ SleepInv
  <2> SUFFICES ASSUME Init PROVE HoldInv /\ SleepInv
    OBVIOUS
  <2>1. \A t \in Tasks : st[t] = "new"
    BY ZenonT(30) DEF Init
  <2>2. \A e \in Ends : holders[e] \in SUBSET Tasks /\ \A t, u \in holders[e] : t = u
    <3>1. SUFFICES ASSUME NEW e \in Ends
                   PROVE  holders[e] \in SUBSET Tasks /\ \A t, u \in holders[e] : t = u
      OBVIOUS
    <3>2. e[1] \in Pipes /\ holders[e] \in {ReadersOf[e[1]], WritersOf[e[1]]}
      BY SMTT(30) DEF Init, Ends
    <3> QED BY <3>2, PipeBounds DEF OneProcessPerEnd
  <2>3. holders \in [Ends -> SUBSET Tasks]
    BY <2>2 DEF Init
  <2> QED BY <2>1, <2>2, <2>3, ZenonT(30) DEF HoldInv, SleepInv, Asleep
<1>2. PipeInv /\ HoldInv /\ SleepInv /\ [Next]_vars => HoldInv' /\ SleepInv'
  BY HoldInvStep, SleepInvStep DEF PipeInv
<1>3. PipeInv /\ SleepInv => NoStrandedProcess
  <2> SUFFICES ASSUME PipeInv, SleepInv, NEW t \in Tasks, Asleep(t), NEW i \in 1..Len(fut[t].ends)
               PROVE  ~LeftReady(fut[t].ends[i])
    BY DEF NoStrandedProcess, Asleep
  <2>1. fut[t].ends[i] \in Ends
    BY ElementOfSeq DEF PipeInv, CallInv, CallType
  <2>2. Awaits(t, fut[t].ends[i])
    BY DEF Awaits
  <2> QED BY <2>1, <2>2 DEF SleepInv
<1> QED BY <1>1, <1>2, <1>3, PipeInvHolds, PTL DEF Spec
===============================================================================
