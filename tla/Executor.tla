------------------------------- MODULE Executor -------------------------------
(***************************************************************************)
(* The asynchronous executor of src/src/executor: a FIFO queue of runnable *)
(* tasks, polled one at a time by the boot hart until each suspends.  The  *)
(* scheduling bits of a task belong to the async_task crate (external);    *)
(* they keep a task at most once in the queue.                             *)
(*                                                                         *)
(* Modules of components that suspend tasks extend this one and make their *)
(* polls actions of the running task.                                      *)
(***************************************************************************)
EXTENDS Naturals, Sequences

CONSTANTS
    Tasks,     \* the tasks that may be spawned
    NoTask     \* no task is being polled

ASSUME NoTaskIsNone == NoTask \notin Tasks

VARIABLES
    queue,     \* TaskQueue::queue
    running,   \* the task that run_until_idle is polling
    notified,  \* it was woken while it was being polled
    live       \* the tasks spawned and not completed

execVars == <<queue, running, notified, live>>

InQueue(q, t) == \E i \in 1..Len(q) : q[i] = t

\* The task will be polled again without any further wake.
Scheduled(t) == InQueue(queue, t) \/ t = running

\* Waker::wake: the schedule function given to spawn() pushes the Runnable,
\* unless the task is in the queue already or has completed.  A task woken
\* while it runs is pushed when its poll returns.
WakeQ(q, t) == IF t \in live /\ t # running /\ ~InQueue(q, t) THEN Append(q, t) ELSE q
WakeN(t) == notified \/ t = running

ExecInit ==
    /\ queue = <<>>
    /\ running = NoTask
    /\ notified = FALSE
    /\ live = {}

\* spawn() and Runnable::schedule.
Spawn(t) ==
    /\ t \notin live
    /\ live' = live \cup {t}
    /\ queue' = Append(queue, t)
    /\ UNCHANGED <<running, notified>>

\* run_until_idle: TASK_QUEUE.fetch() and the start of task.run().
Fetch ==
    /\ running = NoTask /\ queue # <<>>
    /\ running' = Head(queue)
    /\ queue' = Tail(queue)
    /\ UNCHANGED <<notified, live>>

\* A wake that reaches t from outside the running task's own code.
Wake(t) ==
    /\ queue' = WakeQ(queue, t)
    /\ notified' = WakeN(t)
    /\ UNCHANGED <<running, live>>

\* The poll of the running task returns Pending; if it was woken meanwhile it
\* goes to the back of the queue.
Suspend ==
    /\ queue' = IF notified THEN Append(queue, running) ELSE queue
    /\ running' = NoTask
    /\ notified' = FALSE
    /\ UNCHANGED live

\* YieldFuture: wake_by_ref on the task's own waker, then Pending.
YieldNow ==
    /\ queue' = Append(queue, running)
    /\ running' = NoTask
    /\ notified' = FALSE
    /\ UNCHANGED live

\* The poll of the running task returns Ready and the task is gone.
Complete ==
    /\ running' = NoTask
    /\ notified' = FALSE
    /\ live' = live \ {running}
    /\ UNCHANGED queue
===============================================================================
