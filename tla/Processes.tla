------------------------------- MODULE Processes -------------------------------
(***************************************************************************)
(* The life of light processes: sys_clone, sys_exit, sys_exitgroup, death  *)
(* by a signal or a fault, and sys_wait (src/src/process/lproc.rs,         *)
(* userloop.rs, src/src/syscall/process.rs).  A poll of a process's task   *)
(* is atomic; tasks interleave where sys_wait yields and between system    *)
(* calls.  A pid is the number of its LightProcess, which is never freed   *)
(* (its thread group keeps it), so that pids are not drawn twice.          *)
(*                                                                         *)
(* Threads share the cells that hold their parent and their children; the  *)
(* cells are indexed by the leader of the thread group.                    *)
(***************************************************************************)
EXTENDS Naturals, Sequences, FiniteSets

CONSTANTS
    MaxPid       \* bound: processes created

ASSUME ProcessBounds == MaxPid \in Nat \ {0}

VARIABLES
    next,      \* the next pid of PID_USIZE_POOL
    status,    \* LightProcess::status
    task,      \* where the userloop of each process is
    leader,    \* the leader of its thread group
    parent,    \* per leader: LightProcess::parent, 0 for None
    children,  \* per leader: LightProcess::children
    reaped,    \* history: how often sys_wait has returned the process
    hung       \* a lock is taken by the hart that holds it

vars == <<next, status, task, leader, parent, children, reaped, hung>>

Pids == 1..MaxPid
InitPid == 1
Exists(p) == p < next
Members(g) == {p \in Pids : Exists(p) /\ leader[p] = g}
IsChild(c, s) == \E i \in 1..Len(s) : s[i] = c

\* spawn_init: LightProcess::new and spawn_proc.
Init ==
    /\ next = 2
    /\ status = [p \in Pids |-> "READY"]
    /\ task = [p \in Pids |-> IF p = InitPid THEN "run" ELSE "none"]
    /\ leader = [p \in Pids |-> p]
    /\ parent = [p \in Pids |-> 0]
    /\ children = [p \in Pids |-> <<>>]
    /\ reaped = [p \in Pids |-> 0]
    /\ hung = FALSE

\* The process is in user mode and about to make a system call.
Runs(p) == ~hung /\ task[p] = "run" /\ status[p] = "READY"

\* do_clone without CLONE_THREAD, and spawn_proc.
Fork(p) ==
    /\ Runs(p) /\ next <= MaxPid
    /\ next' = next + 1
    /\ task' = [task EXCEPT ![next] = "run"]
    /\ parent' = [parent EXCEPT ![next] = p]
    /\ children' = [children EXCEPT ![leader[p]] = Append(@, next)]
    /\ UNCHANGED <<status, leader, reaped, hung>>

\* do_clone with CLONE_THREAD: the thread joins the group and shares its cells.
CloneThread(p) ==
    /\ Runs(p) /\ next <= MaxPid
    /\ next' = next + 1
    /\ task' = [task EXCEPT ![next] = "run"]
    /\ leader' = [leader EXCEPT ![next] = leader[p]]
    /\ UNCHANGED <<status, parent, children, reaped, hung>>

\* The children get a new parent and stay out of its list.
DoExitForgets(p) ==
    LET g == leader[p]
        moved == children[g]
    IN /\ task' = [task EXCEPT ![p] = "gone"]
       /\ parent' = [c \in Pids |-> IF IsChild(c, moved) THEN InitPid ELSE parent[c]]
       /\ UNCHANGED <<next, leader, children, reaped, hung>>

\* LightProcess::do_exit after the userloop's last iteration.  The own children
\* are locked while init's are extended.
DoExit(p) ==
    LET g == leader[p]
        moved == children[g]
        relock == moved # <<>> /\ g = leader[InitPid]
    IN /\ task' = [task EXCEPT ![p] = "gone"]
       /\ parent' = [c \in Pids |-> IF IsChild(c, moved) THEN InitPid ELSE parent[c]]
       /\ children' = IF relock THEN children
                      ELSE [children EXCEPT ![leader[InitPid]] = @ \o moved]
       /\ hung' = relock
       /\ UNCHANGED <<next, leader, reaped>>

\* sys_exit, a deadly signal or a fault; the status changes if there is a parent.
Exit(p) ==
    /\ Runs(p)
    /\ status' = [status EXCEPT ![p] = IF parent[leader[p]] # 0 THEN "STOPPED" ELSE @]
    /\ DoExit(p)

\* sys_exitgroup: every member is stopped, the caller leaves at once.
ExitGroup(p) ==
    /\ Runs(p)
    /\ status' = [q \in Pids |-> IF q \in Members(leader[p]) THEN "STOPPED" ELSE status[q]]
    /\ DoExit(p)

\* A member stopped by another thread reaches the head of its userloop.
Leave(p) ==
    /\ ~hung /\ task[p] = "run" /\ status[p] = "STOPPED"
    /\ DoExit(p)
    /\ UNCHANGED status

\* sys_wait up to its first yield_now().
Wait(p) ==
    /\ Runs(p)
    /\ task' = [task EXCEPT ![p] = "wait"]
    /\ UNCHANGED <<next, status, leader, parent, children, reaped, hung>>

\* Only the youngest child is looked at.
StoppedLast(g) == {i \in 1..Len(children[g]) : i = Len(children[g]) /\ status[children[g][i]] = "STOPPED"}

\* stopped_children: positions in the list of children.
Stopped(g) == {i \in 1..Len(children[g]) : status[children[g][i]] = "STOPPED"}

\* The list is searched for the child but not shortened.
ReapKeeps(p) ==
    /\ ~hung /\ task[p] = "wait"
    /\ \E i \in Stopped(leader[p]) :
        /\ reaped' = [reaped EXCEPT ![children[leader[p]][i]] = @ + 1]
        /\ reaped[children[leader[p]][i]] < 2
    /\ task' = [task EXCEPT ![p] = "run"]
    /\ UNCHANGED <<next, status, leader, parent, children, hung>>

\* An iteration of sys_wait that finds a stopped child of the kind asked for
\* (any of them, depending on the argument): remove_child and return.
Reap(p) ==
    /\ ~hung /\ task[p] = "wait"
    /\ \E i \in Stopped(leader[p]) :
        LET g == leader[p]
            c == children[g][i]
        IN /\ \A j \in 1..(i - 1) : children[g][j] # c
           /\ children' = [children EXCEPT ![g] = SubSeq(@, 1, i - 1) \o SubSeq(@, i + 1, Len(@))]
           /\ reaped' = [reaped EXCEPT ![c] = @ + 1]
    /\ task' = [task EXCEPT ![p] = "run"]
    /\ UNCHANGED <<next, status, leader, parent, hung>>

\* WNOHANG and no child has stopped.
WaitNoHang(p) ==
    /\ ~hung /\ task[p] = "wait" /\ Stopped(leader[p]) = {}
    /\ task' = [task EXCEPT ![p] = "run"]
    /\ UNCHANGED <<next, status, leader, parent, children, reaped, hung>>

Next == \E p \in Pids :
    \/ Fork(p) \/ CloneThread(p) \/ Exit(p) \/ ExitGroup(p) \/ Leave(p)
    \/ Wait(p) \/ Reap(p) \/ WaitNoHang(p)

Spec == Init /\ [][Next]_vars

\* The executor polls every scheduled task again and again.
FairSpec == Spec /\ \A p \in Pids : WF_vars(Reap(p)) /\ WF_vars(Leave(p))

-------------------------------------------------------------------------------
GroupLives(g) == \E p \in Members(g) : task[p] # "gone"

\* A process that nobody has waited for is in the list in which its parent's
\* wait looks, and that parent still runs or is init: do_exit loses no child,
\* in whatever order parents, children and threads end (lproc.rs 258-288).
NoOrphan ==
    ~hung => \A c \in Pids \ {InitPid} :
        Exists(c) /\ leader[c] = c /\ reaped[c] = 0 =>
            LET g == leader[parent[c]] IN
                IsChild(c, children[g]) /\ (GroupLives(g) \/ g = InitPid)

\* wait returns a process at most once, although it is in its dead parent's
\* list as well as in init's after do_exit (process.rs 179-184, lproc.rs 277).
\* With threads a child may be in init's list twice: the do_exit of each thread
\* appends the children they share.
ReapedOnce == (\A p \in Pids : leader[p] = p) => \A c \in Pids : reaped[c] <= 1

\* A sys_wait that runs while a child is stopped returns, or another thread's
\* takes the child, however the list changes between two polls (process.rs 133-185).
WaitReturns ==
    \A p, c \in Pids :
        (task[p] = "wait" /\ IsChild(c, children[leader[p]]) /\ status[c] = "STOPPED")
            ~> (task[p] # "wait" \/ ~IsChild(c, children[leader[p]]) \/ hung)
===============================================================================
