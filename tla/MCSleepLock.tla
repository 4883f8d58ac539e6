----------------------------- MODULE MCSleepLock -----------------------------
(* Three tasks on one sleep lock. *)
EXTENDS SleepLock

CONSTANTS t1, t2, t3

MCTasks == {t1, t2, t3}
===============================================================================
