SPECIFICATION SleepFairSpec
CONSTANTS
    t1 = t1
    t2 = t2
    t3 = t3
    NoTask = NoTask
    Tasks <- MCTasks
    MaxLocks = 2
    MaxSpurious = 1
INVARIANTS
    OneGuard
PROPERTY
    EveryWaiterAcquires
CHECK_DEADLOCK FALSE
