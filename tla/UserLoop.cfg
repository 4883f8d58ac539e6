CONSTANTS
    MaxThreads = 2
    Sigs = {14, 17}
    Deadly = {14}
    Alrm = 14
    Chld = 17
    FpVals = {1}
    MaxTimers = 1
    MaxNow = 2
    Delays = {2}
    MaxCalls = 4
SPECIFICATION FairSpec
INVARIANTS ResumesInterrupted FpKept AlarmOnTime
PROPERTY DoomedEnds
CHECK_DEADLOCK FALSE
