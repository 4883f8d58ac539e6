SPECIFICATION Spec
CONSTANTS
    h0 = h0
    h1 = h1
    m0 = m0
    m1 = m1
    Harts <- MCHarts
    Hart0 = h0
    Mutexes <- MCMutexes
    TryLimit = 2
    MaxNesting = 2
INVARIANTS
    TypeOK
    MutualExclusion
    HandlerFindsNoHolder
    SieRestored
    SupportReady
CHECK_DEADLOCK FALSE
