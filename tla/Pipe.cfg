SPECIFICATION FairSpec
CONSTANTS
    a = a
    b = b
    NoTask = NoTask
    Tasks <- MCTasks
    Pipes = {1, 2}
    Capacity = 1
    ReadersOf <- MCReadersOf
    WritersOf <- MCWritersOf
    IOLens = {0, 2}
    MaxBytes = 2
    MaxSignals = 1
    MaxSelects = 1
INVARIANTS
    TransferHasRoom
    NoDanglingNode
    NoStrandedProcess
PROPERTIES
    IsChannel
    ReadyCallReturns
CHECK_DEADLOCK FALSE
