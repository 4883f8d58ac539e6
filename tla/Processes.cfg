SPECIFICATION FairSpec
CONSTANT
    MaxPid = 4
INVARIANTS
    NoOrphan
    ReapedOnce

    
CHECK_DEADLOCK FALSE
