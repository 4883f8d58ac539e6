SPECIFICATION FdSpec
CONSTANTS
    MaxFd = 4
    MaxOpenFiles = 4
    Limits = {3}
    LowerBounds = {4}
INVARIANTS
    NoDescriptorLost
PROPERTIES
    NeverReplacesOpenFile
    LimitHonoured
CHECK_DEADLOCK FALSE
