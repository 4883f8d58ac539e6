CONSTANTS
    Names = {1, 2, 3}
    Mnt = 3
    Paths <- SomePaths
    Fds = {1}
    Image <- BootImage
    Kinds <- BootKinds
    MaxNodes = 10
    MaxCalls = 4
SPECIFICATION Spec
INVARIANTS CacheExact FreedUnheld DentsOnce
CHECK_DEADLOCK FALSE
