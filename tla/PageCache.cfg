CONSTANTS
    FatLen = 9
    SctPerCls = 1
    Files = {1, 2}
    Block = 2
    InitChain <- TwoChains
    InitSize <- TwoSizes
    Stale = 9
    Page = 4
    MaxPages = 3
    Offsets = {3, 6}
    Bufs <- OneOrTwo
    Sizes = {0, 3, 8}
    Vals = {5}
    MaxCalls = 4
SPECIFICATION Spec
INVARIANTS WrittenStays CacheCoherent NoSharedCluster
CHECK_DEADLOCK FALSE
