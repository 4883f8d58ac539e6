CONSTANTS
    FatLen = 7
    SctPerCls = 2
    Ades = 2
    ShortLen = 2
    LfnLen = 2
    Names <- ThreeNames
    Images <- Dirs
    Handles = {1, 2}
    MaxOps = 2
SPECIFICATION Spec
INVARIANTS EntriesKept
CHECK_DEADLOCK FALSE
