CONSTANTS
    FatLen = 7
    SctPerCls = 2
    Ades = 2
    ShortLen = 2
    LfnLen = 2
    Names <- ThreeNames
    Images <- Dirs
    Handles = {1, 2}
    MaxOps = 4
SPECIFICATION Spec
INVARIANTS WindowLoaded ViewIsDirectory  ChainMatchesFat
CHECK_DEADLOCK FALSE
