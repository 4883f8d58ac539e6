CONSTANTS
    Procs = {p1, p2}
    First = p1
    Frames = {f1, f2}
    NoFrame = NoFrame
    Segs = {s1}
    Maps <- FileMaps
    MaxCalls = 3
    HeapBeg = 0
    HeapEnd = 1
    MmapBeg = 1
    MmapEnd = 3
    ShareBeg = 3
    ShareEnd = 4
SPECIFICATION Spec
SYMMETRY FrameSymmetry
INVARIANTS CountCoversRefs NoFrameLost CowExclusive AreasWellFormed AttachedShowsSegment
 
CHECK_DEADLOCK FALSE
