CONSTANTS
    Tasks = {t1, t2, t3}
    NoTask = NoTask
    RingSize = 2
    MaxTyped = 5
    MaxReads = 3
    MaxSpurious = 1
SPECIFICATION Spec
SYMMETRY TaskSymmetry
INVARIANTS
    InputWakesReader
    InputAccounted
CHECK_DEADLOCK FALSE
