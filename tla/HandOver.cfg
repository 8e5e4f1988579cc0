SPECIFICATION Spec
CONSTANTS
    t1 = t1
    t2 = t2
    s1 = s1
    s2 = s2
    s3 = s3
    s4 = s4
    Turns <- TwoTurns
    Sandboxes <- ThreeBoxes
    Pooled <- OnePooled
    Attempts = 2
    None = None
    Foreign = Foreign
SYMMETRY Symmetry
INVARIANTS
    TypeOK
    OneRunner
    HeldIsThisTurns
    NothingLeaks
    DetachedIsKept
CHECK_DEADLOCK FALSE
