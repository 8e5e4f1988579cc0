SPECIFICATION FairSpec
CONSTANTS
    t1 = t1
    t2 = t2
    s1 = s1
    s2 = s2
    s3 = s3
    s4 = s4
    Turns <- OneTurn
    Sandboxes <- TwoBoxes
    Pooled <- OnePooled
    Attempts = 1
    None = None
    Foreign = Foreign
PROPERTY
    InterruptLeavesIdle
CHECK_DEADLOCK FALSE
