SPECIFICATION FairSpec
CONSTANTS
    t1 = t1
    t2 = t2
    s1 = s1
    s2 = s2
    s3 = s3
    s4 = s4
    Turns <- OneTurn
    Sandboxes <- FourBoxes
    Pooled <- TwoPooled
    Attempts = 3
    None = None
    Foreign = Foreign
INVARIANT
    PoolConserved
PROPERTY
    AtMostOnceSpec
    SandboxesAreReleased
    AbandonedTurnsStop
    RunsEnd
CHECK_DEADLOCK FALSE
