SPECIFICATION FairSpec
CONSTANTS
    MaxEvents = 3
    MaxFailures = 2
INVARIANTS
    TypeOK
    SwitchIsSeamless
    ResultIsRecorded
PROPERTY
    EndsTruthfully
    StreamEnds
CHECK_DEADLOCK FALSE
