SPECIFICATION Spec
CONSTANTS
    MaxEvents = 2
    MaxFailures = 2
INVARIANT
    NothingTwice
CHECK_DEADLOCK FALSE
