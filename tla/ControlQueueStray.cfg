SPECIFICATION Spec
CONSTANTS
    Senders = {s1}
    Flushers = {f1, f2}
    MaxTurns = 2
    MaxSent = 2
    MaxStops = 0
    Fails = FALSE
INVARIANTS
    OwnTurnOnly
CHECK_DEADLOCK FALSE
