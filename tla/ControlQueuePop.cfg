SPECIFICATION Spec
CONSTANTS
    Senders = {s1}
    Flushers = {f1, f2}
    MaxTurns = 2
    MaxSent = 3
    MaxStops = 0
    Fails = FALSE
INVARIANTS
    NoneLost
CHECK_DEADLOCK FALSE
