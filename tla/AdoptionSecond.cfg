SPECIFICATION Spec
CONSTANTS
    Procs = {p1, p2}
    Looped = {p1}
    MaxTurns = 2
    Faults = {"detach", "lag"}
INVARIANTS
    OneTurn
CHECK_DEADLOCK FALSE
