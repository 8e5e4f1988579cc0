SPECIFICATION Spec
CONSTANTS
    Parts = {"control", "adoption", "config", "reaped_config", "local_config", "local", "reading", "saving", "store"}
    Senders = {"sender"}
    Flushers = {"f1", "f2"}
    QueueTurns = 2
    MaxSent = 2
    MaxStops = 1
    CallsFail = FALSE
    AdoptProcs = {"p1", "p2"}
    Looped = {"p1"}
    AdoptTurns = 3
    AdoptFaults = {"crash", "detach", "unreadable"}
    Callers = {"c1", "c2"}
    LocalRuns = 2
    MaxSends = 1
    MaxInbox = 2
    ReadingCallers = {"c1"}
    Readers = {"x1"}
    ReadingSends = 0
    ReadingInbox = 1
    ReadingFaults = {"caller"}
    Agents = {"claude", "codex"}
    Places = {"sandbox", "local", "owned"}
    RepoRefs = {"none", "branch", "commit"}
    SavedTurns = 3
    SaveFaults = 2
    ConfigProcs = {"p1", "p2"}
    Versions <- TwoVersions
    Images <- TwoImages
    ClientKnows <- OlderSecond
    ImageKnows <- OlderFirst
    SessionChoices <- PlainOrBound
    LaterChoices <- BoundOrNewer
    TurnChoices <- PlainOrSchema
    ReapedTurnChoices <- OnlyPlain
    ConfigTurns = 2
    ConfigFaults = 1
    Inherit = Inherit
    Nothing = Nothing
INVARIANTS
    TypesHold
    TakenOnce
    OneTurn
    ConfigHolds
    LocalTurnsHold
    WhatIsSavedIsResumed
    TranscriptLoads
CHECK_DEADLOCK FALSE
