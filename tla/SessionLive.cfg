SPECIFICATION FairSpec
CONSTANTS
    Parts = {"control", "adoption", "local"}
    Senders = {"sender"}
    Flushers = {"f1", "f2"}
    QueueTurns = 1
    MaxSent = 4
    MaxStops = 0
    CallsFail = TRUE
    AdoptProcs = {"p1", "p2"}
    Looped = {"p1", "p2"}
    AdoptTurns = 2
    AdoptFaults = {"giveup", "lag", "shutdown", "unreadable"}
    Callers = {"c1", "c2"}
    LocalRuns = 1
    MaxSends = 1
    MaxInbox = 3
    ReadingCallers = {"c1"}
    Readers = {"x1"}
    ReadingSends = 0
    ReadingInbox = 1
    ReadingFaults = {"caller"}
    Agents = {"claude", "codex"}
    Places = {"sandbox", "local", "owned"}
    RepoRefs = {"none", "branch", "commit"}
    SavedTurns = 3
    SaveFaults = 2
    ConfigProcs = {"p1", "p2"}
    Versions <- TwoVersions
    Images <- TwoImages
    ClientKnows <- OlderSecond
    ImageKnows <- OlderFirst
    SessionChoices <- PlainOrBound
    LaterChoices <- BoundOrNewer
    TurnChoices <- PlainOrSchema
    ReapedTurnChoices <- OnlyPlain
    ConfigTurns = 2
    ConfigFaults = 1
    Inherit = Inherit
    Nothing = Nothing
PROPERTIES
    QueueDrains
    TurnsAreTended
CHECK_DEADLOCK FALSE
