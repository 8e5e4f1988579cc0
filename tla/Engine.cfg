SPECIFICATION Spec
CONSTANTS
    Parts = {"pool", "deploy", "teardown", "setup", "tokens", "left", "exec"}
    s1 = s1
    PoolClients = {c1, c2}
    PoolBoxes = {s1, s2}
    PoolIdle <- OneIdle
    Attempts = 2
    Deployers = {d1}
    Images = {i1, i2}
    MaxTemplates = 3
    MaxDeploys = 4
    NoImage = NoImage
    t1 = t1
    t2 = t2
    b1 = b1
    b2 = b2
    b3 = b3
    v1 = v1
    v2 = v2
    w1 = w1
    Users = {t1, t2}
    Handle <- HandleTwo
    Boxes = {b1, b2, b3, b4}
    Own = {v1, v2}
    Other = {w1}
    MaxUses = 2
    Pooled <- PooledThree
    CallsFail = TRUE
    Deadline = TRUE
    Setups = {"p1"}
    Operator = TRUE
    Verify = TRUE
    Starts <- AnyProject
    Others = {"grant", "rule", "permission", "deploy"}
    Lifetime = 60
    Cadence = 25
    Retry = 1
    Horizon = 10
    RetrySoon = 5
    Early = 4
    CliEarly = 5
    MaxDispatch = 10
    TokensTime = 150
    StorageFaults = 1
    ModelFaults = 6
    ReadFaults = 1
    AdoptWithin = 8
    LeftTime = 100
    ExecTurns = 3
    Children = {"none", "group", "session", "quiet"}
    None = None
INVARIANTS
    TypesHold
    DeployServes
    TokensLive
    RunsWhereNamed
PROPERTIES
    SandboxesAreOwned
    OthersAreSpared
CHECK_DEADLOCK FALSE
