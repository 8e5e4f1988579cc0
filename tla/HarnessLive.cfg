SPECIFICATION FairSpec
CONSTANTS
    Parts = {"codex", "claude", "proxy"}
    CallCap = 3
    CostCap = 2
    CodexMsgs = 2
    CodexCalls = 2
    CodexTexts = 0
    SubModels <- UnlikeModels
    LedgerBudget = 2
    LedgerTurns = 2
    LedgerSpend = 2
    FaultySpend = 1
    ClaudeTasks = {11}
    ClaudeMsgs = 1
    ClaudeCalls = 0
    TalkedMsgs = 2
    ClaudeOps = {"steer", "interrupt", "stop"}
    Requests = {"r1"}
    Costs = {1, 2}
    Budgets = {0, 2}
    Parallel = 2
    NoCost = NoCost
PROPERTIES
    HarnessTurnsEnd
CHECK_DEADLOCK FALSE
