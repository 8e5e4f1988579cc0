SPECIFICATION Spec
CONSTANTS
    Parts = {"codex", "ledger", "faulty_ledger", "claude", "talked", "proxy"}
    CallCap = 3
    CostCap = 2
    CodexMsgs = 2
    CodexCalls = 3
    CodexTexts = 1
    SubModels <- UnlikeModels
    LedgerBudget = 2
    LedgerTurns = 2
    LedgerSpend = 2
    FaultySpend = 1
    ClaudeTasks = {11}
    ClaudeMsgs = 1
    ClaudeCalls = 1
    TalkedMsgs = 2
    ClaudeOps = {"steer", "interrupt", "stop"}
    Requests = {r1, r2}
    Costs = {2}
    Budgets = {0, 2}
    Parallel = 2
    NoCost = NoCost
    r1 = r1
    r2 = r2
SYMMETRY RequestSymmetry
INVARIANTS
    TypesHold
    CodexReportsTruly
    ClaudeEndsRight
    ProxyQuotesRight
PROPERTIES
    SubagentsAreBilled
    OperatorDecides
CHECK_DEADLOCK FALSE
