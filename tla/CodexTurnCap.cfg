SPECIFICATION Spec
CONSTANTS
  MaxTurns = 3
  MaxBudget = 2
  MaxMsgs = 2
  MaxCalls = 4
  MaxTexts = 0
PROPERTIES CapEndsTheRun
CHECK_DEADLOCK FALSE
