SPECIFICATION Spec
CONSTANTS
  r1 = r1
  r2 = r2
  Requests = {r1, r2}
  Costs = {1}
  Budgets = {2}
  Parallel = 1
  None = None
PROPERTY QuoteIsFinal
CHECK_DEADLOCK FALSE
