SPECIFICATION Spec
CONSTANTS
  r1 = r1
  r2 = r2
  r3 = r3
  Requests = {r1, r2, r3}
  Costs = {2}
  Budgets = {2}
  Parallel = 1
  None = None
INVARIANT OneResponseOver
CHECK_DEADLOCK FALSE
