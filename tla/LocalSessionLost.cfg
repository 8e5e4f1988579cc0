CONSTANTS
  Callers = {c1}
  MaxInbox = 3
  Readers = {}
  MaxRuns = 1
  MaxSends = 1
  Faults = {}
SPECIFICATION Spec
CHECK_DEADLOCK FALSE
INVARIANT NoMessageIsLost
