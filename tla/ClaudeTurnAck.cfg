SPECIFICATION Spec
CONSTANTS
  Tasks = {11}
  MaxMsgs = 1
  MaxCalls = 1
  Ops = {"steer", "interrupt", "stop"}
INVARIANTS UserEventMeansHeard
CHECK_DEADLOCK FALSE
