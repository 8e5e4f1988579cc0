CONSTANTS
  Lifetime = 60
  Cadence = 25
  Retry = 1
  Horizon = 10
  RetrySoon = 5
  Early = 4
  CliEarly = 5
  MaxDispatch = 10
  MayDetach = TRUE
  AdoptWithin = 35
  Sampling = TRUE
  StorageFaults = 0
  ModelFaults = 0
  ReadFaults = 0
  MaxTime = 150
SPECIFICATION Spec
CHECK_DEADLOCK FALSE
INVARIANT AdoptedInTime
