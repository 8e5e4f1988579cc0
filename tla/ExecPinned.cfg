\* A process that left the group, with the pipes.
SPECIFICATION LiveSpec
CONSTANTS
  MaxTurns = 1
  Children = {"session"}
PROPERTY TimeoutFreesTheWorker
CHECK_DEADLOCK FALSE
