\* A call that waits while its turn ends and the next one starts.
SPECIFICATION Spec
CONSTANTS
  MaxTurns = 2
  Children = {"none"}
INVARIANT AnswersFromItsTurn
CHECK_DEADLOCK FALSE
