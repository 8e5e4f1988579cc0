SPECIFICATION Spec
CONSTANTS
  Harnesses = {"codex"}
  Places = {"sandbox"}
  RepoRefs = {"none"}
  MaxTurns = 3
  MaxFaults = 1
INVARIANTS ThreadHasItsRollout
CHECK_DEADLOCK FALSE
