SPECIFICATION Spec
CONSTANTS
  Kind = {"sessions", "devices"}
  Row = {r1}
  Handler = {h1}
  Worker = {w1}
  None = None
  MaxQueued = 1
  Faults = {}
INVARIANTS
  DeletionCleansUp
CHECK_DEADLOCK FALSE
