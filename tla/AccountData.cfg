SPECIFICATION Spec
CONSTANTS
  Kind = {"sessions", "devices"}
  Row = {r1, r2}
  Handler = {h1, h2}
  Worker = {w1}
  None = None
  MaxQueued = 1
  Faults = {"broker", "abort"}
SYMMETRY Symmetry
INVARIANTS
  TypeOK
  NothingForgotten
PROPERTIES
  GoneForGood
CHECK_DEADLOCK FALSE
