SPECIFICATION FairSpec
CONSTANTS
  Kind = {"sessions", "tips"}
  Row = {r1}
  Handler = {h1, h2}
  Worker = {w1}
  None = None
  MaxQueued = 1
  Faults = {}
PROPERTIES
  DoomedGo
CHECK_DEADLOCK FALSE
