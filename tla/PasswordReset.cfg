SPECIFICATION Spec
CONSTANTS
  Token = {k1, k2}
  Handler = {h1, h2}
  None = None
  Faults = {"mail", "abort"}
INVARIANTS TypeOK CacheNeverAhead MarkedAfterWork
PROPERTY SpentForGood
