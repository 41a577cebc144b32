\* Two confirmations of one mailed link; nothing fails.
SPECIFICATION Spec
CONSTANTS
  Token = {k1}
  Handler = {h1, h2}
  None = None
  Faults = {}
INVARIANT
  SingleUse
