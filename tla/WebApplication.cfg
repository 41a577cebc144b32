SPECIFICATION Spec
CONSTANTS
  Members = {m1}
  Admins = {}
  Address = address
  Processes = {w1, w2}
  Limit <- MCLimit
  Window = 3
  KeyLife = 3
  Fresh = 1
INVARIANTS
  TypeOK
  TwiceTheLimit
  HealthIsTrue
PROPERTIES
  WindowEnds
CHECK_DEADLOCK FALSE
