SPECIFICATION Spec
CONSTANTS
  Members = {m1}
  Admins = {super}
  Super = super
  Pairs = {p1, p2, p3}
  Requests = {r1, r2}
  MaxPending = 1
  NoAccount = NoAccount
  NoPair = NoPair
INVARIANTS
  TypeOK
  NoReplay
  RevokedStayOut
  OrphansStayOut
CHECK_DEADLOCK FALSE
SYMMETRY Symmetry
