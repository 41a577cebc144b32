CONSTANTS
  Callers = {c1, c2}
  NoCaller = NoCaller
  Concurrency = 2
  Interval = 1
  Window = 2
  RpmLimit = 2
  TpmLimit = 3
  AsrTokens = 2
  TextLengths = {0, 7}
  MaxRetries = 1
  MaxDelay = 1
  RetryAfters = {2}
SPECIFICATION Spec
INVARIANTS
  TypeOK
  LimitsKept
  IntervalBounds
PROPERTIES
  Implements
  CallsSpaced
  EveryCallEnds
  QuotaStopsCounting
CHECK_DEADLOCK TRUE
