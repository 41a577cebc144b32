\* One session, two user turns, every failure: two requests, two schedulers,
\* two Celery slots and two tip requests race on it.
SPECIFICATION Spec
CONSTANTS
  Session = {s1}
  Turn = {t1, t2}
  Script = Script
  None = None
  Scheduler = {p1, p2}
  Worker = {w1, w2}
  Requester = {h1, h2}
  Purger = {h1, h2}
  Advisor = {a1, a2}
  Abandoned = {}
  BatchSize = 1
  Faults = {"skew", "misfire", "redis", "broker", "abort", "r2", "mongo"}
SYMMETRY
  Symmetry
INVARIANTS
  TypeOK
  AudioIsThere
  OneCleanupInFlight
  PractisedAreKept
PROPERTY
  Implements
\* Every id is used in the end and nothing is left to do.
CHECK_DEADLOCK FALSE
