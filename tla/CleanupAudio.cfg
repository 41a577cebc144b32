\* One request at a time, nothing fails.
SPECIFICATION Spec
CONSTANTS
  Session = {s1}
  Turn = {t1}
  Script = Script
  None = None
  Scheduler = {p1}
  Worker = {w1}
  Requester = {h1}
  Purger = {h1}
  Advisor = {}
  Abandoned = {}
  BatchSize = 1
  Faults = {}
INVARIANT
  DeletionRemovesAudio
CHECK_DEADLOCK FALSE
