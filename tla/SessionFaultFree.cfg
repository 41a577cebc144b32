\* Nothing fails; while d1 purges, requests create, score and remove two
\* sessions, of which nobody ever speaks in s2.
SPECIFICATION FairSpec
CONSTANTS
  Session = {s1, s2}
  Turn = {t1}
  Script = Script
  None = None
  Scheduler = {p1, p2}
  Worker = {w1}
  Requester = {h1}
  Purger = {d1}
  Advisor = {}
  Abandoned = {s2}
  BatchSize = 1
  Faults = {}
INVARIANT
  CleanupStaysPending
PROPERTIES
  AbandonedIsCleaned
  PurgeEnds
CHECK_DEADLOCK FALSE
