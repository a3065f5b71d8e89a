CONSTANTS
  Tasks = {t1}
  Threads = {h1}
  Workers = {w1, w2}
  Standalone = {w2}
  NoTask = NoTask
  MaxRequeues = 2
  MaxFaults = 5
SPECIFICATION FairSpec
INVARIANTS TypeOK OneRunnerPerTask 
PROPERTIES  ClaimIsReleased
CHECK_DEADLOCK FALSE
