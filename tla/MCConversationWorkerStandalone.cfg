CONSTANTS
  Tasks = {t1}
  Threads = {h1, h2}
  Workers = {w1}
  Standalone = {w1}
  NoTask = NoTask
  MaxRequeues = 2
  MaxFaults = 0
SPECIFICATION Spec
INVARIANT FailedTaskWasStarted
CHECK_DEADLOCK FALSE
