CONSTANTS
  Tasks = {t1}
  Threads = {h1, h2}
  Workers = {}
  Standalone = {}
  NoTask = NoTask
  MaxRequeues = 2
  MaxFaults = 1
SPECIFICATION FairSpec
PROPERTY PendingIsTakenUp
CHECK_DEADLOCK FALSE
