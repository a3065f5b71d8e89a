CONSTANTS
  d1 = d1
  d2 = d2
  a1 = a1
  a2 = a2
  t1 = t1
  t2 = t2
  NoDevice = NoDevice
  Agents = {a1, a2}
  Devices = {d1, d2}
  Tasks = {t1, t2}
  NumJobs = 2
  MaxFaults = 1
  DeviceOf <- OneEach
  TaskOf <- TaskEach
SPECIFICATION FairSpec

PROPERTIES QueuedJobIsDecided
CHECK_DEADLOCK FALSE
