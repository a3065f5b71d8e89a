CONSTANTS
  d1 = d1
  d2 = d2
  a1 = a1
  a2 = a2
  t1 = t1
  t2 = t2
  NoDevice = NoDevice
  Agents = {a1, a2}
  Devices <- OneDevice
  Tasks = {t1}
  NumJobs = 2
  MaxFaults = 0
  DeviceOf <- SameDevice
  TaskOf <- SameTask
SPECIFICATION Spec
INVARIANT GivenUpCallNeverRuns
CHECK_DEADLOCK FALSE
