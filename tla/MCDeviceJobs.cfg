CONSTANTS
  d1 = d1
  d2 = d2
  a1 = a1
  a2 = a2
  t1 = t1
  t2 = t2
  NoDevice = NoDevice
  Agents = {a1, a2}
  Devices <- OneDevice
  Tasks = {t1}
  NumJobs = 2
  MaxFaults = 2
  DeviceOf <- SameDevice
  TaskOf <- SameTask
SYMMETRY AgentSymmetry
SPECIFICATION Spec
INVARIANTS TypeOK EachClaimRunsOnce RunsAreClaims CallerSeesTruth
PROPERTIES ImplementsLedger
CHECK_DEADLOCK FALSE
