SPECIFICATION FairSpec
CONSTANTS
  v1 = v1
  v2 = v2
  w1 = w1
  p1 = p1
  NoVersion = NoVersion
  None = None
  InitialVersion = v1
  InitialCurrent = NoVersion
  Workloads = {w1}
  AppSpecs <- Listed
  RequestSpecs <- Plain
  PVCs = {p1}
  Mounts <- OneMount
  Versions <- TwoVersions
  Requests = {r1}
  Disturbances = {}
  TimeoutScaleDown = 0
  TimeoutSnapshot = 1
  TimeoutReconcile = 0
  TimeoutHealthCheck = 0
  MaxAge = 2
  MaxFaults = 0
  MaxRollbacks = 1
  MaxSnaps = 2
  MaxCount = 1
PROPERTY EveryRequestEnds
