SPECIFICATION AutoSpec
CONSTANTS
  v1 = v1
  v2 = v2
  w1 = w1
  p1 = p1
  NoVersion = NoVersion
  None = None
  InitialVersion = v1
  InitialCurrent = v1
  Workloads = {w1}
  AppSpecs <- Automatic
  RequestSpecs <- Plain
  PVCs = {p1}
  Mounts <- OneMount
  Position <- InOrder
  Versions <- TwoVersions
  Requests = {r1}
  Disturbances = {}
  TimeoutScaleDown = 0
  TimeoutSnapshot = 0
  TimeoutReconcile = 0
  TimeoutHealthCheck = 0
  TimeoutVolumeRestore = 0
  MaxAge = 1
  MaxFaults = 0
  MaxRollbacks = 1
  MaxSnaps = 1
  MaxCount = 0
INVARIANT AutoRollbackNotRefused
