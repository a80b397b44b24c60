SPECIFICATION AutoSpec
CONSTANTS
  v1 = v1
  v2 = v2
  w1 = w1
  p1 = p1
  NoVersion = NoVersion
  None = None
  InitialVersion = v1
  InitialCurrent = v1
  Workloads = {w1}
  AppSpecs <- Automatic
  RequestSpecs <- Plain
  PVCs = {p1}
  Mounts <- OneMount
  Position <- InOrder
  Versions <- TwoVersions
  Requests = {r1}
  Disturbances = {"delete"}
  TimeoutScaleDown = 0
  TimeoutSnapshot = 1
  TimeoutReconcile = 0
  TimeoutHealthCheck = 0
  TimeoutVolumeRestore = 0
  MaxAge = 2
  MaxFaults = 1
  MaxRollbacks = 1
  MaxSnaps = 2
  MaxCount = 0
INVARIANTS CompletedRollbackRestores OneControllerAtATime StoppedDataClean
